------------------------- MODULE LoginServerProofs -------------------------
(***************************************************************************)
(* Proofs about LoginServer, for any number of connections, descriptors,   *)
(* workers and requests: types, who has a descriptor in hand, what a       *)
(* request and its answer belong to, and how m_user_count drifts.          *)
(***************************************************************************)
EXTENDS LoginServer, FiniteSetTheorems, WellFoundedInduction, TLAPS

Queued(f) == \E i \in 1 .. Len(queue) : queue[i] = f
Evented(f) == \E e \in batch : e[1] = f
Owned(f) == \E t \in Threads : Owns(t, f)

(* TypeOK, the domain of pc, and that no message is received unsent.       *)
Types ==
  /\ TypeOK
  /\ pc \in [Threads -> MainPCs \cup WorkerPCs \cup ClosePCs]
  /\ \A c \in Conns : unread[c] <= sent[c]

(* OneParty, without the cardinalities.                                    *)
Single ==
  /\ \A i, j \in 1 .. Len(queue) : queue[i] = queue[j] => i = j
  /\ \A d, e \in batch : d[1] = e[1] => d = e
  /\ \A f \in Fds : \A t, u \in Threads : Owns(t, f) /\ Owns(u, f) => t = u
  /\ \A f \in Fds :
       /\ f \in armed => ~Queued(f) /\ ~Evented(f) /\ ~Owned(f)
       /\ Queued(f) => ~Evented(f) /\ ~Owned(f)
       /\ Evented(f) => ~Owned(f)

(* Nobody has a closed descriptor in hand, but main() after show_error.    *)
Closed ==
  \A f \in Fds : file[f] = NoConn =>
    /\ ~Queued(f) /\ ~Evented(f)
    /\ \A t \in Threads : Owns(t, f) => t = Main /\ pc[Main] = "init"

(* A connection is in one place.                                           *)
Distinct ==
  /\ \A f, g \in Open : file[f] = file[g] => f = g
  /\ \A i, j \in 1 .. Len(backlog) : backlog[i] = backlog[j] => i = j
  /\ \A f \in Fds : \A i \in 1 .. Len(backlog) : file[f] # backlog[i]

(* Until its request has been served, a connection has had no answer.      *)
Unserved(f) ==
  \/ f \in armed \/ Queued(f) \/ Evented(f)
  \/ \E t \in Threads : Owns(t, f) /\ pc[t] \notin {"check", "remove"}

Fresh ==
  /\ \A c \in Conns \ connected : answers[c] = 0
  /\ \A i \in 1 .. Len(backlog) : answers[backlog[i]] = 0
  /\ \A f \in Open : Unserved(f) => answers[file[f]] = 0

(* An argument connFd of -1 was taken from an object that is still so.     *)
Argument ==
  \A w \in Workers :
    pc[w] \in {"register", "login"} /\ connFd[w] = NoFd => sockfd[busy[w]] = NoFd

LoginInv ==
  /\ Types
  /\ Single
  /\ Closed
  /\ OwnDescriptor
  /\ RequestKeepsConnection
  /\ Distinct
  /\ Fresh
  /\ AtMostOneAnswer
  /\ Argument
  /\ AbandonedOnlyByKnownCauses

-----------------------------------------------------------------------------
(* A set of natural numbers has a least one.                               *)
LEMMA Least ==
  ASSUME NEW S, S \subseteq Nat, S # {}
  PROVE  \E m \in S : \A n \in S : m <= n
<1> DEFINE R == OpToRel(<, Nat)
<1>1. IsWellFoundedOn(R, Nat)
  BY NatLessThanWellFounded
<1>2. \A x, y \in Nat : x < y => <<x, y>> \in R
  BY DEF OpToRel
<1> HIDE DEF R
<1>3. PICK m \in S : \A n \in S : ~ (<<n, m>> \in R)
  BY <1>1, WFMin
<1>4. ASSUME NEW n \in S PROVE m <= n
  <2>1. ~ (<<n, m>> \in R)
    BY <1>3
  <2>2. m \in Nat /\ n \in Nat
    OBVIOUS
  <2>3. ~ (n < m)
    BY <2>1, <2>2, <1>2
  <2> QED BY <2>2, <2>3
<1> QED BY <1>4

(* accept returns a descriptor that was free.                              *)
LEMMA LowestFreeIsFree ==
  ASSUME Open # Fds
  PROVE  LowestFree \in Fds \ Open
<1>1. Fds \ Open # {} /\ Fds \ Open \subseteq Nat
  BY ServerAssumption DEF Open
<1>2. \E f \in Fds \ Open : \A g \in Fds \ Open : f <= g
  BY <1>1, Least
<1> QED BY <1>2 DEF LowestFree

(* A sequence over a set is one over a larger set.                         *)
LEMMA SeqSubset ==
  ASSUME NEW S, NEW T, S \subseteq T, NEW s \in Seq(S)
  PROVE  s \in Seq(T)
  OBVIOUS
-----------------------------------------------------------------------------
(* Types.                                                                  *)
LEMMA TypesInit == Init => Types
<1> SUFFICES ASSUME Init PROVE Types
  OBVIOUS
<1> USE ServerAssumption DEF Threads
<1>1. pc \in [Threads -> MainPCs \cup WorkerPCs \cup ClosePCs]
  BY DEF Init, MainPCs, WorkerPCs
<1>2. pc[Main] = "loop" /\ \A w \in Workers : pc[w] = "idle"
  BY DEF Init
<1>3. /\ <<>> \in Seq(connected) /\ <<>> \in Seq(Fds)
      /\ 0 \in 0 .. MaxSends
  OBVIOUS
<1>4. TypeOK
  <2>1. /\ pc[Main] \in MainPCs \cup ClosePCs /\ (pc[Main] = "loop" <=> cur = NoFd)
        /\ \A w \in Workers : pc[w] \in WorkerPCs \cup ClosePCs /\ (pc[w] = "idle" <=> busy[w] = NoFd)
    BY <1>2 DEF Init, Pool!Init, MainPCs, WorkerPCs
  <2>2. /\ sent \in [Conns -> 0 .. MaxSends] /\ unread \in [Conns -> 0 .. MaxSends]
        /\ answers \in [Conns -> Nat] /\ file \in [Fds -> connected \cup {NoConn}]
        /\ sockfd \in [Fds -> Fds \cup {NoFd}] /\ readbuf \in [Fds -> Conns \cup {NoConn}]
        /\ busy \in [Workers -> Fds \cup {NoFd}] /\ connFd \in [Workers -> Fds \cup {NoFd}]
        /\ tmp \in [Threads -> Int]
    BY <1>3 DEF Init, Pool!Init
  <2>. QED
    BY <1>3, <2>1, <2>2 DEF Init, Pool!Init, TypeOK
<1>5. \A c \in Conns : unread[c] <= sent[c]
  BY DEF Init
<1>. QED
  BY <1>1, <1>4, <1>5 DEF Types

LEMMA TypesClient ==
  ASSUME Types, NEW c \in Conns, Connect(c) \/ SendRequest(c) \/ HangUp(c)
  PROVE  Types'
<1> USE DEF Types, TypeOK, kernelVars, clientVars, loopVars, userVars, poolVars, threadVars, drift
<1>1. CASE Connect(c)
  <2>1. connected \subseteq connected' /\ backlog' \in Seq(connected')
    BY <1>1 DEF Connect
  <2>. QED
    BY <1>1, <2>1 DEF Connect
<1>2. CASE SendRequest(c)
  <2>1. c \in Conns /\ unread[c] <= sent[c] /\ sent[c] < MaxSends /\ sent[c] \in Nat /\ unread[c] \in Nat
    BY <1>2 DEF SendRequest
  <2>2. sent[c] + 1 \in 0 .. MaxSends /\ unread[c] + 1 \in 0 .. MaxSends /\ unread[c] + 1 <= sent[c] + 1
    BY <2>1, ServerAssumption
  <2>3. sent' = [sent EXCEPT ![c] = sent[c] + 1] /\ unread' = [unread EXCEPT ![c] = unread[c] + 1]
    BY <1>2 DEF SendRequest
  <2>4. sent' \in [Conns -> 0 .. MaxSends] /\ unread' \in [Conns -> 0 .. MaxSends]
    BY <2>2, <2>3
  <2>5. \A d \in Conns : unread'[d] <= sent'[d]
    BY <2>2, <2>3
  <2>. QED
    BY <1>2, <2>4, <2>5 DEF SendRequest
<1>3. CASE HangUp(c)
  BY <1>3 DEF HangUp
<1>. QED
  BY <1>1, <1>2, <1>3

LEMMA TypesMain ==
  ASSUME LoginInv,
         \/ EpollWait \/ AcceptConn \/ AcceptFails \/ ShowError \/ InitConn \/ InitCount
         \/ \E f \in Fds : HupEvent(f) \/ InEvent(f) \/ InEventRefused(f) \/ InEventFails(f)
  PROVE  Types'
<1> USE DEF Types, TypeOK, Goes, Event, MainPCs, ClosePCs, kernelVars, clientVars, loopVars,
            userVars, poolVars, threadVars, drift
<1>0. Types /\ Main \in Threads /\ Main \notin Workers /\ \A w \in Workers : w \in Threads
  BY ServerAssumption DEF LoginInv, Threads
<1>1. CASE EpollWait
  <2>1. Reported \subseteq Events
    BY <1>0 DEF Reported, EventOf, Ready, Events
  <2>. QED
    BY <1>0, <1>1, <2>1 DEF EpollWait
<1>2. CASE AcceptConn
  <2>1. LowestFree \in Fds /\ LowestFree # NoFd /\ file[LowestFree] = NoConn
    BY <1>2, LowestFreeIsFree, ServerAssumption DEF AcceptConn, Open
  <2>2. Head(backlog) \in connected /\ Head(backlog) # NoConn /\ Tail(backlog) \in Seq(connected)
    BY <1>0, <1>2, ServerAssumption DEF AcceptConn
  <2>. QED
    BY <1>0, <1>2, <2>1, <2>2 DEF AcceptConn
<1>3. CASE AcceptFails
  BY <1>0, <1>3 DEF AcceptFails
<1>4. CASE ShowError
  <2>1. Owns(Main, cur) /\ cur \in Fds
    BY <1>0, <1>4 DEF ShowError, Owns
  <2>2. cur \notin armed
    BY <1>0, <2>1 DEF LoginInv, Single, Owned
  <2>. QED
    BY <1>0, <1>4, <2>1, <2>2 DEF ShowError
<1>5. CASE InitConn
  BY <1>0, <1>5 DEF InitConn, Open
<1>6. CASE InitCount
  <2>1. pc' = [pc EXCEPT ![Main] = "loop"] /\ cur' = NoFd
    BY <1>6 DEF InitCount
  <2>2. count' \in Int /\ tmp' \in [Threads -> Int] /\ raced' \in BOOLEAN
    BY <1>0, <1>6 DEF InitCount
  <2>. QED
    BY <1>0, <1>6, <2>1, <2>2 DEF InitCount
<1>7. ASSUME NEW f \in Fds, HupEvent(f) \/ InEventFails(f) PROVE Types'
  <2>1. batch' \subseteq Events /\ cur' = f /\ f # NoFd /\ pc' = [pc EXCEPT ![Main] = "check"]
    BY <1>0, <1>7, ServerAssumption DEF HupEvent, InEventFails
  <2>. QED
    BY <1>0, <1>7, <2>1 DEF HupEvent, InEventFails
<1>8. ASSUME NEW f \in Fds, Receives(f)
      PROVE  /\ readbuf' \in [Fds -> Conns \cup {NoConn}] /\ unread' \in [Conns -> 0 .. MaxSends]
             /\ \A c \in Conns : unread'[c] <= sent[c]
             /\ file[sockfd[f]] \in connected
  <2>1. file[sockfd[f]] \in connected
    BY <1>0, <1>8 DEF Receives
  <2>2. 0 \in 0 .. MaxSends /\ \A c \in Conns : 0 <= sent[c]
    BY <1>0, ServerAssumption
  <2>. QED
    BY <1>0, <1>8, <2>1, <2>2 DEF Receives
<1>9. ASSUME NEW f \in Fds, InEvent(f) PROVE Types'
  <2>1. batch' \subseteq Events /\ queue' \in Seq(Fds) /\ pc' = [pc EXCEPT ![Main] = "loop"]
    BY <1>0, <1>9 DEF InEvent, Pool!Submit
  <2>2. Receives(f)
    BY <1>9 DEF InEvent
  <2>. QED
    BY <1>0, <1>8, <1>9, <2>1, <2>2 DEF InEvent, Pool!Submit
<1>10. ASSUME NEW f \in Fds, InEventRefused(f) PROVE Types'
  <2>1. batch' \subseteq Events /\ pc' = [pc EXCEPT ![Main] = "loop"]
    BY <1>0, <1>10 DEF InEventRefused
  <2>2. Receives(f)
    BY <1>10 DEF InEventRefused
  <2>3. /\ readbuf' \in [Fds -> Conns \cup {NoConn}] /\ unread' \in [Conns -> 0 .. MaxSends]
        /\ \A c \in Conns : unread'[c] <= sent[c]
        /\ file[sockfd[f]] \in connected
    BY <1>8, <2>2
  <2>4. silent' \subseteq connected
    BY <1>0, <1>10, <2>3 DEF InEventRefused
  <2>. QED
    BY <1>0, <1>10, <2>1, <2>3, <2>4 DEF InEventRefused
<1>. QED
  BY <1>1, <1>2, <1>3, <1>4, <1>5, <1>6, <1>7, <1>9, <1>10

(* A thread that is through with its object.                               *)
LEMMA TypesDone ==
  ASSUME Types, NEW t \in Threads, NEW from, Done(t, from)
  PROVE  /\ cur' \in Fds \cup {NoFd} /\ queue' \in Seq(Fds)
         /\ busy' \in [Workers -> Fds \cup {NoFd}] /\ connFd' \in [Workers -> Fds \cup {NoFd}]
         /\ pc' \in [Threads -> MainPCs \cup WorkerPCs \cup ClosePCs]
         /\ pc'[Main] \in MainPCs \cup ClosePCs
         /\ pc'[Main] = "loop" <=> cur' = NoFd
         /\ \A w \in Workers :
              /\ pc'[w] \in WorkerPCs \cup ClosePCs
              /\ pc'[w] = "idle" <=> busy'[w] = NoFd
<1>0. Main \notin Workers /\ NoFd \notin Fds /\ Threads = Workers \cup {Main}
  BY ServerAssumption DEF Threads
<1>1. CASE t = Main
  <2>1. /\ pc' = [pc EXCEPT ![Main] = "loop"] /\ cur' = NoFd
        /\ queue' = queue /\ busy' = busy /\ connFd' = connFd
    BY <1>1, Zenon DEF Done, Goes, poolVars
  <2>2. pc' \in [Threads -> MainPCs \cup WorkerPCs \cup ClosePCs] /\ pc'[Main] = "loop"
    BY <2>1, <1>0 DEF Types, MainPCs
  <2>3. \A w \in Workers : pc'[w] = pc[w]
    BY <2>1, <1>0 DEF Types
  <2>. QED
    BY <2>1, <2>2, <2>3 DEF Types, TypeOK, MainPCs
<1>2. CASE t \in Workers
  <2>1. /\ t # Main /\ pc' = [pc EXCEPT ![t] = "idle"] /\ busy' = [busy EXCEPT ![t] = NoFd]
        /\ connFd' = [connFd EXCEPT ![t] = NoFd] /\ cur' = cur /\ queue' = queue
    BY <1>0, <1>2, Zenon DEF Done, Goes, Pool!Finish
  <2>2. \A w \in Workers :
          /\ pc'[w] \in WorkerPCs \cup ClosePCs
          /\ pc'[w] = "idle" <=> busy'[w] = NoFd
    BY <2>1, <1>0 DEF Types, TypeOK, WorkerPCs
  <2>3. busy' \in [Workers -> Fds \cup {NoFd}] /\ connFd' \in [Workers -> Fds \cup {NoFd}]
    BY <2>1 DEF Types, TypeOK
  <2>4. pc' \in [Threads -> MainPCs \cup WorkerPCs \cup ClosePCs] /\ pc'[Main] = pc[Main]
    BY <2>1, <1>0 DEF Types, WorkerPCs
  <2>. QED
    BY <2>1, <2>2, <2>3, <2>4 DEF Types, TypeOK
<1>. QED
  BY <1>0, <1>1, <1>2

LEMMA TypesClose == ASSUME Types, NEW t \in Threads, CloseConn(t) PROVE Types'
<1> USE DEF Types, TypeOK, Goes, User, MainPCs, WorkerPCs, ClosePCs,
            kernelVars, clientVars, loopVars, userVars, poolVars, threadVars, drift
<1>0. Main \notin Workers /\ NoFd \notin Fds /\ Threads = Workers \cup {Main}
  BY ServerAssumption DEF Threads
<1>1. CASE CloseCheck(t)
  BY <1>0, <1>1 DEF CloseCheck
<1>2. CASE CloseSkipped(t)
  <2>1. Done(t, "check")
    BY <1>2 DEF CloseSkipped
  <2>. QED
    BY <1>2, <2>1, TypesDone DEF CloseSkipped
<1>3. CASE CloseRemove(t)
  BY <1>0, <1>3 DEF CloseRemove
<1>4. CASE CloseClear(t)
  BY <1>0, <1>4 DEF CloseClear
<1>5. CASE CloseCount(t)
  <2>1. Done(t, "dec")
    BY <1>5 DEF CloseCount
  <2>2. tmp[t] \in Int /\ tmp' \in [Threads -> Int] /\ count' \in Int /\ raced' \in BOOLEAN
    BY <1>5 DEF CloseCount
  <2>. QED
    BY <1>5, <2>1, <2>2, TypesDone DEF CloseCount
<1>. QED
  BY <1>1, <1>2, <1>3, <1>4, <1>5 DEF CloseConn

LEMMA TypesWorker ==
  ASSUME LoginInv, NEW w \in Workers,
         \/ TakeRequest(w) \/ Dispatch(w) \/ IgnoreRequest(w) \/ Register(w)
         \/ LoginOk(w) \/ LoginFails(w) \/ RequestCrashes(w)
  PROVE  Types'
<1> USE DEF Types, TypeOK, Goes, WorkerPCs, ClosePCs, Pool!Take,
            kernelVars, clientVars, loopVars, userVars, poolVars, threadVars, drift
<1>0. Types /\ w \in Threads /\ w # Main /\ NoFd \notin Fds
  BY ServerAssumption DEF LoginInv, Threads
<1>1. CASE TakeRequest(w)
  BY <1>0, <1>1 DEF TakeRequest
<1>2. CASE Dispatch(w)
  BY <1>0, <1>2 DEF Dispatch
<1>3. CASE IgnoreRequest(w)
  <2>1. busy[w] \in Fds /\ Owns(w, busy[w])
    BY <1>0, <1>3 DEF IgnoreRequest, Owns, Done
  <2>2. readbuf[busy[w]] \in connected
    BY <1>0, <2>1 DEF LoginInv, RequestKeepsConnection
  <2>3. silent' \subseteq connected /\ connected' = connected
    BY <1>0, <1>3, <2>2 DEF IgnoreRequest
  <2>. QED
    BY <1>0, <1>3, <2>3, TypesDone DEF IgnoreRequest
<1>4. CASE Register(w) \/ LoginOk(w) \/ LoginFails(w)
  <2>1. SendData(w)
    BY <1>4 DEF Register, LoginOk, LoginFails
  <2>2. answers' \in [Conns -> Nat]
    BY <1>0, <2>1 DEF SendData
  <2>3. CASE Register(w)
    BY <1>0, <2>2, <2>3 DEF Register
  <2>4. CASE LoginOk(w)
    <3>1. pc' = [pc EXCEPT ![w] = "check"] /\ pc[w] = "login"
      BY <2>4 DEF LoginOk
    <3>2. /\ pc' \in [Threads -> MainPCs \cup WorkerPCs \cup ClosePCs]
          /\ pc'[Main] = pc[Main] /\ pc'[w] = "check"
          /\ \A x \in Workers : x # w => pc'[x] = pc[x]
      BY <1>0, <3>1
    <3>. QED
      BY <1>0, <2>2, <2>4, <3>1, <3>2 DEF LoginOk
  <2>5. CASE LoginFails(w)
    BY <1>0, <2>2, <2>5, TypesDone DEF LoginFails
  <2>. QED
    BY <1>4, <2>3, <2>4, <2>5
<1>5. CASE RequestCrashes(w)
  BY <1>0, <1>5 DEF RequestCrashes
<1>. QED
  BY <1>1, <1>2, <1>3, <1>4, <1>5

LEMMA TypesStep == LoginInv /\ [Next]_vars => Types'
<1> SUFFICES ASSUME LoginInv, [Next]_vars PROVE Types'
  OBVIOUS
<1>1. Types /\ Main \in Threads /\ \A w \in Workers : w \in Threads
  BY DEF LoginInv, Threads
<1>2. CASE UNCHANGED vars
  BY <1>1, <1>2 DEF Types, TypeOK, vars, kernelVars, clientVars, loopVars, userVars, poolVars,
     threadVars, drift
<1>. QED
  BY <1>1, <1>2, TypesClient, TypesMain, TypesClose, TypesWorker
     DEF Next, Client, MainStep, Process
-----------------------------------------------------------------------------
(* In most steps nobody takes a descriptor in hand.                        *)
Quiet ==
  /\ armed' \subseteq armed /\ queue' = queue /\ batch' \subseteq batch
  /\ \A t \in Threads : \A f \in Fds :
       Owns(t, f)' => Owns(t, f) /\ (pc'[t] \notin {"check", "remove"}
                                       => pc[t] \notin {"check", "remove"})

(* A thread moves on, with the object it has.                              *)
LEMMA ThreadMoves ==
  ASSUME Types, NEW t \in Threads, NEW to, pc' = [pc EXCEPT ![t] = to],
         cur' = cur, busy' = busy,
         armed' \subseteq armed, queue' = queue, batch' \subseteq batch,
         \/ t = Main /\ pc[t] = "loop"
         \/ pc[t] \in {"clear", "dec"} /\ to \in {"clear", "dec"}
         \/ to \in {"clear", "dec", "idle"}
         \/ t = Main /\ pc[t] = "refuse" /\ to = "init"
         \/ t \in Workers /\ pc[t] \in {"parse", "register", "login"}
              /\ to \in {"register", "login", "check"}
         \/ pc[t] = "check" /\ to = "remove"
  PROVE  Quiet
<1>0. Main \notin Workers /\ NoFd \notin Fds /\ Threads = Workers \cup {Main}
      /\ pc \in [Threads -> MainPCs \cup WorkerPCs \cup ClosePCs]
      /\ (pc[Main] = "loop" <=> cur = NoFd)
  BY ServerAssumption DEF Threads, Types, TypeOK
<1> SUFFICES ASSUME NEW u \in Threads, NEW f \in Fds, Owns(u, f)'
             PROVE  Owns(u, f) /\ (pc'[u] \notin {"check", "remove"}
                                     => pc[u] \notin {"check", "remove"})
  BY DEF Quiet
<1>1. CASE u # t
  BY <1>0, <1>1 DEF Owns
<1>2. CASE u = t
  BY <1>0, <1>2 DEF Owns
<1>. QED
  BY <1>1, <1>2

(* A thread has finished with its object.                                  *)
LEMMA ThreadDone ==
  ASSUME Types, NEW t \in Threads, NEW from, Done(t, from),
         armed' \subseteq armed, batch' = batch
  PROVE  Quiet
<1>0. Main \notin Workers /\ NoFd \notin Fds /\ Threads = Workers \cup {Main}
      /\ pc \in [Threads -> MainPCs \cup WorkerPCs \cup ClosePCs]
      /\ busy \in [Workers -> Fds \cup {NoFd}]
  BY ServerAssumption DEF Threads, Types, TypeOK
<1>1. CASE t = Main
  <2>1. pc' = [pc EXCEPT ![Main] = "loop"] /\ cur' = NoFd /\ queue' = queue /\ busy' = busy
    BY <1>1, Zenon DEF Done, Goes, poolVars
  <2>. QED
    BY <1>0, <2>1 DEF Quiet, Owns
<1>2. CASE t \in Workers
  <2>1. /\ t # Main /\ pc' = [pc EXCEPT ![t] = "idle"] /\ busy' = [busy EXCEPT ![t] = NoFd]
        /\ cur' = cur /\ queue' = queue
    BY <1>0, <1>2, Zenon DEF Done, Goes, Pool!Finish
  <2>. QED
    BY <1>0, <2>1 DEF Quiet, Owns
<1>. QED
  BY <1>0, <1>1, <1>2

(* The steps in which somebody does.                                       *)
Handing ==
  \/ EpollWait \/ AcceptConn \/ InitConn
  \/ \E f \in Fds : HupEvent(f) \/ InEvent(f) \/ InEventFails(f)
  \/ \E w \in Workers : TakeRequest(w)

LEMMA QuietSteps == ASSUME Types, [Next]_vars PROVE Quiet \/ Handing
<1> USE DEF Goes, loopVars, userVars, poolVars, threadVars, kernelVars
<1>0. Main \in Threads /\ Main \notin Workers /\ \A w \in Workers : w \in Threads
  BY ServerAssumption DEF Threads
<1>1. ASSUME UNCHANGED <<armed, batch, pc, cur, poolVars>> PROVE Quiet
  BY <1>1 DEF Quiet, Owns
<1>2. CASE Client \/ UNCHANGED vars
  BY <1>1, <1>2 DEF Client, Connect, SendRequest, HangUp, vars
<1>3. CASE AcceptFails
  BY <1>0, <1>3, ThreadMoves DEF AcceptFails, Event
<1>4. CASE ShowError
  BY <1>0, <1>4, ThreadMoves DEF ShowError
<1>5. CASE InitCount
  <2>1. Main \in Threads /\ \A w \in Workers : w # Main /\ pc'[w] = pc[w]
    BY <1>0, <1>5 DEF InitCount, Types
  <2>2. cur' = NoFd /\ NoFd \notin Fds
    BY <1>5, ServerAssumption DEF InitCount
  <2>. QED
    BY <1>5, <2>1, <2>2 DEF InitCount, Quiet, Owns, Threads
<1>6. ASSUME NEW f \in Fds, InEventRefused(f) PROVE Quiet
  BY <1>0, <1>6, ThreadMoves DEF InEventRefused, Event
<1>7. ASSUME NEW t \in Threads, CloseConn(t) PROVE Quiet
  <2>1. CASE CloseCheck(t)
    BY <2>1, ThreadMoves DEF CloseCheck
  <2>2. CASE CloseSkipped(t)
    <3>1. Done(t, "check") /\ armed' = armed /\ batch' = batch
      BY <2>2 DEF CloseSkipped
    <3>. QED
      BY <3>1, ThreadDone
  <2>3. CASE CloseRemove(t)
    BY <2>3, ThreadMoves DEF CloseRemove
  <2>4. CASE CloseClear(t)
    BY <2>4, ThreadMoves DEF CloseClear
  <2>5. CASE CloseCount(t)
    <3>1. Done(t, "dec") /\ armed' = armed /\ batch' = batch
      BY <2>5 DEF CloseCount
    <3>. QED
      BY <3>1, ThreadDone
  <2>. QED
    BY <1>7, <2>1, <2>2, <2>3, <2>4, <2>5 DEF CloseConn
<1>8. ASSUME NEW w \in Workers,
             Dispatch(w) \/ IgnoreRequest(w) \/ Register(w) \/ LoginOk(w) \/ LoginFails(w)
               \/ RequestCrashes(w)
      PROVE  Quiet
  <2>1. CASE Dispatch(w)
    BY <1>0, <2>1, ThreadMoves DEF Dispatch
  <2>2. CASE Register(w) \/ LoginOk(w)
    BY <1>0, <2>2, ThreadMoves DEF Register, LoginOk
  <2>3. CASE IgnoreRequest(w) \/ LoginFails(w)
    <3>1. \E from \in {"parse", "login"} : Done(w, from) /\ armed' = armed /\ batch' = batch
      BY <2>3 DEF IgnoreRequest, LoginFails
    <3>. QED
      BY <1>0, <3>1, ThreadDone
  <2>4. CASE RequestCrashes(w)
    BY <1>1, <2>4 DEF RequestCrashes
  <2>. QED
    BY <1>8, <2>1, <2>2, <2>3, <2>4
<1>. QED
  BY <1>0, <1>2, <1>3, <1>4, <1>5, <1>6, <1>7, <1>8 DEF Next, MainStep, Process, Handing
-----------------------------------------------------------------------------
(* Who has a descriptor in hand.                                           *)
LEMMA SingleInit == Init => Single /\ Closed
BY ServerAssumption DEF Init, Pool!Init, Single, Closed, Queued, Evented, Owned, Owns, Threads

LEMMA QuietSingle ==
  ASSUME Single, Quiet
  PROVE  Single'
<1>1. queue' = queue /\ batch' \subseteq batch /\ armed' \subseteq armed
  BY DEF Quiet
<1>2. \A f \in Fds : \A t \in Threads : Owns(t, f)' => Owns(t, f)
  BY DEF Quiet
<1>3. \A f \in Fds : (Queued(f)' => Queued(f)) /\ (Evented(f)' => Evented(f)) /\ (Owned(f)' => Owned(f))
  BY <1>1, <1>2 DEF Queued, Evented, Owned
<1>. QED
  BY <1>1, <1>2, <1>3 DEF Single

(* The events of a descriptor that becomes ready.                          *)
LEMMA ReportedOnce ==
  ASSUME Types
  PROVE  /\ \A d, e \in Reported : d[1] = e[1] => d = e
         /\ \A f \in Fds : (\E e \in Reported : e[1] = f) <=> f \in Ready
<1>1. Ready \subseteq Fds /\ Listen \notin Fds
  BY ServerAssumption DEF Types, TypeOK, Ready
<1>2. \A e \in Reported : e = <<Listen, "accept">> \/ \E f \in Ready : e = EventOf(f)
  BY DEF Reported
<1>3. \A f \in Ready : EventOf(f) \in Reported /\ EventOf(f)[1] = f
  BY DEF Reported, EventOf
<1>. QED
  BY <1>1, <1>2, <1>3

LEMMA EpollWaitHands ==
  ASSUME LoginInv, EpollWait
  PROVE  Single' /\ Closed'
<1>0. Types /\ Single /\ Closed
  BY DEF LoginInv
<1>1. /\ pc' = [pc EXCEPT ![Main] = "loop"] /\ pc[Main] = "loop" /\ cur' = cur /\ busy' = busy
      /\ queue' = queue /\ file' = file
      /\ batch' = Reported /\ batch = {} /\ armed' = armed \ Ready /\ Ready \subseteq armed
  BY DEF EpollWait, Goes, poolVars, Ready
<1>2. pc' = pc
  BY <1>0, <1>1 DEF Types
<1>3. \A f \in Fds : /\ Queued(f)' <=> Queued(f)
                     /\ Owned(f)' <=> Owned(f)
                     /\ Evented(f)' <=> f \in Ready
                     /\ ~Evented(f)
  BY <1>0, <1>1, <1>2, ReportedOnce DEF Queued, Owned, Owns, Evented
<1>4. \A f \in Fds : \A t \in Threads : Owns(t, f)' <=> Owns(t, f)
  BY <1>1, <1>2 DEF Owns
<1>5. \A d, e \in batch' : d[1] = e[1] => d = e
  BY <1>0, <1>1, ReportedOnce
<1>6. Single'
  BY <1>0, <1>1, <1>3, <1>4, <1>5 DEF Single
<1>7. \A f \in Ready : file[f] # NoConn
  BY <1>0, <1>1 DEF Types, TypeOK
<1>8. Closed'
  BY <1>0, <1>1, <1>2, <1>3, <1>4, <1>7 DEF Closed
<1>. QED
  BY <1>6, <1>8

(* main() takes a descriptor in hand.                                      *)
LEMMA MainTakes ==
  ASSUME Types, Single, NEW f \in Fds, ~Queued(f), ~Evented(f)', ~Owned(f), f \notin armed,
         cur' = f, pc[Main] = "loop", NEW to, pc' = [pc EXCEPT ![Main] = to],
         busy' = busy, queue' = queue, batch' \subseteq batch, armed' = armed
  PROVE  /\ Single'
         /\ \A g \in Fds : \A t \in Threads : Owns(t, g)' => Owns(t, g) \/ (t = Main /\ g = f)
<1>0. Main \notin Workers /\ Threads = Workers \cup {Main} /\ pc \in [Threads -> MainPCs \cup WorkerPCs \cup ClosePCs]
  BY ServerAssumption DEF Threads, Types
<1>1. \A g \in Fds : \A t \in Threads : Owns(t, g)' => Owns(t, g) \/ (t = Main /\ g = f)
  BY <1>0 DEF Owns
<1>2. \A g \in Fds : \A t \in Threads : g # f => ~ (t = Main /\ Owns(t, g)')
  BY <1>0 DEF Owns
<1>3. \A g \in Fds : (Queued(g)' <=> Queued(g)) /\ (Evented(g)' => Evented(g))
  BY DEF Queued, Evented
<1>4. \A g \in Fds : Owned(g)' => Owned(g) \/ g = f
  BY <1>1 DEF Owned
<1>5. \A g \in Fds : \A t, u \in Threads : Owns(t, g)' /\ Owns(u, g)' => t = u
  BY <1>1 DEF Single, Owned
<1>6. \A d, e \in batch' : d[1] = e[1] => d = e
  BY DEF Single
<1>7. \A g \in Fds :
        /\ g \in armed' => ~Queued(g)' /\ ~Evented(g)' /\ ~Owned(g)'
        /\ Queued(g)' => ~Evented(g)' /\ ~Owned(g)'
        /\ Evented(g)' => ~Owned(g)'
  BY <1>3, <1>4 DEF Single
<1>. QED
  BY <1>1, <1>5, <1>6, <1>7 DEF Single

(* An event that has been taken was the only one.                          *)
LEMMA EventTaken ==
  ASSUME Types, Single, NEW f \in Fds, NEW e, e[1] = f, Event(e)
  PROVE  /\ Evented(f) /\ ~Evented(f)' /\ ~Queued(f) /\ ~Owned(f) /\ f \notin armed
         /\ batch' \subseteq batch
<1>1. e \in batch /\ batch' = batch \ {e}
  BY DEF Event
<1>2. Evented(f)
  BY <1>1 DEF Evented
<1>3. ~Evented(f)'
  BY <1>1 DEF Evented, Single
<1>. QED
  BY <1>1, <1>2, <1>3 DEF Single
LEMMA AcceptHands ==
  ASSUME LoginInv, AcceptConn
  PROVE  Single' /\ Closed'
<1>0. Types /\ Single /\ Closed
  BY DEF LoginInv
<1>1. PICK f \in Fds : f = LowestFree /\ file[f] = NoConn
  BY LowestFreeIsFree DEF AcceptConn, Open
<1>2. /\ cur' = f /\ pc[Main] = "loop" /\ file' = [file EXCEPT ![f] = Head(backlog)]
      /\ queue' = queue /\ busy' = busy /\ armed' = armed /\ batch' \subseteq batch
      /\ \E to \in {"refuse", "init"} : pc' = [pc EXCEPT ![Main] = to]
  BY <1>1 DEF AcceptConn, Goes, Event, poolVars
<1>3. ~Queued(f) /\ ~Evented(f) /\ f \notin armed /\ ~Owned(f)
  BY <1>0, <1>1, <1>2 DEF Closed, Owned, Types, TypeOK
<1>4. ~Evented(f)'
  BY <1>2, <1>3 DEF Evented
<1>5. /\ Single'
      /\ \A g \in Fds : \A t \in Threads : Owns(t, g)' => Owns(t, g) \/ (t = Main /\ g = f)
  BY <1>0, <1>1, <1>2, <1>3, <1>4, MainTakes
<1>6. Head(backlog) # NoConn
  BY <1>0, ServerAssumption DEF AcceptConn, Types, TypeOK
<1>7. \A g \in Fds : (Queued(g)' => Queued(g)) /\ (Evented(g)' => Evented(g))
  BY <1>2 DEF Queued, Evented
<1>8. Closed'
  <2> SUFFICES ASSUME NEW g \in Fds, file'[g] = NoConn
               PROVE  /\ ~Queued(g)' /\ ~Evented(g)'
                      /\ \A t \in Threads : Owns(t, g)' => t = Main /\ pc'[Main] = "init"
    BY DEF Closed
  <2>1. g # f /\ file[g] = NoConn
    BY <1>0, <1>1, <1>2, <1>6 DEF Types, TypeOK
  <2>2. \A t \in Threads : ~Owns(t, g)
    BY <1>0, <1>2, <2>1 DEF Closed
  <2>. QED
    BY <1>0, <1>5, <1>7, <2>1, <2>2 DEF Closed
<1>. QED
  BY <1>5, <1>8

LEMMA InitHands ==
  ASSUME LoginInv, InitConn
  PROVE  /\ Single' /\ Closed'
         /\ \A f \in Fds : \A t \in Threads : Owns(t, f)' => Owns(t, f) /\ f # cur /\ t # Main
<1>0. Types /\ Single /\ Closed
  BY DEF LoginInv
<1>1. Main \notin Workers /\ Threads = Workers \cup {Main} /\ pc \in [Threads -> MainPCs \cup WorkerPCs \cup ClosePCs]
  BY <1>0, ServerAssumption DEF Threads, Types
<1>2. /\ pc[Main] = "init" /\ pc' = [pc EXCEPT ![Main] = "count"] /\ file' = file
      /\ queue' = queue /\ busy' = busy /\ cur' = cur /\ batch' = batch
      /\ armed' \subseteq armed \cup {cur} /\ (cur \notin Open => armed' = armed)
  BY DEF InitConn, Goes, poolVars, loopVars
<1>3. cur \in Fds /\ Owns(Main, cur)
  BY <1>0, <1>2 DEF Types, TypeOK, Owns
<1>4. ~Queued(cur) /\ ~Evented(cur) /\ \A t \in Threads : t # Main => ~Owns(t, cur)
  BY <1>0, <1>1, <1>3 DEF Single, Owned
<1>5. \A f \in Fds : \A t \in Threads : Owns(t, f)' => Owns(t, f) /\ f # cur /\ t # Main
  BY <1>1, <1>2, <1>4 DEF Owns
<1>6. \A f \in Fds : /\ Queued(f)' <=> Queued(f)
                     /\ Evented(f)' <=> Evented(f)
                     /\ Owned(f)' => Owned(f) /\ f # cur
  BY <1>2, <1>5 DEF Queued, Evented, Owned
<1>7. Single'
  <2>1. \A i, j \in 1 .. Len(queue') : queue'[i] = queue'[j] => i = j
    BY <1>0, <1>2 DEF Single
  <2>2. \A d, e \in batch' : d[1] = e[1] => d = e
    BY <1>0, <1>2 DEF Single
  <2>3. \A f \in Fds : \A t, u \in Threads : Owns(t, f)' /\ Owns(u, f)' => t = u
    BY <1>0, <1>5 DEF Single
  <2>4. \A f \in Fds :
          /\ f \in armed' => ~Queued(f)' /\ ~Evented(f)' /\ ~Owned(f)'
          /\ Queued(f)' => ~Evented(f)' /\ ~Owned(f)'
          /\ Evented(f)' => ~Owned(f)'
    BY <1>0, <1>2, <1>4, <1>6 DEF Single
  <2>. QED
    BY <2>1, <2>2, <2>3, <2>4 DEF Single
<1>8. Closed'
  BY <1>0, <1>2, <1>5, <1>6 DEF Closed
<1>. QED
  BY <1>5, <1>7, <1>8

LEMMA CloseEventHands ==
  ASSUME LoginInv, NEW f \in Fds, HupEvent(f) \/ InEventFails(f)
  PROVE  Single' /\ Closed'
<1>0. Types /\ Single /\ Closed
  BY DEF LoginInv
<1>1. /\ cur' = f /\ pc[Main] = "loop" /\ pc' = [pc EXCEPT ![Main] = "check"] /\ file' = file
      /\ queue' = queue /\ busy' = busy /\ armed' = armed
      /\ \E e : e[1] = f /\ Event(e)
  BY DEF HupEvent, InEventFails, Goes, poolVars, kernelVars
<1>2. /\ Evented(f) /\ ~Evented(f)' /\ ~Queued(f) /\ ~Owned(f) /\ f \notin armed
      /\ batch' \subseteq batch
  BY <1>0, <1>1, EventTaken
<1>3. /\ Single'
      /\ \A g \in Fds : \A t \in Threads : Owns(t, g)' => Owns(t, g) \/ (t = Main /\ g = f)
  BY <1>0, <1>1, <1>2, MainTakes
<1>4. \A g \in Fds : (Queued(g)' => Queued(g)) /\ (Evented(g)' => Evented(g))
  BY <1>1, <1>2 DEF Queued, Evented
<1>5. file[f] # NoConn
  BY <1>0, <1>2 DEF Closed
<1>6. Closed'
  <2> SUFFICES ASSUME NEW g \in Fds, file'[g] = NoConn
               PROVE  /\ ~Queued(g)' /\ ~Evented(g)'
                      /\ \A t \in Threads : Owns(t, g)' => t = Main /\ pc'[Main] = "init"
    BY DEF Closed
  <2>1. g # f /\ file[g] = NoConn
    BY <1>1, <1>5
  <2>2. \A t \in Threads : ~Owns(t, g)
    BY <1>0, <1>1, <2>1 DEF Closed
  <2>. QED
    BY <1>0, <1>3, <1>4, <2>1, <2>2 DEF Closed
<1>. QED
  BY <1>3, <1>6

LEMMA SubmitHands ==
  ASSUME LoginInv, NEW f \in Fds, InEvent(f)
  PROVE  /\ Single' /\ Closed'
         /\ Evented(f) /\ \A g \in Fds : Queued(g)' => Queued(g) \/ g = f
         /\ \A g \in Fds : \A t \in Threads : Owns(t, g)' <=> Owns(t, g)
<1>0. Types /\ Single /\ Closed
  BY DEF LoginInv
<1>1. /\ pc[Main] = "loop" /\ pc' = [pc EXCEPT ![Main] = "loop"] /\ file' = file /\ cur' = cur
      /\ busy' = busy /\ armed' = armed /\ queue' = Append(queue, f) /\ queue \in Seq(Fds)
      /\ \E e : e[1] = f /\ Event(e)
  BY <1>0 DEF InEvent, Goes, Pool!Submit, Types, TypeOK
<1>2. pc' = pc
  BY <1>0, <1>1 DEF Types
<1>3. /\ Evented(f) /\ ~Evented(f)' /\ ~Queued(f) /\ ~Owned(f) /\ f \notin armed
      /\ batch' \subseteq batch
  BY <1>0, <1>1, EventTaken
<1>4. \A g \in Fds : \A t \in Threads : Owns(t, g)' <=> Owns(t, g)
  BY <1>1, <1>2 DEF Owns
<1>5. /\ Len(queue') = Len(queue) + 1 /\ queue'[Len(queue) + 1] = f
      /\ \A i \in 1 .. Len(queue) : queue'[i] = queue[i]
  BY <1>1
<1>6. \A g \in Fds : /\ Queued(g)' => Queued(g) \/ g = f
                     /\ Evented(g)' => Evented(g) /\ g # f
                     /\ Owned(g)' => Owned(g)
  <2>1. \A g \in Fds : Queued(g)' => Queued(g) \/ g = f
    BY <1>1, <1>5 DEF Queued
  <2>2. \A g \in Fds : Evented(g)' => Evented(g) /\ g # f
    BY <1>3 DEF Evented
  <2>3. \A g \in Fds : Owned(g)' => Owned(g)
    BY <1>4 DEF Owned
  <2>. QED
    BY <2>1, <2>2, <2>3
<1>7. Single'
  <2>1. \A i, j \in 1 .. Len(queue') : queue'[i] = queue'[j] => i = j
    <3> SUFFICES ASSUME NEW i \in 1 .. Len(queue) + 1, NEW j \in 1 .. Len(queue) + 1,
                        queue'[i] = queue'[j]
                 PROVE  i = j
      BY <1>5
    <3>1. Len(queue) \in Nat
      BY <1>1
    <3>2. CASE i \in 1 .. Len(queue) /\ j \in 1 .. Len(queue)
      BY <1>0, <1>5, <3>2 DEF Single
    <3>3. CASE i = Len(queue) + 1
      BY <1>3, <1>5, <3>1, <3>3 DEF Queued
    <3>4. CASE j = Len(queue) + 1
      BY <1>3, <1>5, <3>1, <3>4 DEF Queued
    <3>. QED
      BY <3>1, <3>2, <3>3, <3>4
  <2>2. \A d, e \in batch' : d[1] = e[1] => d = e
    BY <1>0, <1>3 DEF Single
  <2>3. \A g \in Fds : \A t, u \in Threads : Owns(t, g)' /\ Owns(u, g)' => t = u
    BY <1>0, <1>4 DEF Single
  <2>4. \A g \in Fds :
          /\ g \in armed' => ~Queued(g)' /\ ~Evented(g)' /\ ~Owned(g)'
          /\ Queued(g)' => ~Evented(g)' /\ ~Owned(g)'
          /\ Evented(g)' => ~Owned(g)'
    BY <1>0, <1>1, <1>3, <1>6 DEF Single
  <2>. QED
    BY <2>1, <2>2, <2>3, <2>4 DEF Single
<1>8. file[f] # NoConn
  BY <1>0, <1>3 DEF Closed
<1>9. Closed'
  BY <1>0, <1>1, <1>2, <1>4, <1>6, <1>8 DEF Closed
<1>. QED
  BY <1>3, <1>4, <1>6, <1>7, <1>9

LEMMA TakeHands ==
  ASSUME LoginInv, NEW w \in Workers, TakeRequest(w)
  PROVE  /\ Single' /\ Closed'
         /\ busy'[w] \in Fds /\ Queued(busy'[w]) /\ \A g \in Fds : Queued(g)' => Queued(g)
         /\ \A g \in Fds : \A t \in Threads : Owns(t, g)' => Owns(t, g) \/ (t = w /\ g = busy'[w])
<1>0. Types /\ Single /\ Closed
  BY DEF LoginInv
<1>1. PICK f \in Fds : f = Head(queue)
  BY <1>0 DEF TakeRequest, Pool!Take, Types, TypeOK
<1>2. /\ pc[w] = "idle" /\ pc' = [pc EXCEPT ![w] = "parse"] /\ file' = file /\ cur' = cur
      /\ busy[w] = NoFd /\ busy' = [busy EXCEPT ![w] = f] /\ armed' = armed /\ batch' = batch
      /\ queue' = Tail(queue) /\ queue \in Seq(Fds) /\ queue # <<>>
      /\ pc \in [Threads -> MainPCs \cup WorkerPCs \cup ClosePCs]
      /\ busy \in [Workers -> Fds \cup {NoFd}]
      /\ w \in Threads /\ w # Main /\ Main \notin Workers /\ Threads = Workers \cup {Main}
  BY <1>0, <1>1, ServerAssumption
     DEF TakeRequest, Goes, Pool!Take, Types, TypeOK, Threads, kernelVars, loopVars
<1>3. f = queue[1] /\ f \in Fds /\ Len(queue) \in Nat \ {0} /\ Len(queue') = Len(queue) - 1
      /\ \A i \in 1 .. Len(queue') : queue'[i] = queue[i + 1]
  BY <1>1, <1>2
<1>4. Queued(f) /\ ~Queued(f)'
  <2>1. Queued(f)
    BY <1>3 DEF Queued
  <2>2. ASSUME NEW i \in 1 .. Len(queue'), queue'[i] = f PROVE FALSE
    <3>1. queue[i + 1] = queue[1] /\ i + 1 \in 1 .. Len(queue) /\ i + 1 # 1
      BY <1>3, <2>2
    <3>. QED
      BY <1>0, <1>3, <3>1 DEF Single
  <2>. QED
    BY <2>1, <2>2 DEF Queued
<1>5. busy'[w] = f
  BY <1>2
<1>6. \A g \in Fds : \A t \in Threads : Owns(t, g)' => Owns(t, g) \/ (t = w /\ g = f)
  BY <1>2 DEF Owns
<1>7. \A g \in Fds : /\ Queued(g)' => Queued(g) /\ g # f
                     /\ Evented(g)' <=> Evented(g)
                     /\ Owned(g)' => Owned(g) \/ g = f
  <2>1. \A g \in Fds : Queued(g)' => Queued(g) /\ g # f
    <3> SUFFICES ASSUME NEW g \in Fds, NEW i \in 1 .. Len(queue'), queue'[i] = g
                 PROVE  Queued(g) /\ g # f
      BY DEF Queued
    <3>1. i + 1 \in 1 .. Len(queue) /\ queue[i + 1] = g
      BY <1>3
    <3>. QED
      BY <1>4, <3>1 DEF Queued
  <2>2. \A g \in Fds : (Evented(g)' <=> Evented(g)) /\ (Owned(g)' => Owned(g) \/ g = f)
    BY <1>2, <1>6 DEF Evented, Owned
  <2>. QED
    BY <2>1, <2>2
<1>8. Single'
  <2>1. \A i, j \in 1 .. Len(queue') : queue'[i] = queue'[j] => i = j
    <3> SUFFICES ASSUME NEW i \in 1 .. Len(queue'), NEW j \in 1 .. Len(queue'), queue'[i] = queue'[j]
                 PROVE  i = j
      OBVIOUS
    <3>1. i + 1 \in 1 .. Len(queue) /\ j + 1 \in 1 .. Len(queue) /\ queue[i + 1] = queue[j + 1]
      BY <1>3
    <3>. QED
      BY <1>0, <3>1 DEF Single
  <2>2. \A d, e \in batch' : d[1] = e[1] => d = e
    BY <1>0, <1>2 DEF Single
  <2>3. ~Owned(f) /\ ~Evented(f) /\ f \notin armed
    BY <1>0, <1>3, <1>4 DEF Single
  <2>4. \A g \in Fds : \A t, u \in Threads : Owns(t, g)' /\ Owns(u, g)' => t = u
    BY <1>0, <1>6, <2>3 DEF Single, Owned
  <2>5. \A g \in Fds :
          /\ g \in armed' => ~Queued(g)' /\ ~Evented(g)' /\ ~Owned(g)'
          /\ Queued(g)' => ~Evented(g)' /\ ~Owned(g)'
          /\ Evented(g)' => ~Owned(g)'
    BY <1>0, <1>2, <1>7, <2>3 DEF Single
  <2>. QED
    BY <2>1, <2>2, <2>4, <2>5 DEF Single
<1>9. file[f] # NoConn
  BY <1>0, <1>3, <1>4 DEF Closed
<1>20. Closed'
  <2> SUFFICES ASSUME NEW g \in Fds, file'[g] = NoConn
               PROVE  /\ ~Queued(g)' /\ ~Evented(g)'
                      /\ \A t \in Threads : Owns(t, g)' => t = Main /\ pc'[Main] = "init"
    BY DEF Closed
  <2>1. g # f /\ file[g] = NoConn /\ pc'[Main] = pc[Main]
    BY <1>2, <1>9
  <2>. QED
    BY <1>0, <1>6, <1>7, <2>1 DEF Closed
<1>. QED
  BY <1>3, <1>4, <1>5, <1>6, <1>7, <1>8, <1>20
-----------------------------------------------------------------------------
(* Who writes the variables that the threads share.                        *)
LEMMA Writers ==
  ASSUME [Next]_vars
  PROVE  /\ file' = file \/ AcceptConn \/ ShowError \/ \E t \in Threads : CloseRemove(t)
         /\ sockfd' = sockfd \/ InitConn \/ \E t \in Threads : CloseClear(t)
         /\ readbuf' = readbuf \/ \E f \in Fds : InEvent(f) \/ InEventRefused(f)
         /\ \/ answers' = answers
            \/ \E w \in Workers : Register(w) \/ LoginOk(w) \/ LoginFails(w)
         /\ backlog' = backlog \/ AcceptConn \/ \E c \in Conns : Connect(c)
         /\ connected' = connected \/ \E c \in Conns : Connect(c)
         /\ \/ silent' = silent
            \/ \E f \in Fds : InEventRefused(f)
            \/ \E w \in Workers : IgnoreRequest(w)
<1> USE DEF kernelVars, clientVars, userVars
<1>0. Main \in Threads /\ \A w \in Workers : w \in Threads
  BY DEF Threads
<1>1. CASE Client \/ UNCHANGED vars
  BY <1>1 DEF Client, Connect, SendRequest, HangUp, vars
<1>2. ASSUME NEW t \in Threads, CloseConn(t)
      PROVE  /\ file' = file \/ CloseRemove(t)
             /\ sockfd' = sockfd \/ CloseClear(t)
             /\ UNCHANGED <<readbuf, answers, backlog, connected, silent>>
  BY <1>2 DEF CloseConn, CloseCheck, CloseSkipped, CloseRemove, CloseClear, CloseCount
<1>3. CASE MainStep
  <2>1. CASE \/ EpollWait \/ AcceptConn \/ AcceptFails \/ ShowError \/ InitConn \/ InitCount
    BY <2>1 DEF EpollWait, AcceptConn, AcceptFails, ShowError, InitConn, InitCount
  <2>2. ASSUME NEW f \in Fds, HupEvent(f) \/ InEvent(f) \/ InEventRefused(f) \/ InEventFails(f)
        PROVE  /\ UNCHANGED <<file, sockfd, answers, backlog, connected>>
               /\ readbuf' = readbuf \/ InEvent(f) \/ InEventRefused(f)
               /\ silent' = silent \/ InEventRefused(f)
    BY <2>2 DEF HupEvent, InEvent, InEventRefused, InEventFails
  <2>. QED
    BY <1>0, <1>2, <1>3, <2>1, <2>2 DEF MainStep
<1>4. ASSUME NEW w \in Workers, TakeRequest(w) \/ Dispatch(w) \/ IgnoreRequest(w) \/ Register(w)
                                  \/ LoginOk(w) \/ LoginFails(w) \/ RequestCrashes(w)
      PROVE  /\ UNCHANGED <<file, sockfd, readbuf, backlog, connected>>
             /\ answers' = answers \/ Register(w) \/ LoginOk(w) \/ LoginFails(w)
             /\ silent' = silent \/ IgnoreRequest(w)
  BY <1>4 DEF TakeRequest, Dispatch, IgnoreRequest, Register, LoginOk, LoginFails, RequestCrashes
<1>. QED
  BY <1>0, <1>1, <1>2, <1>3, <1>4 DEF Next, Process

(* Nobody changes what another thread has on its stack.                    *)
LEMMA OthersUntouched ==
  ASSUME Types, NEW t \in Threads,
         \/ t = Main /\ MainStep
         \/ t \in Workers /\ (TakeRequest(t) \/ Process(t))
  PROVE  /\ \A u \in Threads : u # t => pc'[u] = pc[u]
         /\ \A w \in Workers : w # t => busy'[w] = busy[w] /\ connFd'[w] = connFd[w]
         /\ t # Main => cur' = cur
<1> USE DEF Goes, Done, Pool!Finish, Pool!Take, Pool!Submit, loopVars, userVars, poolVars, threadVars,
            kernelVars
<1>0. Main \notin Workers /\ Threads = Workers \cup {Main}
      /\ pc \in [Threads -> MainPCs \cup WorkerPCs \cup ClosePCs]
      /\ busy \in [Workers -> Fds \cup {NoFd}] /\ connFd \in [Workers -> Fds \cup {NoFd}]
  BY ServerAssumption DEF Threads, Types, TypeOK
<1>1. CASE CloseConn(t)
  <2>1. CASE CloseCheck(t) \/ CloseRemove(t) \/ CloseClear(t)
    BY <1>0, <2>1 DEF CloseCheck, CloseRemove, CloseClear
  <2>2. CASE CloseSkipped(t)
    BY <1>0, <2>2 DEF CloseSkipped
  <2>3. CASE CloseCount(t)
    BY <1>0, <2>3 DEF CloseCount
  <2>. QED
    BY <1>1, <2>1, <2>2, <2>3 DEF CloseConn
<1>2. CASE t = Main /\ MainStep /\ ~CloseConn(Main)
  <2>1. CASE \/ EpollWait \/ AcceptConn \/ AcceptFails \/ ShowError \/ InitConn \/ InitCount
    BY <1>0, <1>2, <2>1 DEF EpollWait, AcceptConn, AcceptFails, ShowError, InitConn, InitCount
  <2>2. ASSUME NEW f \in Fds, HupEvent(f) \/ InEvent(f) \/ InEventRefused(f) \/ InEventFails(f)
        PROVE  \A u \in Threads : u # t => pc'[u] = pc[u] /\ busy' = busy /\ connFd' = connFd
    BY <1>0, <1>2, <2>2 DEF HupEvent, InEvent, InEventRefused, InEventFails
  <2>. QED
    BY <1>0, <1>2, <2>1, <2>2 DEF MainStep
<1>3. CASE t \in Workers /\ (TakeRequest(t) \/ Dispatch(t) \/ Register(t) \/ LoginOk(t) \/ RequestCrashes(t))
  BY <1>0, <1>3 DEF TakeRequest, Dispatch, Register, LoginOk, RequestCrashes
<1>4. CASE t \in Workers /\ (IgnoreRequest(t) \/ LoginFails(t))
  BY <1>0, <1>4 DEF IgnoreRequest, LoginFails
<1>. QED
  BY <1>0, <1>1, <1>2, <1>3, <1>4 DEF Process

(* close_conn closes the descriptor of the object that the thread owns.    *)
LEMMA RemoveOwn ==
  ASSUME Types, OwnDescriptor, NEW t \in Threads, CloseRemove(t)
  PROVE  /\ User(t) \in Fds /\ Owns(t, User(t)) /\ \A f \in Fds : ~Owns(t, f)'
         /\ \A f \in Fds : f # User(t) => file'[f] = file[f]
         /\ file'[User(t)] = NoConn \/ (file'[User(t)] = file[User(t)] /\ sockfd[User(t)] = NoFd)
         /\ pc' = [pc EXCEPT ![t] = "clear"] /\ busy' = busy /\ cur' = cur
<1>0. Main \notin Workers /\ Threads = Workers \cup {Main} /\ NoFd \notin Fds
      /\ pc \in [Threads -> MainPCs \cup WorkerPCs \cup ClosePCs]
  BY ServerAssumption DEF Threads, Types
<1>1. /\ pc[t] = "remove" /\ pc' = [pc EXCEPT ![t] = "clear"] /\ busy' = busy /\ cur' = cur
      /\ file' = [f \in Fds |-> IF f = sockfd[User(t)] THEN NoConn ELSE file[f]]
  BY DEF CloseRemove, Goes, loopVars, poolVars
<1>2. User(t) \in Fds
  BY <1>0, <1>1 DEF User, Types, TypeOK
<1>3. Owns(t, User(t))
  BY <1>0, <1>1 DEF User, Owns
<1>4. \A f \in Fds : ~Owns(t, f)'
  BY <1>0, <1>1 DEF Owns
<1>5. sockfd[User(t)] \in {User(t), NoFd}
  BY <1>2 DEF OwnDescriptor
<1>6. /\ \A f \in Fds : f # User(t) => file'[f] = file[f]
      /\ file'[User(t)] = NoConn \/ (file'[User(t)] = file[User(t)] /\ sockfd[User(t)] = NoFd)
  BY <1>0, <1>1, <1>2, <1>5
<1>. QED
  BY <1>1, <1>2, <1>3, <1>4, <1>6
LEMMA QuietClosed ==
  ASSUME LoginInv, [Next]_vars, Quiet, ~Handing
  PROVE  Closed'
<1>0. Types /\ Single /\ Closed /\ OwnDescriptor /\ Main \in Threads
      /\ pc \in [Threads -> MainPCs \cup WorkerPCs \cup ClosePCs]
  BY DEF LoginInv, Threads, Types
<1>1. \A f \in Fds : (Queued(f)' => Queued(f)) /\ (Evented(f)' => Evented(f))
  BY DEF Quiet, Queued, Evented
<1>2. \A f \in Fds : \A t \in Threads : Owns(t, f)' => Owns(t, f)
  BY DEF Quiet
<1>3. ASSUME NEW f \in Fds, file[f] = NoConn, Owns(Main, f)', ~ShowError PROVE pc'[Main] = "init"
  <2>1. pc[Main] = "init" /\ Owns(Main, f)
    BY <1>0, <1>2, <1>3 DEF Closed
  <2>2. pc'[Main] = pc[Main]
    <3>1. CASE Client \/ UNCHANGED vars
      BY <3>1 DEF Client, Connect, SendRequest, HangUp, vars, threadVars
    <3>2. ASSUME NEW w \in Workers, TakeRequest(w) \/ Process(w) PROVE pc'[Main] = pc[Main]
      BY <1>0, <3>2, OthersUntouched, ServerAssumption DEF Threads
    <3>3. CASE MainStep
      BY <1>3, <2>1, <3>3
         DEF MainStep, Handing, AcceptFails, InitCount, InEventRefused, CloseConn, CloseCheck,
             CloseSkipped, CloseRemove, CloseClear, CloseCount, Done, Goes
    <3>. QED
      BY <3>1, <3>2, <3>3 DEF Next
  <2>. QED
    BY <2>1, <2>2
<1>4. CASE file' = file
  <2>1. ~ShowError
    <3>1. ASSUME ShowError PROVE FALSE
      <4>1. Owns(Main, cur) /\ cur \in Fds /\ pc[Main] = "refuse" /\ file'[cur] = NoConn
        BY <1>0, <3>1 DEF ShowError, Goes, Owns, Types, TypeOK
      <4>. QED
        BY <1>0, <1>4, <4>1 DEF Closed
    <3>. QED
      BY <3>1
  <2>2. \A f \in Fds : \A t \in Threads : file[f] = NoConn /\ Owns(t, f)' => t = Main
    BY <1>0, <1>2 DEF Closed
  <2>. QED
    BY <1>0, <1>1, <1>3, <1>4, <2>1, <2>2 DEF Closed
<1>5. CASE ShowError
  <2>1. /\ file' = [file EXCEPT ![cur] = NoConn] /\ pc'[Main] = "init" /\ cur \in Fds
        /\ Owns(Main, cur)
    BY <1>0, <1>5 DEF ShowError, Goes, Types, TypeOK, Owns
  <2>2. ~Queued(cur) /\ ~Evented(cur) /\ \A t \in Threads : Owns(t, cur) => t = Main
    BY <1>0, <2>1 DEF Single, Owned
  <2>. QED
    BY <1>0, <1>1, <1>2, <2>1, <2>2 DEF Closed, Types, TypeOK
<1>6. ASSUME NEW t \in Threads, CloseRemove(t) PROVE Closed'
  <2>1. PICK g \in Fds : g = User(t)
    BY <1>0, <1>6, RemoveOwn
  <2>2. /\ Owns(t, g) /\ \A f \in Fds : ~Owns(t, f)'
        /\ \A f \in Fds : f # g => file'[f] = file[f]
    BY <1>0, <1>6, <2>1, RemoveOwn
  <2>3. ~Queued(g) /\ ~Evented(g) /\ \A u \in Threads : Owns(u, g) => u = t
    BY <1>0, <2>2 DEF Single, Owned
  <2>4. ~ShowError
    BY <1>0, <1>6, <2>2 DEF ShowError, CloseRemove, Goes, Closed, kernelVars, drift
  <2> SUFFICES ASSUME NEW f \in Fds, file'[f] = NoConn
               PROVE  /\ ~Queued(f)' /\ ~Evented(f)'
                      /\ \A u \in Threads : Owns(u, f)' => u = Main /\ pc'[Main] = "init"
    BY DEF Closed
  <2>5. CASE f = g
    BY <1>1, <1>2, <2>2, <2>3, <2>5
  <2>6. CASE f # g
    <3>1. file[f] = NoConn
      BY <2>2, <2>6
    <3>. QED
      BY <1>0, <1>1, <1>2, <1>3, <2>4, <3>1 DEF Closed
  <2>. QED
    BY <2>5, <2>6
<1>. QED
  BY <1>4, <1>5, <1>6, Writers DEF Handing

LEMMA HandsStep == LoginInv /\ [Next]_vars => Single' /\ Closed'
<1> SUFFICES ASSUME LoginInv, [Next]_vars PROVE Single' /\ Closed'
  OBVIOUS
<1>1. Types /\ Single
  BY DEF LoginInv
<1>2. CASE Handing
  BY <1>2, EpollWaitHands, AcceptHands, InitHands, CloseEventHands, SubmitHands, TakeHands DEF Handing
<1>3. CASE ~Handing
  BY <1>1, <1>3, QuietSteps, QuietSingle, QuietClosed
<1>. QED
  BY <1>2, <1>3

-----------------------------------------------------------------------------
(* The arguments of user_register and user_login are taken from the object *)
(* when they are called.                                                   *)
LEMMA Calls ==
  ASSUME Types, [Next]_vars, NEW w \in Workers, pc'[w] \in {"register", "login"}
  PROVE  /\ busy'[w] = busy[w]
         /\ \/ Dispatch(w) /\ pc[w] = "parse" /\ connFd'[w] = sockfd[busy[w]] /\ sockfd' = sockfd
            \/ pc'[w] = pc[w] /\ connFd'[w] = connFd[w]
<1>0. w \in Threads /\ w # Main /\ Main \in Threads
      /\ pc \in [Threads -> MainPCs \cup WorkerPCs \cup ClosePCs]
      /\ connFd \in [Workers -> Fds \cup {NoFd}] /\ \A v \in Workers : v \in Threads
  BY ServerAssumption DEF Threads, Types, TypeOK
<1>1. CASE Client \/ UNCHANGED vars
  BY <1>1 DEF Client, Connect, SendRequest, HangUp, vars, threadVars, poolVars
<1>2. CASE MainStep
  BY <1>0, <1>2, OthersUntouched
<1>3. ASSUME NEW v \in Workers, v # w, TakeRequest(v) \/ Process(v)
      PROVE  busy'[w] = busy[w] /\ pc'[w] = pc[w] /\ connFd'[w] = connFd[w]
  BY <1>0, <1>3, OthersUntouched
<1>4. CASE Dispatch(w)
  BY <1>0, <1>4 DEF Dispatch, Goes, poolVars, userVars
<1>5. CASE RequestCrashes(w)
  BY <1>5 DEF RequestCrashes, threadVars, poolVars
<1>6. CASE \/ TakeRequest(w) \/ IgnoreRequest(w) \/ Register(w) \/ LoginOk(w) \/ LoginFails(w)
  <2>1. \E to \in {"parse", "idle", "check"} : pc' = [pc EXCEPT ![w] = to]
    BY <1>0, <1>6 DEF TakeRequest, IgnoreRequest, Register, LoginOk, LoginFails, Goes, Done
  <2>. QED
    BY <1>0, <2>1
<1>7. CASE CloseConn(w)
  <2>1. \E to \in {"remove", "clear", "dec", "idle"} : pc' = [pc EXCEPT ![w] = to]
    BY <1>0, <1>7 DEF CloseConn, CloseCheck, CloseSkipped, CloseRemove, CloseClear, CloseCount, Goes, Done
  <2>. QED
    BY <1>0, <2>1
<1>. QED
  BY <1>1, <1>2, <1>3, <1>4, <1>5, <1>6, <1>7 DEF Next, Process

(* m_sockfd is set only by init and by close_conn.                         *)
LEMMA SocketSteps ==
  ASSUME Types, [Next]_vars
  PROVE  \A f \in Fds : \/ sockfd'[f] = sockfd[f]
                        \/ sockfd'[f] = NoFd
                        \/ sockfd'[f] = f /\ Owns(Main, f)
<1>1. sockfd \in [Fds -> Fds \cup {NoFd}]
  BY DEF Types, TypeOK
<1>2. CASE InitConn
  BY <1>1, <1>2 DEF InitConn, Goes, Owns
<1>3. ASSUME NEW t \in Threads, CloseClear(t)
      PROVE  \A f \in Fds : sockfd'[f] = sockfd[f] \/ sockfd'[f] = NoFd
  BY <1>1, <1>3 DEF CloseClear
<1>. QED
  BY <1>2, <1>3, Writers

LEMMA DescriptorInit == Init => OwnDescriptor /\ Argument
BY ServerAssumption DEF Init, OwnDescriptor, Argument, Threads

LEMMA DescriptorStep == LoginInv /\ [Next]_vars => OwnDescriptor' /\ Argument'
<1> SUFFICES ASSUME LoginInv, [Next]_vars PROVE OwnDescriptor' /\ Argument'
  OBVIOUS
<1>0. Types /\ Single /\ OwnDescriptor /\ Argument /\ Main \in Threads /\ Main \notin Workers
  BY ServerAssumption DEF LoginInv, Threads
<1>1. \A f \in Fds : sockfd'[f] \in {f, NoFd}
  BY <1>0, SocketSteps DEF OwnDescriptor
<1>2. ASSUME NEW w \in Workers, pc'[w] \in {"register", "login"}
      PROVE  /\ connFd'[w] \in {busy'[w], NoFd}
             /\ connFd'[w] = NoFd => sockfd'[busy'[w]] = NoFd
  <2>1. busy[w] \in Fds /\ Owns(w, busy[w]) /\ busy'[w] = busy[w] /\ w \in Threads /\ w # Main
    BY <1>0, <1>2, Calls DEF Types, TypeOK, Owns, Threads
  <2>2. CASE connFd'[w] = sockfd[busy[w]] /\ sockfd' = sockfd
    BY <1>0, <2>1, <2>2 DEF OwnDescriptor
  <2>3. CASE pc'[w] = pc[w] /\ connFd'[w] = connFd[w]
    <3>1. /\ connFd[w] \in {busy[w], NoFd} /\ (connFd[w] = NoFd => sockfd[busy[w]] = NoFd)
      BY <1>0, <1>2, <2>3 DEF OwnDescriptor, Argument
    <3>2. ~Owns(Main, busy[w])
      BY <1>0, <2>1 DEF Single
    <3>3. sockfd[busy[w]] = NoFd => sockfd'[busy[w]] = NoFd
      BY <1>0, <2>1, <3>2, SocketSteps
    <3>. QED
      BY <2>1, <2>3, <3>1, <3>3
  <2>. QED
    BY <1>0, <1>2, <2>2, <2>3, Calls
<1>. QED
  BY <1>1, <1>2 DEF OwnDescriptor, Argument
-----------------------------------------------------------------------------
(* A request and its connection.                                           *)
InService(f) == Queued(f) \/ \E w \in Workers : Owns(w, f)

LEMMA RequestInit == Init => RequestKeepsConnection
BY ServerAssumption DEF Init, Pool!Init, RequestKeepsConnection, Waiting, Owns

LEMMA RequestReadAs ==
  RequestKeepsConnection <=>
    (\A f \in Fds : InService(f) => file[f] # NoConn /\ readbuf[f] = file[f])
BY DEF RequestKeepsConnection, InService, Waiting, Queued

(* Service begins with the event that says that there is something to read.*)
LEMMA ServiceBegins ==
  ASSUME LoginInv, [Next]_vars
  PROVE  \A f \in Fds : InService(f)' => InService(f) \/ InEvent(f)
<1>0. Types /\ Single /\ Main \notin Workers /\ \A w \in Workers : w \in Threads
  BY ServerAssumption DEF LoginInv, Threads
<1>1. CASE Quiet
  BY <1>0, <1>1 DEF Quiet, InService, Queued
<1>2. CASE EpollWait
  <2>1. pc' = pc /\ busy' = busy /\ queue' = queue
    BY <1>0, <1>2 DEF EpollWait, Goes, poolVars, Types
  <2>. QED
    BY <1>0, <2>1 DEF InService, Queued, Owns
<1>3. CASE AcceptConn
  <2>1. /\ queue' = queue /\ busy' = busy /\ \A w \in Workers : pc'[w] = pc[w]
    BY <1>0, <1>3 DEF AcceptConn, Goes, poolVars, Types
  <2>. QED
    BY <1>0, <2>1 DEF InService, Queued, Owns
<1>4. CASE InitConn
  <2>1. /\ queue' = queue /\ busy' = busy /\ \A w \in Workers : pc'[w] = pc[w]
    BY <1>0, <1>4 DEF InitConn, Goes, poolVars, Types
  <2>. QED
    BY <1>0, <2>1 DEF InService, Queued, Owns
<1>5. ASSUME NEW g \in Fds, HupEvent(g) \/ InEventFails(g)
      PROVE  \A f \in Fds : InService(f)' => InService(f)
  <2>1. /\ queue' = queue /\ busy' = busy /\ \A w \in Workers : pc'[w] = pc[w]
    BY <1>0, <1>5 DEF HupEvent, InEventFails, Goes, poolVars, Types
  <2>. QED
    BY <1>0, <2>1 DEF InService, Queued, Owns
<1>6. ASSUME NEW g \in Fds, InEvent(g)
      PROVE  \A f \in Fds : InService(f)' => InService(f) \/ f = g
  BY <1>0, <1>6, SubmitHands DEF InService
<1>7. ASSUME NEW w \in Workers, TakeRequest(w)
      PROVE  \A f \in Fds : InService(f)' => InService(f)
  BY <1>0, <1>7, TakeHands DEF InService
<1>. QED
  BY <1>0, <1>1, <1>2, <1>3, <1>4, <1>5, <1>6, <1>7, QuietSteps DEF Handing

(* While it lasts, nobody touches the descriptor, nor what has been read.  *)
LEMMA ServiceUndisturbed ==
  ASSUME LoginInv, [Next]_vars, NEW f \in Fds, InService(f), InService(f)'
  PROVE  file'[f] = file[f] /\ readbuf'[f] = readbuf[f]
<1>0. Types /\ Single /\ Closed /\ OwnDescriptor /\ Main \notin Workers /\ Main \in Threads
      /\ \A w \in Workers : w \in Threads
  BY ServerAssumption DEF LoginInv, Threads
<1>1. ~Evented(f) /\ ~Owns(Main, f)
  BY <1>0 DEF InService, Single, Owned
<1>2. file[f] # NoConn
  BY <1>0 DEF InService, Closed
<1>3. file'[f] = file[f]
  <2>1. CASE AcceptConn
    <3>1. file' = [file EXCEPT ![LowestFree] = Head(backlog)] /\ file[LowestFree] = NoConn
      BY <2>1, LowestFreeIsFree DEF AcceptConn, Open
    <3>. QED
      BY <1>0, <1>2, <3>1 DEF Types, TypeOK
  <2>2. CASE ShowError
    <3>1. file' = [file EXCEPT ![cur] = NoConn] /\ cur # f
      BY <1>0, <1>1, <2>2 DEF ShowError, Goes, Owns
    <3>. QED
      BY <1>0, <3>1 DEF Types, TypeOK
  <2>3. ASSUME NEW t \in Threads, CloseRemove(t) PROVE file'[f] = file[f]
    <3>1. CASE f = User(t)
      <4>1. Owns(t, f) /\ ~Owns(t, f)'
        BY <1>0, <2>3, <3>1, RemoveOwn
      <4>2. ~Queued(f) /\ \A u \in Threads : Owns(u, f) => u = t
        BY <1>0, <4>1 DEF Single, Owned
      <4>3. pc' = [pc EXCEPT ![t] = "clear"] /\ busy' = busy /\ queue' = queue
        BY <2>3 DEF CloseRemove, Goes, poolVars
      <4>4. \A w \in Workers : Owns(w, f)' => Owns(w, f)
        BY <1>0, <4>3 DEF Owns, Types
      <4>5. ~Queued(f)' /\ \A w \in Workers : ~Owns(w, f)'
        BY <1>0, <4>1, <4>2, <4>3, <4>4 DEF Queued
      <4>. QED
        BY <4>5 DEF InService
    <3>2. CASE f # User(t)
      BY <1>0, <2>3, <3>2, RemoveOwn
    <3>. QED
      BY <3>1, <3>2
  <2>. QED
    BY <2>1, <2>2, <2>3, Writers
<1>4. readbuf'[f] = readbuf[f]
  <2>1. ASSUME NEW g \in Fds, InEvent(g) \/ InEventRefused(g) PROVE readbuf'[f] = readbuf[f]
    <3>1. g # f
      BY <1>1, <2>1 DEF InEvent, InEventRefused, Event, Evented
    <3>2. \E v : readbuf' = [readbuf EXCEPT ![g] = v]
      BY <2>1 DEF InEvent, InEventRefused, Receives
    <3>. QED
      BY <1>0, <3>1, <3>2 DEF Types, TypeOK
  <2>. QED
    BY <2>1, Writers
<1>. QED
  BY <1>3, <1>4

LEMMA RequestStep == LoginInv /\ [Next]_vars => RequestKeepsConnection'
<1> SUFFICES ASSUME LoginInv, [Next]_vars, NEW f \in Fds, InService(f)'
             PROVE  file'[f] # NoConn /\ readbuf'[f] = file'[f]
  BY RequestReadAs DEF InService, RequestKeepsConnection, Waiting, Queued
<1>0. Types /\ OwnDescriptor /\ RequestKeepsConnection
  BY DEF LoginInv
<1>1. CASE InService(f)
  BY <1>0, <1>1, ServiceUndisturbed, RequestReadAs
<1>2. CASE InEvent(f)
  <2>1. /\ sockfd[f] # NoFd /\ file[sockfd[f]] # NoConn /\ file' = file
        /\ readbuf' = [readbuf EXCEPT ![f] = file[sockfd[f]]]
    BY <1>2 DEF InEvent, Receives
  <2>2. sockfd[f] = f
    BY <1>0, <2>1 DEF OwnDescriptor
  <2>. QED
    BY <1>0, <2>1, <2>2 DEF Types, TypeOK
<1>. QED
  BY <1>1, <1>2, ServiceBegins

-----------------------------------------------------------------------------
(* Where a connection is.                                                  *)
LEMMA DistinctInit == Init => Distinct
BY DEF Init, Distinct, Open

LEMMA DistinctStep == LoginInv /\ [Next]_vars => Distinct'
<1> SUFFICES ASSUME LoginInv, [Next]_vars PROVE Distinct'
  OBVIOUS
<1>0. Types /\ Distinct /\ OwnDescriptor
  BY DEF LoginInv
<1>1. backlog \in Seq(connected) /\ file \in [Fds -> connected \cup {NoConn}]
  BY <1>0 DEF Types, TypeOK
<1>2. ASSUME NEW c \in Conns, Connect(c) PROVE Distinct'
  <2>1. c \notin connected /\ backlog' = Append(backlog, c) /\ file' = file
    BY <1>2 DEF Connect
  <2>2. /\ Len(backlog') = Len(backlog) + 1 /\ backlog'[Len(backlog) + 1] = c
        /\ Len(backlog) \in Nat
        /\ \A i \in 1 .. Len(backlog) : backlog'[i] = backlog[i] /\ backlog[i] # c
    BY <1>1, <2>1
  <2>3. \A f \in Fds : file[f] # c
    BY <1>1, <1>2, <2>1, ServerAssumption
  <2>4. \A i \in 1 .. Len(backlog') : i \in 1 .. Len(backlog) \/ i = Len(backlog) + 1
    BY <2>2
  <2>5. \A i, j \in 1 .. Len(backlog') : backlog'[i] = backlog'[j] => i = j
    BY <1>0, <2>2, <2>4 DEF Distinct
  <2>6. \A f \in Fds : \A i \in 1 .. Len(backlog') : file'[f] # backlog'[i]
    BY <1>0, <2>1, <2>2, <2>3, <2>4 DEF Distinct
  <2>. QED
    BY <1>0, <2>1, <2>5, <2>6 DEF Distinct, Open
<1>3. CASE AcceptConn
  <2>1. PICK g \in Fds : g = LowestFree /\ file[g] = NoConn
    BY <1>3, LowestFreeIsFree DEF AcceptConn, Open
  <2>2. PICK c : c = Head(backlog)
    OBVIOUS
  <2>3. /\ file' = [file EXCEPT ![g] = c] /\ backlog' = Tail(backlog) /\ backlog # <<>>
    BY <1>3, <2>1, <2>2 DEF AcceptConn
  <2>4. /\ Len(backlog') = Len(backlog) - 1 /\ c = backlog[1] /\ Len(backlog) \in Nat \ {0}
        /\ \A i \in 1 .. Len(backlog') : i + 1 \in 1 .. Len(backlog) /\ backlog'[i] = backlog[i + 1]
    BY <1>1, <2>2, <2>3
  <2>5. \A f \in Fds : file[f] # c
    BY <1>0, <2>4 DEF Distinct
  <2>6. \A i \in 1 .. Len(backlog') : backlog'[i] # c
    <3> SUFFICES ASSUME NEW i \in 1 .. Len(backlog'), backlog'[i] = c PROVE FALSE
      OBVIOUS
    <3>1. backlog[i + 1] = backlog[1] /\ i + 1 \in 1 .. Len(backlog) /\ i + 1 # 1
      BY <2>4
    <3>. QED
      BY <1>0, <2>4, <3>1 DEF Distinct
  <2>7. \A i, j \in 1 .. Len(backlog') : backlog'[i] = backlog'[j] => i = j
    <3> SUFFICES ASSUME NEW i \in 1 .. Len(backlog'), NEW j \in 1 .. Len(backlog'),
                        backlog'[i] = backlog'[j]
                 PROVE  i = j
      OBVIOUS
    <3>1. backlog[i + 1] = backlog[j + 1] /\ i + 1 \in 1 .. Len(backlog) /\ j + 1 \in 1 .. Len(backlog)
      BY <2>4
    <3>. QED
      BY <1>0, <3>1 DEF Distinct
  <2>8. \A f \in Fds : \A i \in 1 .. Len(backlog') : file'[f] # backlog'[i]
    BY <1>0, <1>1, <2>3, <2>4, <2>6 DEF Distinct
  <2>9. \A e, f \in Open' : file'[e] = file'[f] => e = f
    <3> SUFFICES ASSUME NEW e \in Fds, NEW f \in Fds, file'[e] # NoConn, file'[e] = file'[f]
                 PROVE  e = f
      BY DEF Open
    <3>1. CASE e = g \/ f = g
      BY <1>1, <2>3, <2>5, <3>1
    <3>2. CASE e # g /\ f # g
      BY <1>0, <1>1, <2>3, <3>2 DEF Distinct, Open
    <3>. QED
      BY <3>1, <3>2
  <2>. QED
    BY <2>7, <2>8, <2>9 DEF Distinct
<1>4. ASSUME backlog' = backlog, \A f \in Fds : file'[f] \in {file[f], NoConn}
      PROVE  Distinct'
  <2>1. \A i \in 1 .. Len(backlog) : backlog[i] # NoConn
    BY <1>0, <1>1, ServerAssumption DEF Types, TypeOK
  <2>. QED
    BY <1>0, <1>4, <2>1 DEF Distinct, Open
<1>5. CASE ShowError
  BY <1>1, <1>4, <1>5 DEF ShowError
<1>6. ASSUME NEW t \in Threads, CloseRemove(t) PROVE Distinct'
  BY <1>1, <1>4, <1>6 DEF CloseRemove
<1>. QED
  BY <1>2, <1>3, <1>4, <1>5, <1>6, Writers
-----------------------------------------------------------------------------
(* Answers.                                                                *)
LEMMA OpenSteps ==
  ASSUME Types, [Next]_vars, NEW f \in Fds, file'[f] # NoConn
  PROVE  \/ AcceptConn /\ f = LowestFree
         \/ file[f] # NoConn /\ file'[f] = file[f]
<1>0. file \in [Fds -> connected \cup {NoConn}]
  BY DEF Types, TypeOK
<1>1. CASE AcceptConn
  BY <1>0, <1>1 DEF AcceptConn
<1>2. CASE ShowError
  BY <1>0, <1>2 DEF ShowError
<1>3. ASSUME NEW t \in Threads, CloseRemove(t) PROVE file'[f] = file[f]
  BY <1>0, <1>3 DEF CloseRemove
<1>. QED
  BY <1>1, <1>2, <1>3, Writers

LEMMA UnservedSteps ==
  ASSUME LoginInv, [Next]_vars, NEW f \in Fds, Unserved(f)'
  PROVE  Unserved(f) \/ (AcceptConn /\ f = LowestFree)
<1>0. Types /\ Single /\ Main \in Threads /\ Main \notin Workers /\ Threads = Workers \cup {Main}
      /\ pc \in [Threads -> MainPCs \cup WorkerPCs \cup ClosePCs]
  BY ServerAssumption DEF LoginInv, Threads, Types
<1>1. CASE Quiet
  <2>1. /\ f \in armed' => f \in armed
        /\ Queued(f)' => Queued(f)
        /\ Evented(f)' => Evented(f)
    BY <1>1 DEF Quiet, Queued, Evented
  <2>2. (\E t \in Threads : Owns(t, f)' /\ pc'[t] \notin {"check", "remove"})
          => \E t \in Threads : Owns(t, f) /\ pc[t] \notin {"check", "remove"}
    BY <1>1 DEF Quiet
  <2>. QED
    BY <2>1, <2>2 DEF Unserved
<1>2. CASE EpollWait
  <2>1. /\ pc' = pc /\ cur' = cur /\ busy' = busy /\ queue' = queue /\ armed' \subseteq armed
        /\ batch' = Reported /\ Ready \subseteq armed
    BY <1>0, <1>2 DEF EpollWait, Goes, poolVars, Ready
  <2>2. Evented(f)' => f \in armed
    BY <1>0, <2>1, ReportedOnce DEF Evented
  <2>. QED
    BY <2>1, <2>2 DEF Unserved, Queued, Owns
<1>3. CASE AcceptConn
  <2>1. /\ cur' = LowestFree /\ busy' = busy /\ queue' = queue /\ armed' = armed
        /\ batch' \subseteq batch /\ \A t \in Threads : t # Main => pc'[t] = pc[t]
    BY <1>0, <1>3 DEF AcceptConn, Goes, poolVars, Event
  <2>. QED
    BY <1>0, <1>3, <2>1 DEF Unserved, Queued, Evented, Owns
<1>4. CASE InitConn
  <2>1. /\ cur' = cur /\ busy' = busy /\ queue' = queue /\ armed' \subseteq armed \cup {cur}
        /\ batch' = batch /\ pc' = [pc EXCEPT ![Main] = "count"] /\ pc[Main] = "init"
    BY <1>0, <1>4 DEF InitConn, Goes, poolVars, loopVars
  <2>. QED
    BY <1>0, <2>1 DEF Unserved, Queued, Evented, Owns
<1>5. ASSUME NEW g \in Fds, HupEvent(g) \/ InEventFails(g) PROVE Unserved(f)
  <2>1. /\ cur' = g /\ busy' = busy /\ queue' = queue /\ armed' = armed
        /\ batch' \subseteq batch /\ pc' = [pc EXCEPT ![Main] = "check"]
    BY <1>0, <1>5 DEF HupEvent, InEventFails, Goes, poolVars, kernelVars, Event
  <2>. QED
    BY <1>0, <2>1 DEF Unserved, Queued, Evented, Owns
<1>6. ASSUME NEW g \in Fds, InEvent(g) PROVE Unserved(f)
  <2>1. /\ pc' = pc /\ armed' = armed /\ batch' \subseteq batch
    BY <1>0, <1>6 DEF InEvent, Goes, Event
  <2>2. /\ Evented(g) /\ (Queued(f)' => Queued(f) \/ f = g)
        /\ \A t \in Threads : Owns(t, f)' <=> Owns(t, f)
    BY <1>6, SubmitHands
  <2>. QED
    BY <2>1, <2>2 DEF Unserved, Evented
<1>7. ASSUME NEW w \in Workers, TakeRequest(w) PROVE Unserved(f)
  <2>1. /\ armed' = armed /\ batch' = batch /\ pc' = [pc EXCEPT ![w] = "parse"]
    BY <1>7 DEF TakeRequest, Goes, kernelVars, loopVars
  <2>2. /\ Queued(busy'[w]) /\ (Queued(f)' => Queued(f))
        /\ \A t \in Threads : Owns(t, f)' => Owns(t, f) \/ (t = w /\ f = busy'[w])
    BY <1>7, TakeHands
  <2>3. \A t \in Threads : t # w => pc'[t] = pc[t]
    BY <1>0, <2>1
  <2>4. pc[w] = "idle"
    BY <1>7 DEF TakeRequest, Goes
  <2>. QED
    BY <1>0, <2>1, <2>2, <2>3, <2>4 DEF Unserved, Evented
<1>. QED
  BY <1>0, <1>1, <1>2, <1>3, <1>4, <1>5, <1>6, <1>7, QuietSteps DEF Handing

(* sendData answers the client whose request the worker has.               *)
LEMMA Answering ==
  ASSUME LoginInv, NEW w \in Workers, Register(w) \/ LoginOk(w) \/ LoginFails(w)
  PROVE  /\ busy[w] \in Fds /\ file[busy[w]] # NoConn /\ Owns(w, busy[w])
         /\ answers[file[busy[w]]] = 0
         /\ \A f \in Fds : f = busy[w] => ~Unserved(f)'
         /\ UNCHANGED <<file, backlog, connected, sockfd>>
         /\ \A c \in Conns : answers'[c] = IF connFd[w] # NoFd /\ c = file[busy[w]]
                                             THEN answers[c] + 1 ELSE answers[c]
<1>0. Types /\ Single /\ Closed /\ OwnDescriptor /\ Fresh /\ Threads = Workers \cup {Main}
      /\ w \in Threads /\ w # Main /\ Main \notin Workers
      /\ pc \in [Threads -> MainPCs \cup WorkerPCs \cup ClosePCs]
  BY ServerAssumption DEF LoginInv, Threads, Types
<1>1. pc[w] \in {"register", "login"} /\ UNCHANGED <<file, backlog, connected, sockfd, armed, queue, batch, cur>>
  BY <1>0 DEF Register, LoginOk, LoginFails, Done, Goes, Pool!Finish, clientVars, userVars, loopVars, poolVars
<1>2. PICK f \in Fds : f = busy[w]
  BY <1>0, <1>1 DEF Types, TypeOK
<1>3. Owns(w, f)
  BY <1>0, <1>1, <1>2 DEF Owns
<1>4. file[f] # NoConn
  BY <1>0, <1>3 DEF Closed
<1>5. answers[file[f]] = 0
  BY <1>0, <1>1, <1>3, <1>4 DEF Fresh, Unserved, Open
<1>6. f \notin armed /\ ~Queued(f) /\ ~Evented(f) /\ \A t \in Threads : Owns(t, f) => t = w
  BY <1>0, <1>3 DEF Single, Owned
<1>7. ~Unserved(f)'
  <2>1. \A t \in Threads : t # w => ~Owns(t, f)'
    <3>1. \A t \in Workers : t # w => pc'[t] = pc[t] /\ busy'[t] = busy[t]
      BY <1>0, OthersUntouched DEF Process
    <3>2. pc'[Main] = pc[Main]
      BY <1>0, OthersUntouched DEF Process
    <3>. QED
      BY <1>0, <1>1, <1>6, <3>1, <3>2 DEF Owns
  <2>2. pc'[w] \in {"check", "idle"}
    BY <1>0 DEF Register, LoginOk, LoginFails, Done, Goes
  <2>3. Owns(w, f)' => pc'[w] = "check"
    BY <1>0, <2>2 DEF Owns
  <2>. QED
    BY <1>1, <1>6, <2>1, <2>3 DEF Unserved, Queued, Evented
<1>8. \A c \in Conns : answers'[c] = IF connFd[w] # NoFd /\ c = file[f]
                                       THEN answers[c] + 1 ELSE answers[c]
  <2>1. connFd[w] \in {f, NoFd}
    BY <1>0, <1>1, <1>2 DEF OwnDescriptor
  <2>2. SendData(w)
    BY DEF Register, LoginOk, LoginFails
  <2>. QED
    BY <2>1, <2>2 DEF SendData
<1>. QED
  BY <1>1, <1>2, <1>3, <1>4, <1>5, <1>7, <1>8

LEMMA FreshInit == Init => Fresh /\ AtMostOneAnswer
BY DEF Init, Fresh, AtMostOneAnswer, Open

LEMMA FreshStep == LoginInv /\ [Next]_vars => Fresh' /\ AtMostOneAnswer'
<1> SUFFICES ASSUME LoginInv, [Next]_vars PROVE Fresh' /\ AtMostOneAnswer'
  OBVIOUS
<1>0. Types /\ Distinct /\ Fresh /\ AtMostOneAnswer
      /\ file \in [Fds -> connected \cup {NoConn}] /\ connected \subseteq Conns
      /\ backlog \in Seq(connected) /\ answers \in [Conns -> Nat]
  BY DEF LoginInv, Types, TypeOK
<1>1. ASSUME NEW w \in Workers, Register(w) \/ LoginOk(w) \/ LoginFails(w)
      PROVE  Fresh' /\ AtMostOneAnswer'
  <2>1. PICK g \in Fds : g = busy[w]
    BY <1>1, Answering
  <2>2. /\ file[g] # NoConn /\ answers[file[g]] = 0 /\ ~Unserved(g)'
        /\ UNCHANGED <<file, backlog, connected>>
        /\ \A c \in Conns : answers'[c] \in {answers[c], answers[c] + 1}
        /\ \A c \in Conns : c # file[g] => answers'[c] = answers[c]
    <3>1. \A c \in Conns : answers'[c] = IF connFd[w] # NoFd /\ c = file[g]
                                           THEN answers[c] + 1 ELSE answers[c]
      BY <1>1, <2>1, Answering
    <3>2. /\ file[g] # NoConn /\ answers[file[g]] = 0 /\ ~Unserved(g)'
          /\ UNCHANGED <<file, backlog, connected>>
      BY <1>1, <2>1, Answering
    <3>. QED
      BY <3>1, <3>2
  <2>3. file[g] \in connected
    BY <1>0, <2>2
  <2>4. \A c \in Conns \ connected' : answers'[c] = 0
    BY <1>0, <2>2, <2>3 DEF Fresh
  <2>5. \A i \in 1 .. Len(backlog') : answers'[backlog'[i]] = 0
    BY <1>0, <2>2 DEF Fresh, Distinct
  <2>6. ASSUME NEW f \in Fds, file'[f] # NoConn, Unserved(f)' PROVE answers'[file'[f]] = 0
    <3>1. f # g /\ ~AcceptConn
      BY <1>0, <1>1, <2>2, <2>6, ServerAssumption
         DEF AcceptConn, Register, LoginOk, LoginFails, Done, Goes, kernelVars
    <3>2. Unserved(f) /\ file[f] # NoConn /\ file'[f] = file[f]
      BY <2>2, <2>6, <3>1, UnservedSteps
    <3>3. file[f] # file[g] /\ file[f] \in Conns
      BY <1>0, <2>2, <3>1, <3>2 DEF Distinct, Open
    <3>. QED
      BY <1>0, <2>2, <3>2, <3>3 DEF Fresh, Open
  <2>7. AtMostOneAnswer'
    BY <1>0, <2>2, <2>3 DEF AtMostOneAnswer
  <2>. QED
    BY <2>4, <2>5, <2>6, <2>7 DEF Fresh, Open
<1>2. CASE answers' = answers
  <2>1. connected \subseteq connected'
    BY <1>2, Writers DEF Connect
  <2>2. \A i \in 1 .. Len(backlog') : answers[backlog'[i]] = 0
    <3>1. CASE backlog' = backlog
      BY <1>0, <3>1 DEF Fresh
    <3>2. CASE AcceptConn
      <4>1. \A i \in 1 .. Len(Tail(backlog)) : i + 1 \in 1 .. Len(backlog) /\ Tail(backlog)[i] = backlog[i + 1]
        BY <1>0, <3>2 DEF AcceptConn
      <4>. QED
        BY <1>0, <3>2, <4>1 DEF Fresh, AcceptConn
    <3>3. ASSUME NEW c \in Conns, Connect(c) PROVE \A i \in 1 .. Len(backlog') : answers[backlog'[i]] = 0
      <4>1. c \notin connected /\ backlog' = Append(backlog, c)
        BY <3>3 DEF Connect
      <4>2. answers[c] = 0
        BY <1>0, <4>1 DEF Fresh
      <4>3. \A i \in 1 .. Len(backlog') : backlog'[i] = c \/ (i \in 1 .. Len(backlog) /\ backlog'[i] = backlog[i])
        BY <1>0, <4>1
      <4>. QED
        BY <1>0, <4>2, <4>3 DEF Fresh
    <3>. QED
      BY <3>1, <3>2, <3>3, Writers
  <2>3. ASSUME NEW f \in Fds, file'[f] # NoConn, Unserved(f)' PROVE answers[file'[f]] = 0
    <3>1. CASE AcceptConn /\ f = LowestFree
      <4>1. file'[f] = backlog[1] /\ Len(backlog) \in Nat \ {0}
        BY <1>0, <3>1 DEF AcceptConn
      <4>. QED
        BY <1>0, <4>1 DEF Fresh
    <3>2. CASE ~(AcceptConn /\ f = LowestFree)
      <4>1. file[f] # NoConn /\ file'[f] = file[f] /\ Unserved(f)
        BY <1>0, <2>3, <3>2, OpenSteps, UnservedSteps
      <4>. QED
        BY <1>0, <4>1 DEF Fresh, Open
    <3>. QED
      BY <3>1, <3>2
  <2>. QED
    BY <1>0, <1>2, <2>1, <2>2, <2>3 DEF Fresh, AtMostOneAnswer, Open
<1>. QED
  BY <1>1, <1>2, Writers

-----------------------------------------------------------------------------
(* Connections that nobody will look at again.                             *)
Forsaken(f) == f \notin armed /\ ~Queued(f) /\ ~Evented(f) /\ ~Owned(f)

Known(f) == answers[file[f]] > 0 \/ file[f] \in silent \/ sockfd[f] = NoFd

LEMMA AbandonedReadAs ==
  AbandonedOnlyByKnownCauses <=>
    (\A f \in Fds : file[f] # NoConn /\ Forsaken(f) => Known(f))
BY DEF AbandonedOnlyByKnownCauses, Abandoned, Forsaken, Known, Open, Waiting, Pending, Owners,
       Queued, Evented, Owned

LEMMA AbandonedInit == Init => AbandonedOnlyByKnownCauses
BY DEF Init, AbandonedOnlyByKnownCauses, Abandoned, Open

(* What is known stays so.                                                 *)
LEMMA KnownStays ==
  ASSUME LoginInv, [Next]_vars, NEW f \in Fds, file[f] # NoConn, file'[f] = file[f], Known(f),
         Forsaken(f)'
  PROVE  Known(f)'
<1>0. Types /\ file[f] \in Conns
  BY DEF LoginInv, Types, TypeOK
<1>1. CASE answers[file[f]] > 0
  <2>1. answers' = answers \/ answers'[file[f]] \in {answers[file[f]], answers[file[f]] + 1}
    BY <1>0, Writers, Answering
  <2>. QED
    BY <1>0, <1>1, <2>1 DEF Known, Types, TypeOK
<1>2. CASE file[f] \in silent
  <2>1. silent \subseteq silent'
    BY Writers DEF InEventRefused, IgnoreRequest
  <2>. QED
    BY <1>2, <2>1 DEF Known
<1>3. CASE sockfd[f] = NoFd
  <2>1. CASE InitConn
    <3>1. cur # f \/ f \in armed'
      BY <2>1 DEF InitConn, Open
    <3>2. cur # f
      BY <3>1 DEF Forsaken
    <3>3. sockfd'[f] = sockfd[f]
      BY <1>0, <2>1, <3>2 DEF InitConn, Types, TypeOK
    <3>. QED
      BY <1>3, <3>3 DEF Known
  <2>2. CASE ~InitConn
    <3>1. sockfd'[f] = NoFd
      BY <1>0, <1>3, <2>2, Writers DEF CloseClear, Types, TypeOK
    <3>. QED
      BY <3>1 DEF Known
  <2>. QED
    BY <2>1, <2>2
<1>. QED
  BY <1>1, <1>2, <1>3 DEF Known

(* The thread of the event loop does not lose a connection unrecorded.     *)
LEMMA MainForsakes ==
  ASSUME LoginInv, [Next]_vars,
         \/ EpollWait \/ AcceptConn \/ AcceptFails \/ ShowError \/ InitConn \/ InitCount
         \/ \E g \in Fds : HupEvent(g) \/ InEvent(g) \/ InEventRefused(g) \/ InEventFails(g),
         NEW f \in Fds, file[f] # NoConn, file'[f] = file[f], ~Forsaken(f), Forsaken(f)'
  PROVE  Known(f)'
<1>0. Types /\ Single /\ OwnDescriptor /\ Main \in Threads /\ Main \notin Workers
      /\ Threads = Workers \cup {Main} /\ Listen \notin Fds
      /\ pc \in [Threads -> MainPCs \cup WorkerPCs \cup ClosePCs] /\ queue \in Seq(Fds)
      /\ (cur \in Fds \/ cur = NoFd) /\ NoFd \notin Fds
  BY ServerAssumption DEF LoginInv, Threads, Types, TypeOK
<1>1. CASE EpollWait
  <2>1. /\ pc' = pc /\ cur' = cur /\ busy' = busy /\ queue' = queue /\ batch = {}
        /\ armed' = armed \ Ready /\ batch' = Reported
    BY <1>0, <1>1 DEF EpollWait, Goes, poolVars
  <2>2. f \in Ready => Evented(f)'
    BY <1>0, <2>1, ReportedOnce DEF Evented
  <2>. QED
    BY <2>1, <2>2 DEF Forsaken, Queued, Evented, Owned, Owns
<1>2. ASSUME armed' = armed, queue' = queue, busy' = busy,
             \A w \in Workers : pc'[w] = pc[w],
             Evented(f) => Evented(f)', Owns(Main, f) => Owns(Main, f)'
      PROVE  FALSE
  BY <1>0, <1>2 DEF Forsaken, Queued, Owned, Owns
<1>3. CASE AcceptConn \/ AcceptFails
  <2>1. /\ armed' = armed /\ queue' = queue /\ busy' = busy /\ \A w \in Workers : pc'[w] = pc[w]
        /\ batch' = batch \ {<<Listen, "accept">>} /\ pc[Main] = "loop"
    BY <1>0, <1>3 DEF AcceptConn, AcceptFails, Goes, poolVars, kernelVars, Event
  <2>2. Evented(f) => Evented(f)'
    BY <1>0, <2>1 DEF Evented
  <2>. QED
    BY <1>2, <2>1, <2>2 DEF Owns
<1>4. CASE ShowError
  <2>1. /\ armed' = armed /\ queue' = queue /\ busy' = busy /\ \A w \in Workers : pc'[w] = pc[w]
        /\ batch' = batch /\ cur' = cur /\ pc'[Main] = "init"
    BY <1>0, <1>4 DEF ShowError, Goes, poolVars, loopVars
  <2>. QED
    BY <1>2, <2>1 DEF Evented, Owns
<1>5. CASE InitConn
  <2>1. /\ queue' = queue /\ busy' = busy /\ \A w \in Workers : pc'[w] = pc[w]
        /\ batch' = batch /\ (cur = f => f \in armed') /\ armed \subseteq armed'
    BY <1>0, <1>5 DEF InitConn, Goes, poolVars, loopVars, Open
  <2>2. cur # f
    BY <2>1 DEF Forsaken
  <2>. QED
    BY <1>0, <2>1, <2>2 DEF Forsaken, Queued, Evented, Owned, Owns
<1>6. CASE InitCount
  <2>1. /\ armed' = armed /\ queue' = queue /\ busy' = busy /\ \A w \in Workers : pc'[w] = pc[w]
        /\ batch' = batch /\ pc[Main] = "count"
    BY <1>0, <1>6 DEF InitCount, Goes, poolVars, kernelVars
  <2>. QED
    BY <1>2, <2>1 DEF Evented, Owns
<1>7. ASSUME NEW g \in Fds, HupEvent(g) \/ InEvent(g) \/ InEventRefused(g) \/ InEventFails(g)
      PROVE  Known(f)'
  <2>1. /\ armed' = armed /\ busy' = busy /\ \A w \in Workers : pc'[w] = pc[w]
        /\ pc[Main] = "loop" /\ (\E e : e[1] = g /\ batch' = batch \ {e})
    BY <1>0, <1>7 DEF HupEvent, InEvent, InEventRefused, InEventFails, Goes, poolVars, kernelVars, Event,
       Pool!Submit
  <2>2. f # g => (Evented(f) => Evented(f)')
    BY <2>1 DEF Evented
  <2>3. \A i \in 1 .. Len(queue) : queue'[i] = queue[i] /\ i \in 1 .. Len(queue')
    BY <1>0, <1>7 DEF HupEvent, InEvent, InEventRefused, InEventFails, poolVars, Pool!Submit
  <2>4. CASE f # g
    BY <1>0, <2>1, <2>2, <2>3, <2>4 DEF Forsaken, Queued, Owned, Owns
  <2>5. CASE f = g /\ (HupEvent(g) \/ InEventFails(g))
    <3>1. Owns(Main, f)'
      BY <1>0, <2>5 DEF HupEvent, InEventFails, Goes, Owns
    <3>. QED
      BY <1>0, <3>1 DEF Forsaken, Owned
  <2>6. CASE f = g /\ InEvent(g)
    <3>1. queue' = Append(queue, f)
      BY <2>6 DEF InEvent, Pool!Submit
    <3>2. Queued(f)'
      BY <1>0, <3>1 DEF Queued
    <3>. QED
      BY <3>2 DEF Forsaken
  <2>7. CASE f = g /\ InEventRefused(g)
    <3>1. sockfd[f] # NoFd /\ silent' = silent \cup {file[sockfd[f]]}
      BY <2>7 DEF InEventRefused, Receives
    <3>. QED
      BY <1>0, <3>1 DEF OwnDescriptor, Known
  <2>. QED
    BY <1>7, <2>4, <2>5, <2>6, <2>7
<1>. QED
  BY <1>1, <1>3, <1>4, <1>5, <1>6, <1>7

(* A thread that moves on with its object, or through with it.             *)
LEMMA ThreadForsakes ==
  ASSUME LoginInv, [Next]_vars, NEW t \in Threads,
         \/ t = Main /\ MainStep
         \/ t \in Workers /\ (TakeRequest(t) \/ Process(t)),
         queue' = queue, batch' = batch,
         NEW f \in Fds, f \in armed => f \in armed', ~Forsaken(f), Forsaken(f)'
  PROVE  Owns(t, f) /\ ~Owns(t, f)' /\ User(t) = f
<1>0. Types /\ Main \in Threads /\ Main \notin Workers /\ Threads = Workers \cup {Main}
  BY ServerAssumption DEF LoginInv, Threads
<1>1. (Queued(f)' <=> Queued(f)) /\ (Evented(f)' <=> Evented(f))
  BY DEF Queued, Evented
<1>2. PICK u \in Threads : Owns(u, f)
  BY <1>1 DEF Forsaken, Owned
<1>3. ~Owns(u, f)'
  BY DEF Forsaken, Owned
<1>4. u = t
  <2>1. ASSUME u # t PROVE FALSE
    <3>1. pc'[u] = pc[u] /\ (u # Main => busy'[u] = busy[u]) /\ (t # Main => cur' = cur)
      BY <1>0, <2>1, OthersUntouched
    <3>. QED
      BY <1>0, <1>2, <1>3, <2>1, <3>1 DEF Owns
  <2>. QED
    BY <2>1
<1>. QED
  BY <1>0, <1>2, <1>3, <1>4 DEF Owns, User

LEMMA CloseForsakes ==
  ASSUME LoginInv, [Next]_vars, NEW t \in Threads, CloseConn(t),
         NEW f \in Fds, file[f] # NoConn, file'[f] = file[f], ~Forsaken(f), Forsaken(f)'
  PROVE  Known(f)'
<1>0. Types /\ OwnDescriptor /\ Main \in Threads /\ Threads = Workers \cup {Main} /\ NoFd \notin Fds
  BY ServerAssumption DEF LoginInv, Threads, Types
<1>1. queue' = queue /\ batch' = batch
  BY DEF CloseConn, CloseCheck, CloseSkipped, CloseRemove, CloseClear, CloseCount, Done, Pool!Finish,
         poolVars, loopVars
<1>2. f \in armed => f \in armed' \/ (CloseRemove(t) /\ f = sockfd[User(t)])
  BY DEF CloseConn, CloseCheck, CloseSkipped, CloseRemove, CloseClear, CloseCount, kernelVars
<1>3. ~ (CloseRemove(t) /\ f = sockfd[User(t)])
  BY <1>0 DEF CloseRemove, Types, TypeOK
<1>4. Owns(t, f) /\ ~Owns(t, f)' /\ User(t) = f
  BY <1>0, <1>1, <1>2, <1>3, ThreadForsakes DEF MainStep, Process
<1>5. CASE CloseCheck(t)
  <2>1. pc' = [pc EXCEPT ![t] = "remove"] /\ busy' = busy /\ cur' = cur
    BY <1>5 DEF CloseCheck, Goes, poolVars, loopVars
  <2>. QED
    BY <1>0, <1>4, <2>1 DEF Owns, Types
<1>6. CASE CloseSkipped(t)
  BY <1>4, <1>6 DEF CloseSkipped, userVars, Known
<1>7. CASE CloseRemove(t)
  <2>1. sockfd[f] = NoFd
    BY <1>0, <1>3, <1>4, <1>7 DEF OwnDescriptor
  <2>. QED
    BY <1>7, <2>1 DEF CloseRemove, userVars, Known
<1>8. CASE CloseClear(t) \/ CloseCount(t)
  <2>1. pc[t] \in {"clear", "dec"}
    BY <1>0, <1>8 DEF CloseClear, CloseCount, Goes, Done
  <2>. QED
    BY <1>4, <2>1 DEF Owns
<1>. QED
  BY <1>5, <1>6, <1>7, <1>8 DEF CloseConn

LEMMA WorkerForsakes ==
  ASSUME LoginInv, [Next]_vars, NEW w \in Workers,
         \/ TakeRequest(w) \/ Dispatch(w) \/ IgnoreRequest(w) \/ Register(w)
         \/ LoginOk(w) \/ LoginFails(w) \/ RequestCrashes(w),
         NEW f \in Fds, file[f] # NoConn, file'[f] = file[f], ~Forsaken(f), Forsaken(f)'
  PROVE  Known(f)'
<1>0. Types /\ Argument /\ OwnDescriptor /\ Fresh /\ RequestKeepsConnection /\ w \in Threads /\ w # Main
      /\ Main \in Threads /\ Threads = Workers \cup {Main} /\ Main \notin Workers
      /\ pc \in [Threads -> MainPCs \cup WorkerPCs \cup ClosePCs] /\ queue \in Seq(Fds)
      /\ busy \in [Workers -> Fds \cup {NoFd}] /\ file[f] \in Conns
  BY ServerAssumption DEF LoginInv, Threads, Types, TypeOK
<1>1. CASE TakeRequest(w)
  <2>1. /\ armed' = armed /\ batch' = batch /\ cur' = cur /\ busy[w] = NoFd
        /\ pc' = [pc EXCEPT ![w] = "parse"] /\ busy' = [busy EXCEPT ![w] = Head(queue)]
        /\ queue' = Tail(queue) /\ queue # <<>> /\ pc[w] = "idle"
    BY <1>1 DEF TakeRequest, Goes, Pool!Take, kernelVars, loopVars
  <2>2. Owned(f) => Owned(f)'
    BY <1>0, <2>1 DEF Owned, Owns
  <2>3. Queued(f) => Queued(f)' \/ Owned(f)'
    <3> SUFFICES ASSUME NEW i \in 1 .. Len(queue), queue[i] = f PROVE Queued(f)' \/ Owned(f)'
      BY DEF Queued
    <3>1. CASE i = 1
      <4>1. busy'[w] = f /\ pc'[w] = "parse"
        BY <1>0, <2>1, <3>1
      <4>. QED
        BY <1>0, <4>1 DEF Owned, Owns
    <3>2. CASE i # 1
      <4>1. i - 1 \in 1 .. Len(queue') /\ queue'[i - 1] = f
        BY <1>0, <2>1, <3>2
      <4>. QED
        BY <4>1 DEF Queued
    <3>. QED
      BY <3>1, <3>2
  <2>. QED
    BY <2>1, <2>2, <2>3 DEF Forsaken, Evented
<1>2. CASE ~TakeRequest(w)
  <2>1. queue' = queue /\ batch' = batch /\ armed' = armed /\ sockfd' = sockfd /\ cur' = cur
    BY <1>0, <1>2 DEF Dispatch, IgnoreRequest, Register, LoginOk, LoginFails, RequestCrashes, Done,
       Pool!Finish, kernelVars, loopVars, userVars, poolVars
  <2>2. Owns(w, f) /\ ~Owns(w, f)' /\ f = busy[w]
    BY <1>0, <1>2, <2>1, ThreadForsakes DEF Process, User
  <2>3. CASE Dispatch(w) \/ Register(w) \/ LoginOk(w) \/ RequestCrashes(w)
    <3>1. busy' = busy /\ pc'[w] \in {pc[w], "register", "login", "check"}
      BY <1>0, <2>3 DEF Dispatch, Register, LoginOk, RequestCrashes, Goes, poolVars, threadVars
    <3>. QED
      BY <1>0, <2>2, <3>1 DEF Owns
  <2>4. CASE IgnoreRequest(w)
    <3>1. silent' = silent \cup {readbuf[f]} /\ readbuf[f] = file[f]
      BY <1>0, <2>2, <2>4 DEF IgnoreRequest, RequestKeepsConnection
    <3>. QED
      BY <3>1 DEF Known
  <2>5. CASE LoginFails(w)
    <3>1. pc[w] = "login"
      BY <1>0, <2>5 DEF LoginFails, Done, Goes
    <3>2. CASE connFd[w] = NoFd
      BY <1>0, <2>1, <2>2, <3>1, <3>2 DEF Argument, Known
    <3>3. CASE connFd[w] # NoFd
      <4>1. answers'[file[f]] = 1
        BY <1>0, <2>2, <2>5, <3>3, Answering
      <4>. QED
        BY <4>1 DEF Known
    <3>. QED
      BY <3>2, <3>3
  <2>. QED
    BY <1>2, <2>3, <2>4, <2>5
<1>. QED
  BY <1>1, <1>2

LEMMA AbandonedStep == LoginInv /\ [Next]_vars => AbandonedOnlyByKnownCauses'
<1> SUFFICES ASSUME LoginInv, [Next]_vars, NEW f \in Fds, file'[f] # NoConn, Forsaken(f)'
             PROVE  Known(f)'
  BY DEF AbandonedOnlyByKnownCauses, Abandoned, Forsaken, Known, Open, Waiting, Pending, Owners,
         Queued, Evented, Owned
<1>0. Types /\ AbandonedOnlyByKnownCauses /\ Main \in Threads /\ \A w \in Workers : w \in Threads
  BY DEF LoginInv, Threads
<1>1. ~ (AcceptConn /\ f = LowestFree)
  <2>1. ASSUME AcceptConn, f = LowestFree PROVE FALSE
    <3>1. Owns(Main, f)'
      BY <1>0, <2>1 DEF AcceptConn, Goes, Owns, Types
    <3>. QED
      BY <1>0, <3>1 DEF Forsaken, Owned
  <2>. QED
    BY <2>1
<1>2. file[f] # NoConn /\ file'[f] = file[f]
  BY <1>0, <1>1, OpenSteps
<1>3. CASE Forsaken(f)
  <2>1. Known(f)
    BY <1>0, <1>2, <1>3, AbandonedReadAs
  <2>. QED
    BY <1>2, <2>1, KnownStays
<1>4. CASE ~Forsaken(f)
  <2>1. CASE Client \/ UNCHANGED vars
    <3>1. UNCHANGED <<armed, queue, batch, pc, busy, cur>>
      BY <2>1 DEF Client, Connect, SendRequest, HangUp, vars, kernelVars, poolVars, threadVars, loopVars
    <3>. QED
      BY <1>4, <3>1 DEF Forsaken, Queued, Evented, Owned, Owns
  <2>2. CASE MainStep
    BY <1>0, <1>2, <1>4, <2>2, MainForsakes, CloseForsakes DEF MainStep
  <2>3. ASSUME NEW w \in Workers, TakeRequest(w) \/ Process(w) PROVE Known(f)'
    BY <1>0, <1>2, <1>4, <2>3, WorkerForsakes, CloseForsakes DEF Process
  <2>. QED
    BY <2>1, <2>2, <2>3 DEF Next
<1>. QED
  BY <1>3, <1>4

-----------------------------------------------------------------------------
LEMMA LoginInvInit == Init => LoginInv
BY TypesInit, SingleInit, DescriptorInit, RequestInit, DistinctInit, FreshInit, AbandonedInit
   DEF LoginInv

LEMMA LoginInvStep == LoginInv /\ [Next]_vars => LoginInv'
BY TypesStep, HandsStep, DescriptorStep, RequestStep, DistinctStep, FreshStep, AbandonedStep
   DEF LoginInv

(* The inductive invariant.                                                *)
LEMMA Invariance == Spec => []LoginInv
BY LoginInvInit, LoginInvStep, PTL DEF Spec

(***************************************************************************)
(* Every variable of the program, the kernel and the clients keeps its     *)
(* type; in particular, no closed descriptor is registered with epoll.     *)
(***************************************************************************)
THEOREM TypeCorrect == Spec => []TypeOK
<1>1. LoginInv => TypeOK
  BY DEF LoginInv, Types
<1>. QED
  BY <1>1, Invariance, PTL

(***************************************************************************)
(* m_sockfd of users[fd] is fd or -1, and so is the argument connFd: no    *)
(* thread closes or writes to the descriptor of another object.            *)
(***************************************************************************)
THEOREM DescriptorsOwn == Spec => []OwnDescriptor
<1>1. LoginInv => OwnDescriptor
  BY DEF LoginInv
<1>. QED
  BY <1>1, Invariance, PTL

(***************************************************************************)
(* While a request waits or is processed, its descriptor belongs to the    *)
(* connection that its text was read from, although descriptors and the    *)
(* objects users[fd] are used again (loginserver.cpp, process).            *)
(***************************************************************************)
THEOREM RequestKept == Spec => []RequestKeepsConnection
<1>1. LoginInv => RequestKeepsConnection
  BY DEF LoginInv
<1>. QED
  BY <1>1, Invariance, PTL

(***************************************************************************)
(* A client is answered at most once on a connection, whatever it sends.   *)
(***************************************************************************)
THEOREM AnsweredOnce == Spec => []AtMostOneAnswer
<1>1. LoginInv => AtMostOneAnswer
  BY DEF LoginInv
<1>. QED
  BY <1>1, Invariance, PTL

(***************************************************************************)
(* A connection that stays open with nobody to look at it has had its      *)
(* answer, or its request was discarded, or m_sockfd was cleared under it. *)
(***************************************************************************)
THEOREM AbandonedKnown == Spec => []AbandonedOnlyByKnownCauses
<1>1. LoginInv => AbandonedOnlyByKnownCauses
  BY DEF LoginInv
<1>. QED
  BY <1>1, Invariance, PTL

LEMMA NoTwoElements ==
  ASSUME NEW S, \A x, y \in S : x = y
  PROVE  Cardinality(S) = IF S = {} THEN 0 ELSE 1
<1>1. CASE S = {}
  BY <1>1, FS_EmptySet
<1>2. CASE S # {}
  <2>1. PICK x : x \in S
    BY <1>2
  <2>2. S = {x}
    BY <2>1
  <2>. QED
    BY <1>2, <2>2, FS_Singleton
<1>. QED
  BY <1>1, <1>2

LEMMA SingleIsOneParty == Single => OneParty
<1> SUFFICES ASSUME Single, NEW f \in Fds
             PROVE  /\ Cardinality(Waiting(f)) + Cardinality(Pending(f)) + Cardinality(Owners(f)) <= 1
                    /\ f \in armed => Waiting(f) = {} /\ Pending(f) = {} /\ Owners(f) = {}
  BY DEF OneParty
<1>1. /\ Waiting(f) # {} <=> Queued(f)
      /\ Pending(f) # {} <=> Evented(f)
      /\ Owners(f) # {} <=> Owned(f)
  BY DEF Waiting, Pending, Owners, Queued, Evented, Owned
<1>2. Cardinality(Waiting(f)) = IF Waiting(f) = {} THEN 0 ELSE 1
  <2>1. \A i, j \in Waiting(f) : i = j
    BY DEF Single, Waiting
  <2>. QED
    BY <2>1, NoTwoElements
<1>3. Cardinality(Pending(f)) = IF Pending(f) = {} THEN 0 ELSE 1
  <2>1. \A d, e \in Pending(f) : d = e
    BY DEF Single, Pending
  <2>. QED
    BY <2>1, NoTwoElements
<1>4. Cardinality(Owners(f)) = IF Owners(f) = {} THEN 0 ELSE 1
  <2>1. \A t, u \in Owners(f) : t = u
    BY DEF Single, Owners
  <2>. QED
    BY <2>1, NoTwoElements
<1>5. /\ Queued(f) => ~Evented(f) /\ ~Owned(f)
      /\ Evented(f) => ~Owned(f)
      /\ f \in armed => ~Queued(f) /\ ~Evented(f) /\ ~Owned(f)
  BY DEF Single
<1>. QED
  BY <1>1, <1>2, <1>3, <1>4, <1>5

(***************************************************************************)
(* Each descriptor is in the hands of one party: epoll, the batch of       *)
(* events, the pool's queue or one thread, whatever the number of workers  *)
(* and however often descriptors are used again (EPOLLONESHOT,             *)
(* loginserver.cpp, addfd).                                                *)
(***************************************************************************)
THEOREM PartiesApart == Spec => []OneParty
<1>1. LoginInv => OneParty
  BY SingleIsOneParty DEF LoginInv
<1>. QED
  BY <1>1, Invariance, PTL

-----------------------------------------------------------------------------
(* m_user_count.                                                           *)
Opening == pc[Main] \in {"refuse", "init", "count"}

(* Threads that are going to decrement m_user_count for a connection that  *)
(* is closed, and those that will although it is not theirs to close: the  *)
(* object has lost its m_sockfd since it was tested.                       *)
Closing == {t \in Threads : pc[t] \in {"clear", "dec"}}
Late == {t \in Threads : pc[t] = "remove" /\ sockfd[User(t)] = NoFd}

(* The connections that have been counted and can be closed.               *)
Live == {f \in Open : sockfd[f] # NoFd /\ ~(Opening /\ f = cur)}

Registered == pc[Main] = "count" => cur \in armed \/ file[cur] = NoConn

AtMost ==
  count + (IF Opening THEN 1 ELSE 0) <= Cardinality(Open) + refused + Cardinality(Closing)

AtLeast == Cardinality(Live) + Cardinality(Closing \cup Late) <= count

Drift == Registered /\ (~raced => AtMost /\ AtLeast)

LEMMA Finite ==
  /\ IsFiniteSet(Open) /\ IsFiniteSet(Closing) /\ IsFiniteSet(Late) /\ IsFiniteSet(Closing \cup Late)
  /\ IsFiniteSet(Live)
  /\ Cardinality(Open) \in Nat /\ Cardinality(Closing) \in Nat
  /\ Cardinality(Closing \cup Late) \in Nat /\ Cardinality(Live) \in Nat
<1>1. IsFiniteSet(Fds) /\ IsFiniteSet(Workers)
  BY ServerAssumption
<1>2. IsFiniteSet(Threads)
  BY <1>1, FS_AddElement DEF Threads
<1>3. Open \subseteq Fds /\ Live \subseteq Fds /\ Closing \subseteq Threads /\ Late \subseteq Threads
      /\ Closing \cup Late \subseteq Threads
  BY DEF Open, Live, Closing, Late
<1>4. /\ IsFiniteSet(Open) /\ IsFiniteSet(Closing) /\ IsFiniteSet(Late)
      /\ IsFiniteSet(Closing \cup Late) /\ IsFiniteSet(Live)
  BY <1>1, <1>2, <1>3, FS_Subset
<1>. QED
  BY <1>4, FS_CardinalityType

LEMMA DriftInit == Init => Drift
<1> SUFFICES ASSUME Init PROVE Drift
  OBVIOUS
<1>1. pc[Main] = "loop" /\ \A w \in Workers : pc[w] = "idle"
  BY ServerAssumption DEF Init, Threads
<1>2. Open = {} /\ Live = {} /\ Closing = {} /\ Late = {} /\ ~Opening
  BY <1>1 DEF Init, Open, Live, Closing, Late, Opening, Threads
<1>3. count = 0 /\ refused = 0
  BY DEF Init
<1>4. Cardinality({}) = 0
  BY FS_EmptySet
<1>5. AtMost
  BY <1>2, <1>3, <1>4 DEF AtMost
<1>6. AtLeast
  BY <1>2, <1>3, <1>4 DEF AtLeast
<1>. QED
  BY <1>1, <1>5, <1>6 DEF Drift, Registered

(* What a step of one thread leaves of the others.                         *)
LEMMA OthersSame ==
  ASSUME Types, NEW t \in Threads,
         \/ t = Main /\ MainStep
         \/ t \in Workers /\ (TakeRequest(t) \/ Process(t))
  PROVE  \A u \in Threads : u # t => pc'[u] = pc[u] /\ User(u)' = User(u)
<1>0. Main \notin Workers /\ Threads = Workers \cup {Main}
  BY ServerAssumption DEF Threads
<1>. QED
  BY <1>0, OthersUntouched DEF User

(* The descriptor that main() is opening is not one that a thread closes.  *)
LEMMA OpeningNotClosing ==
  ASSUME LoginInv, Registered, NEW t \in Threads, pc[t] = "remove"
  PROVE  /\ User(t) \in Fds /\ Owns(t, User(t)) /\ file[User(t)] # NoConn
         /\ Opening => User(t) # cur
<1>0. Types /\ Single /\ Closed /\ Main \in Threads /\ Main \notin Workers
      /\ Threads = Workers \cup {Main}
      /\ pc \in [Threads -> MainPCs \cup WorkerPCs \cup ClosePCs]
  BY ServerAssumption DEF LoginInv, Threads, Types
<1>1. User(t) \in Fds /\ Owns(t, User(t))
  BY <1>0 DEF User, Owns, Types, TypeOK
<1>2. file[User(t)] # NoConn
  BY <1>0, <1>1 DEF Closed
<1>3. ASSUME Opening PROVE User(t) # cur
  <2>1. t # Main
    BY <1>3 DEF Opening
  <2>2. CASE pc[Main] \in {"refuse", "init"}
    <3>1. User(t) = cur => Owns(Main, User(t))
      BY <2>2 DEF Owns
    <3>. QED
      BY <1>0, <1>1, <2>1, <3>1 DEF Single
  <2>3. CASE pc[Main] = "count"
    BY <1>0, <1>1, <1>2, <2>3 DEF Registered, Single, Owned
  <2>. QED
    BY <1>3, <2>2, <2>3 DEF Opening
<1>. QED
  BY <1>1, <1>2, <1>3

LEMMA RegisteredStep ==
  ASSUME LoginInv, Registered, [Next]_vars
  PROVE  Registered'
<1> SUFFICES ASSUME pc'[Main] = "count" PROVE cur' \in armed' \/ file'[cur'] = NoConn
  BY DEF Registered
<1>0. Types /\ Single /\ Closed /\ OwnDescriptor /\ Main \in Threads /\ Main \notin Workers
      /\ (\A w \in Workers : w \in Threads)
      /\ pc \in [Threads -> MainPCs \cup WorkerPCs \cup ClosePCs]
      /\ (cur = NoFd \/ cur \in Fds) /\ NoFd \notin Fds
  BY ServerAssumption DEF LoginInv, Threads, Types, TypeOK
<1>1. CASE Client \/ UNCHANGED vars
  <2>1. UNCHANGED <<pc, cur, armed, file>>
    BY <1>1 DEF Client, Connect, SendRequest, HangUp, vars, kernelVars, threadVars, loopVars
  <2>. QED
    BY <2>1 DEF Registered
<1>2. CASE MainStep
  <2>1. CASE InitConn
    <3>1. cur' = cur /\ file' = file /\ armed' = IF cur \in Open THEN armed \cup {cur} ELSE armed
      BY <2>1 DEF InitConn, loopVars
    <3>2. cur \in Fds
      BY <1>0, <2>1 DEF InitConn, Goes, Types, TypeOK
    <3>3. CASE cur \in Open
      BY <3>1, <3>3
    <3>4. CASE cur \notin Open
      BY <3>1, <3>2, <3>4 DEF Open
    <3>. QED
      BY <3>3, <3>4
  <2>2. CASE ~InitConn
    <3>1. PICK to \in {"loop", "refuse", "init", "check", "remove", "clear", "dec"} :
             pc' = [pc EXCEPT ![Main] = to]
      BY <1>2, <2>2
         DEF MainStep, EpollWait, AcceptConn, AcceptFails, ShowError, InitCount, HupEvent, InEvent,
             InEventRefused, InEventFails, CloseConn, CloseCheck, CloseSkipped, CloseRemove,
             CloseClear, CloseCount, Done, Goes
    <3>2. pc'[Main] = to
      BY <1>0, <3>1
    <3>. QED
      BY <3>2
  <2>. QED
    BY <2>1, <2>2
<1>3. ASSUME NEW w \in Workers, TakeRequest(w) \/ Process(w)
      PROVE  cur' \in armed' \/ file'[cur'] = NoConn
  <2>1. pc[Main] = "count" /\ cur' = cur /\ cur \in Fds
    BY <1>0, <1>3, OthersUntouched DEF Types, TypeOK
  <2>2. CASE CloseRemove(w)
    <3>1. Owns(w, User(w)) /\ User(w) \in Fds /\ sockfd[User(w)] \in {User(w), NoFd}
      BY <1>0, <2>2, RemoveOwn DEF OwnDescriptor
    <3>2. User(w) \notin armed
      BY <1>0, <3>1 DEF Single, Owned
    <3>3. cur \in armed => cur \in armed'
      BY <1>0, <2>1, <2>2, <3>1, <3>2 DEF CloseRemove
    <3>4. file[cur] = NoConn => file'[cur] = NoConn
      BY <2>1, <2>2 DEF CloseRemove
    <3>. QED
      BY <2>1, <3>3, <3>4 DEF Registered
  <2>3. CASE ~CloseRemove(w)
    <3>1. armed' = armed /\ file' = file
      BY <1>3, <2>3
         DEF Process, TakeRequest, Dispatch, IgnoreRequest, Register, LoginOk, LoginFails,
             RequestCrashes, CloseConn, CloseCheck, CloseSkipped, CloseClear, CloseCount, kernelVars
    <3>. QED
      BY <2>1, <3>1 DEF Registered
  <2>. QED
    BY <2>2, <2>3
<1>. QED
  BY <1>1, <1>2, <1>3 DEF Next

(* Steps that open and close nothing.                                      *)
LEMMA Steady ==
  ASSUME Types, NEW t \in Threads,
         \/ t = Main /\ MainStep
         \/ t \in Workers /\ (TakeRequest(t) \/ Process(t)),
         file' = file, sockfd' = sockfd, count' = count, refused' = refused, raced' = raced,
         pc[t] \notin {"remove", "clear", "dec"},
         pc'[t] \notin {"clear", "dec"}, pc'[t] = "remove" => sockfd[User(t)'] # NoFd,
         Opening' <=> Opening, Opening => cur' = cur,
         AtMost, AtLeast
  PROVE  AtMost' /\ AtLeast'
<1>1. \A u \in Threads : u # t => pc'[u] = pc[u] /\ User(u)' = User(u)
  BY OthersSame
<1>2. Closing' = Closing
  BY <1>1 DEF Closing
<1>3. Late' = Late
  BY <1>1 DEF Late
<1>4. Open' = Open
  BY DEF Open
<1>5. Live' = Live
  BY <1>4 DEF Live
<1>6. AtMost'
  BY <1>2, <1>4 DEF AtMost
<1>7. AtLeast'
  BY <1>2, <1>3, <1>5 DEF AtLeast
<1>. QED
  BY <1>6, <1>7

(* main() opens a connection.                                              *)
LEMMA OpeningDrift ==
  ASSUME LoginInv, AcceptConn \/ ShowError \/ InitConn, AtMost, AtLeast
  PROVE  AtMost' /\ AtLeast'
<1>0. Types /\ Single /\ Closed /\ Main \in Threads /\ Main \notin Workers
      /\ Threads = Workers \cup {Main} /\ count \in Int /\ refused \in Nat
  BY ServerAssumption DEF LoginInv, Threads, Types, TypeOK
<1>1. MainStep
  BY DEF MainStep
<1>2. \A u \in Threads : u # Main => pc'[u] = pc[u] /\ User(u)' = User(u)
  BY <1>0, <1>1, OthersSame
<1>3. pc[Main] \in {"loop", "refuse", "init"} /\ pc'[Main] \in {"refuse", "init", "count"}
  BY <1>0 DEF AcceptConn, ShowError, InitConn, Goes, Types
<1>4. Closing' = Closing
  BY <1>2, <1>3 DEF Closing
<1>5. CASE AcceptConn
  <2>1. PICK g \in Fds : g = LowestFree /\ file[g] = NoConn
    BY <1>5, LowestFreeIsFree DEF AcceptConn, Open
  <2>2. /\ file' = [file EXCEPT ![g] = Head(backlog)] /\ cur' = g /\ sockfd' = sockfd
        /\ count' = count /\ refused' = refused /\ pc[Main] = "loop"
        /\ pc'[Main] \in {"refuse", "init"}
    BY <1>0, <1>5, <2>1 DEF AcceptConn, Goes, userVars, drift, Types
  <2>3. Head(backlog) # NoConn
    BY <1>0, <1>5, ServerAssumption DEF AcceptConn, Types, TypeOK
  <2>4. Open' = Open \cup {g} /\ g \notin Open
    BY <1>0, <2>1, <2>2, <2>3 DEF Open, Types, TypeOK
  <2>5. Cardinality(Open') = Cardinality(Open) + 1
    BY <2>4, Finite, FS_AddElement
  <2>6. Opening' /\ ~Opening
    BY <2>2 DEF Opening
  <2>7. Live' = Live
    BY <2>2, <2>4, <2>6 DEF Live
  <2>8. Late' = Late
    BY <1>2, <1>3, <2>2 DEF Late
  <2>9. AtMost'
    BY <1>0, <1>4, <2>2, <2>5, <2>6, Finite DEF AtMost
  <2>10. AtLeast'
    BY <1>4, <2>2, <2>7, <2>8 DEF AtLeast
  <2>. QED
    BY <2>9, <2>10
<1>6. CASE ShowError
  <2>1. /\ file' = [file EXCEPT ![cur] = NoConn] /\ cur' = cur /\ sockfd' = sockfd /\ cur \in Fds
        /\ count' = count /\ refused' = refused + 1 /\ pc[Main] = "refuse" /\ pc'[Main] = "init"
    BY <1>0, <1>6 DEF ShowError, Goes, userVars, loopVars, Types, TypeOK
  <2>2. file[cur] # NoConn
    BY <1>0, <2>1 DEF Closed, Owns
  <2>3. Open' = Open \ {cur} /\ cur \in Open
    BY <1>0, <2>1, <2>2 DEF Open, Types, TypeOK
  <2>4. Cardinality(Open') = Cardinality(Open) - 1
    BY <2>3, Finite, FS_RemoveElement
  <2>5. Opening' /\ Opening
    BY <2>1 DEF Opening
  <2>6. Live' = Live
    BY <2>1, <2>3, <2>5 DEF Live
  <2>7. Late' = Late
    BY <1>2, <1>3, <2>1 DEF Late
  <2>8. AtMost'
    BY <1>0, <1>4, <2>1, <2>4, <2>5, Finite DEF AtMost
  <2>9. AtLeast'
    BY <1>4, <2>1, <2>6, <2>7 DEF AtLeast
  <2>. QED
    BY <2>8, <2>9
<1>7. CASE InitConn
  <2>1. /\ file' = file /\ cur' = cur /\ sockfd' = [sockfd EXCEPT ![cur] = cur] /\ cur \in Fds
        /\ count' = count /\ refused' = refused /\ pc[Main] = "init" /\ pc'[Main] = "count"
    BY <1>0, <1>7 DEF InitConn, Goes, loopVars, drift, Types, TypeOK
  <2>2. Open' = Open
    BY <2>1 DEF Open
  <2>3. Opening' /\ Opening
    BY <2>1 DEF Opening
  <2>4. \A f \in Fds : f # cur => sockfd'[f] = sockfd[f]
    BY <1>0, <2>1 DEF Types, TypeOK
  <2>5. Live' = Live
    BY <2>1, <2>2, <2>3, <2>4 DEF Live, Open
  <2>6. \A u \in Threads : u # Main /\ pc[u] = "remove" => User(u) \in Fds /\ User(u) # cur
    <3> SUFFICES ASSUME NEW u \in Workers, pc[u] = "remove" PROVE busy[u] \in Fds /\ busy[u] # cur
      BY <1>0 DEF User
    <3>1. busy[u] \in Fds /\ Owns(u, busy[u]) /\ Owns(Main, cur) /\ u # Main
      BY <1>0, <2>1 DEF Owns, Types, TypeOK
    <3>. QED
      BY <1>0, <2>1, <3>1 DEF Single
  <2>7. \A u \in Threads : u # Main /\ pc[u] = "remove" => sockfd'[User(u)] = sockfd[User(u)]
    BY <2>4, <2>6
  <2>8. Late' = Late
    BY <1>2, <1>3, <2>7 DEF Late
  <2>9. AtMost'
    BY <1>0, <1>4, <2>1, <2>2, <2>3 DEF AtMost
  <2>10. AtLeast'
    BY <1>4, <2>1, <2>5, <2>8 DEF AtLeast
  <2>. QED
    BY <2>9, <2>10
<1>. QED
  BY <1>5, <1>6, <1>7

(* main() counts it, undisturbed.                                          *)
LEMMA InitCountDrift ==
  ASSUME LoginInv, InitCount, ~raced', AtMost, AtLeast
  PROVE  AtMost' /\ AtLeast'
<1>0. Types /\ Main \in Threads /\ count \in Int /\ refused \in Nat
  BY DEF LoginInv, Threads, Types, TypeOK
<1>1. \A u \in Threads : u # Main => pc'[u] = pc[u] /\ User(u)' = User(u)
  BY <1>0, OthersSame DEF MainStep
<1>2. /\ pc[Main] = "count" /\ pc'[Main] = "loop" /\ file' = file /\ sockfd' = sockfd
      /\ refused' = refused /\ count' = count + 1
  BY <1>0 DEF InitCount, Goes, kernelVars, Types
<1>3. Closing' = Closing
  BY <1>1, <1>2 DEF Closing
<1>4. Late' = Late
  BY <1>1, <1>2 DEF Late
<1>5. Open' = Open
  BY <1>2 DEF Open
<1>6. Opening /\ ~Opening'
  BY <1>2 DEF Opening
<1>7. Live' \subseteq Live \cup {cur}
  BY <1>2, <1>5, <1>6 DEF Live
<1>8. /\ IsFiniteSet(Live \cup {cur})
      /\ Cardinality(Live \cup {cur}) <= Cardinality(Live) + 1
  <2>1. IsFiniteSet(Live) /\ Cardinality(Live) \in Nat
    BY Finite
  <2>2. /\ IsFiniteSet(Live \cup {cur})
        /\ Cardinality(Live \cup {cur})
             = IF cur \in Live THEN Cardinality(Live) ELSE Cardinality(Live) + 1
    BY <2>1, FS_AddElement
  <2>. QED
    BY <2>1, <2>2
<1>9. Cardinality(Live') <= Cardinality(Live \cup {cur}) /\ Cardinality(Live') \in Nat
      /\ Cardinality(Live \cup {cur}) \in Nat
  BY <1>7, <1>8, FS_Subset, FS_CardinalityType
<1>10. AtMost'
  BY <1>0, <1>2, <1>3, <1>5, <1>6, Finite DEF AtMost
<1>11. AtLeast'
  BY <1>0, <1>2, <1>3, <1>4, <1>8, <1>9, Finite DEF AtLeast
<1>. QED
  BY <1>10, <1>11

(* close_conn closes a connection; or a thread passes the test of m_sockfd *)
(* too late and closes nothing.                                            *)
LEMMA RemoveDrift ==
  ASSUME LoginInv, Registered, NEW t \in Threads, CloseRemove(t), AtMost, AtLeast
  PROVE  AtMost' /\ AtLeast'
<1>0. Types /\ OwnDescriptor /\ Main \in Threads /\ Main \notin Workers
      /\ Threads = Workers \cup {Main} /\ count \in Int /\ refused \in Nat /\ NoFd \notin Fds
      /\ pc \in [Threads -> MainPCs \cup WorkerPCs \cup ClosePCs]
  BY ServerAssumption DEF LoginInv, Threads, Types, TypeOK
<1>1. \A u \in Threads : u # t => pc'[u] = pc[u] /\ User(u)' = User(u)
  BY <1>0, OthersSame DEF MainStep, Process, CloseConn
<1>2. /\ pc[t] = "remove" /\ pc'[t] = "clear" /\ sockfd' = sockfd /\ cur' = cur
      /\ count' = count /\ refused' = refused
      /\ file' = [f \in Fds |-> IF f = sockfd[User(t)] THEN NoConn ELSE file[f]]
  BY <1>0 DEF CloseRemove, Goes, userVars, loopVars, drift
<1>3. PICK g \in Fds : g = User(t) /\ file[g] # NoConn /\ (Opening => g # cur)
  BY <1>2, OpeningNotClosing
<1>4. Closing' = Closing \cup {t} /\ t \notin Closing
  BY <1>1, <1>2 DEF Closing
<1>5. Late' = Late \ {t}
  BY <1>1, <1>2 DEF Late
<1>6. Cardinality(Closing') = Cardinality(Closing) + 1
  BY <1>4, Finite, FS_AddElement
<1>7. Opening' <=> Opening
  <2>1. CASE t = Main
    BY <1>2, <2>1 DEF Opening
  <2>2. CASE t # Main
    BY <1>0, <1>1, <2>2 DEF Opening
  <2>. QED
    BY <2>1, <2>2
<1>8. CASE sockfd[g] = NoFd
  <2>1. Open' = Open
    BY <1>0, <1>2, <1>3, <1>8 DEF Open
  <2>2. Live' = Live
    BY <1>2, <1>7, <2>1 DEF Live
  <2>3. t \in Late
    BY <1>2, <1>3, <1>8 DEF Late
  <2>4. Closing' \cup Late' = Closing \cup Late
    BY <1>4, <1>5, <2>3
  <2>5. AtMost'
    BY <1>0, <1>2, <1>6, <1>7, <2>1, Finite DEF AtMost
  <2>6. AtLeast'
    BY <1>2, <2>2, <2>4 DEF AtLeast
  <2>. QED
    BY <2>5, <2>6
<1>9. CASE sockfd[g] # NoFd
  <2>1. sockfd[g] = g
    BY <1>0, <1>9 DEF OwnDescriptor
  <2>2. Open' = Open \ {g} /\ g \in Open
    BY <1>0, <1>2, <1>3, <2>1 DEF Open
  <2>3. Live' = Live \ {g} /\ g \in Live
    BY <1>2, <1>3, <1>7, <1>9, <2>2 DEF Live
  <2>4. Cardinality(Open') = Cardinality(Open) - 1 /\ Cardinality(Live') = Cardinality(Live) - 1
    BY <2>2, <2>3, Finite, FS_RemoveElement
  <2>5. t \notin Late
    BY <1>3, <1>9 DEF Late
  <2>6. Closing' \cup Late' = (Closing \cup Late) \cup {t} /\ t \notin Closing \cup Late
    BY <1>4, <1>5, <2>5
  <2>7. Cardinality(Closing' \cup Late') = Cardinality(Closing \cup Late) + 1
    BY <2>6, Finite, FS_AddElement
  <2>8. AtMost'
    BY <1>0, <1>2, <1>6, <1>7, <2>4, Finite DEF AtMost
  <2>9. AtLeast'
    BY <1>0, <1>2, <2>4, <2>7, Finite DEF AtLeast
  <2>. QED
    BY <2>8, <2>9
<1>. QED
  BY <1>8, <1>9

(* m_sockfd = -1, perhaps under a connection opened since.                 *)
LEMMA ClearDrift ==
  ASSUME LoginInv, Registered, NEW t \in Threads, CloseClear(t), AtMost, AtLeast
  PROVE  AtMost' /\ AtLeast'
<1>0. Types /\ Single /\ OwnDescriptor /\ Main \in Threads /\ Main \notin Workers
      /\ Threads = Workers \cup {Main} /\ count \in Int /\ refused \in Nat /\ NoFd \notin Fds
      /\ pc \in [Threads -> MainPCs \cup WorkerPCs \cup ClosePCs]
  BY ServerAssumption DEF LoginInv, Threads, Types, TypeOK
<1>1. \A u \in Threads : u # t => pc'[u] = pc[u] /\ User(u)' = User(u)
  BY <1>0, OthersSame DEF MainStep, Process, CloseConn
<1>2. /\ pc[t] = "clear" /\ pc'[t] = "dec" /\ file' = file /\ cur' = cur
      /\ count' = count /\ refused' = refused /\ sockfd' = [sockfd EXCEPT ![User(t)] = NoFd]
  BY <1>0 DEF CloseClear, Goes, kernelVars, loopVars, drift
<1>3. PICK g : g = User(t)
  OBVIOUS
<1>4. /\ \A f \in Fds : f # g => sockfd'[f] = sockfd[f]
      /\ g \in Fds => sockfd'[g] = NoFd
  BY <1>0, <1>2, <1>3 DEF Types, TypeOK
<1>5. Closing' = Closing
  BY <1>1, <1>2 DEF Closing
<1>6. Open' = Open
  BY <1>2 DEF Open
<1>7. Opening' <=> Opening
  <2>1. CASE t = Main
    BY <1>2, <2>1 DEF Opening
  <2>2. CASE t # Main
    BY <1>0, <1>1, <2>2 DEF Opening
  <2>. QED
    BY <2>1, <2>2
<1>8. Live' = Live \ {g}
  BY <1>2, <1>4, <1>6, <1>7 DEF Live, Open
<1>9. \A u \in Threads : pc[u] = "remove" => User(u) \in Fds /\ u # t
  BY <1>2, OpeningNotClosing
<1>10. AtMost'
  BY <1>2, <1>5, <1>6, <1>7 DEF AtMost
<1>11. CASE \E u \in Threads : pc[u] = "remove" /\ User(u) = g /\ sockfd[g] # NoFd
  <2>1. PICK u \in Threads : pc[u] = "remove" /\ User(u) = g /\ sockfd[g] # NoFd
    BY <1>11
  <2>2. g \in Fds /\ Owns(u, g) /\ file[g] # NoConn /\ (Opening => g # cur)
    BY <2>1, OpeningNotClosing
  <2>3. g \in Live
    BY <2>1, <2>2 DEF Live, Open
  <2>4. \A v \in Threads : pc[v] = "remove" /\ User(v) = g => v = u
    <3> SUFFICES ASSUME NEW v \in Threads, pc[v] = "remove", User(v) = g PROVE v = u
      OBVIOUS
    <3>1. Owns(v, g)
      BY OpeningNotClosing
    <3>. QED
      BY <1>0, <2>2, <3>1 DEF Single
  <2>5. Late' = Late \cup {u} /\ u \notin Late
    <3>1. u \notin Late
      BY <2>1 DEF Late
    <3>2. \A v \in Threads : pc'[v] = "remove" <=> pc[v] = "remove"
      BY <1>1, <1>2
    <3>3. \A v \in Threads : pc[v] = "remove" =>
             (sockfd'[User(v)'] = NoFd <=> sockfd[User(v)] = NoFd \/ v = u)
      <4> SUFFICES ASSUME NEW v \in Threads, pc[v] = "remove"
                   PROVE  sockfd'[User(v)'] = NoFd <=> sockfd[User(v)] = NoFd \/ v = u
        OBVIOUS
      <4>1. User(v)' = User(v) /\ User(v) \in Fds
        BY <1>1, <1>9
      <4>2. CASE User(v) = g
        BY <1>4, <2>4, <4>1, <4>2
      <4>3. CASE User(v) # g
        BY <1>4, <2>1, <4>1, <4>3
      <4>. QED
        BY <4>2, <4>3
    <3>4. Late' = {v \in Threads : pc'[v] = "remove" /\ sockfd'[User(v)'] = NoFd}
      BY DEF Late
    <3>. QED
      BY <2>1, <3>1, <3>2, <3>3, <3>4 DEF Late
  <2>6. u \notin Closing
    BY <2>1 DEF Closing
  <2>7. Closing' \cup Late' = (Closing \cup Late) \cup {u} /\ u \notin Closing \cup Late
    BY <1>5, <2>5, <2>6
  <2>8. Cardinality(Closing' \cup Late') = Cardinality(Closing \cup Late) + 1
    BY <2>7, Finite, FS_AddElement
  <2>9. Cardinality(Live') = Cardinality(Live) - 1
    BY <1>8, <2>3, Finite, FS_RemoveElement
  <2>10. AtLeast'
    BY <1>0, <1>2, <2>8, <2>9, Finite DEF AtLeast
  <2>. QED
    BY <1>10, <2>10
<1>12. CASE ~ \E u \in Threads : pc[u] = "remove" /\ User(u) = g /\ sockfd[g] # NoFd
  <2>1. Late' = Late
    <3>1. \A v \in Threads : pc'[v] = "remove" <=> pc[v] = "remove"
      BY <1>1, <1>2
    <3>2. \A v \in Threads : pc[v] = "remove" =>
             (sockfd'[User(v)'] = NoFd <=> sockfd[User(v)] = NoFd)
      <4> SUFFICES ASSUME NEW v \in Threads, pc[v] = "remove"
                   PROVE  sockfd'[User(v)'] = NoFd <=> sockfd[User(v)] = NoFd
        OBVIOUS
      <4>1. User(v)' = User(v) /\ User(v) \in Fds
        BY <1>1, <1>9
      <4>2. CASE User(v) = g
        BY <1>4, <1>12, <4>1, <4>2
      <4>3. CASE User(v) # g
        BY <1>4, <4>1, <4>3
      <4>. QED
        BY <4>2, <4>3
    <3>3. Late' = {v \in Threads : pc'[v] = "remove" /\ sockfd'[User(v)'] = NoFd}
      BY DEF Late
    <3>. QED
      BY <3>1, <3>2, <3>3 DEF Late
  <2>2. Cardinality(Live') <= Cardinality(Live) /\ Cardinality(Live') \in Nat
    BY <1>8, Finite, FS_Subset, FS_CardinalityType
  <2>3. AtLeast'
    BY <1>0, <1>2, <1>5, <2>1, <2>2, Finite DEF AtLeast
  <2>. QED
    BY <1>10, <2>3
<1>. QED
  BY <1>11, <1>12

(* m_user_count is decremented, undisturbed.                               *)
LEMMA CloseCountDrift ==
  ASSUME LoginInv, NEW t \in Threads, CloseCount(t), ~raced', AtMost, AtLeast
  PROVE  AtMost' /\ AtLeast'
<1>0. Types /\ Main \in Threads /\ Main \notin Workers
      /\ Threads = Workers \cup {Main} /\ count \in Int /\ refused \in Nat
      /\ pc \in [Threads -> MainPCs \cup WorkerPCs \cup ClosePCs]
  BY ServerAssumption DEF LoginInv, Threads, Types, TypeOK
<1>1. \A u \in Threads : u # t => pc'[u] = pc[u] /\ User(u)' = User(u)
  BY <1>0, OthersSame DEF MainStep, Process, CloseConn
<1>2. /\ pc[t] = "dec" /\ pc'[t] \in {"loop", "idle"} /\ file' = file /\ sockfd' = sockfd
      /\ count' = count - 1 /\ refused' = refused
  BY <1>0 DEF CloseCount, Done, Goes, kernelVars
<1>3. Closing' = Closing \ {t} /\ t \in Closing
  BY <1>1, <1>2 DEF Closing
<1>4. Late' = Late /\ t \notin Late
  BY <1>1, <1>2 DEF Late
<1>5. Open' = Open
  BY <1>2 DEF Open
<1>6. (Opening' <=> Opening) /\ (Opening => cur' = cur)
  <2>1. CASE t = Main
    BY <1>2, <2>1 DEF Opening
  <2>2. CASE t # Main
    BY <1>0, <1>1, <2>2, OthersUntouched DEF Opening, Process, CloseConn
  <2>. QED
    BY <2>1, <2>2
<1>7. Live' = Live
  BY <1>2, <1>5, <1>6 DEF Live
<1>8. Closing' \cup Late' = (Closing \cup Late) \ {t} /\ t \in Closing \cup Late
  BY <1>3, <1>4
<1>9. /\ Cardinality(Closing') = Cardinality(Closing) - 1
      /\ Cardinality(Closing' \cup Late') = Cardinality(Closing \cup Late) - 1
  <2>1. IsFiniteSet(Closing) /\ IsFiniteSet(Closing \cup Late)
    BY Finite
  <2>2. Cardinality(Closing') = Cardinality(Closing) - 1
    BY <1>3, <2>1, FS_RemoveElement
  <2>3. Cardinality(Closing' \cup Late') = Cardinality(Closing \cup Late) - 1
    BY <1>8, <2>1, FS_RemoveElement
  <2>. QED
    BY <2>2, <2>3
<1>10. AtMost'
  BY <1>0, <1>2, <1>5, <1>6, <1>9, Finite DEF AtMost
<1>11. AtLeast'
  BY <1>0, <1>2, <1>7, <1>9, Finite DEF AtLeast
<1>. QED
  BY <1>10, <1>11

LEMMA DriftStep == LoginInv /\ Drift /\ [Next]_vars => Drift'
<1> SUFFICES ASSUME LoginInv, Drift, [Next]_vars, ~raced' PROVE AtMost' /\ AtLeast'
  BY RegisteredStep DEF Drift
<1>0. Types /\ Registered /\ Main \in Threads /\ Main \notin Workers
      /\ pc \in [Threads -> MainPCs \cup WorkerPCs \cup ClosePCs]
      /\ \A w \in Workers : w \in Threads /\ w # Main
  BY ServerAssumption DEF LoginInv, Drift, Threads, Types
<1>1. ASSUME NEW t \in Threads, CloseConn(t) PROVE AtMost' /\ AtLeast'
  <2>1. ~raced
    BY <1>1 DEF CloseConn, CloseCheck, CloseSkipped, CloseRemove, CloseClear, CloseCount, drift
  <2>2. AtMost /\ AtLeast
    BY <2>1 DEF Drift
  <2>3. CASE CloseCheck(t)
    <3>1. /\ file' = file /\ sockfd' = sockfd /\ count' = count /\ refused' = refused
          /\ raced' = raced /\ cur' = cur /\ busy' = busy
          /\ pc[t] = "check" /\ pc' = [pc EXCEPT ![t] = "remove"] /\ sockfd[User(t)] # NoFd
      BY <2>3 DEF CloseCheck, Goes, kernelVars, loopVars, userVars, poolVars, drift
    <3>2. User(t)' = User(t)
      BY <3>1 DEF User
    <3>3. pc'[t] = "remove" /\ (Opening' <=> Opening)
      BY <1>0, <3>1 DEF Opening
    <3>. QED
      BY <1>0, <1>1, <2>2, <3>1, <3>2, <3>3, Steady DEF MainStep, Process, Threads
  <2>4. CASE CloseSkipped(t)
    <3>1. /\ file' = file /\ sockfd' = sockfd /\ count' = count /\ refused' = refused
          /\ raced' = raced /\ pc[t] = "check"
      BY <2>4 DEF CloseSkipped, Done, Goes, kernelVars, userVars, drift
    <3>2. pc'[t] \in {"loop", "idle"}
      BY <1>0, <2>4 DEF CloseSkipped, Done, Goes
    <3>3. (Opening' <=> Opening) /\ (Opening => cur' = cur)
      <4>1. CASE t = Main
        BY <3>1, <3>2, <4>1 DEF Opening
      <4>2. CASE t # Main
        BY <1>0, <1>1, <4>2, OthersUntouched DEF Opening, Process, Threads
      <4>. QED
        BY <4>1, <4>2
    <3>. QED
      BY <1>0, <1>1, <2>2, <3>1, <3>2, <3>3, Steady DEF MainStep, Process, Threads
  <2>. QED
    BY <1>0, <1>1, <2>2, <2>3, <2>4, RemoveDrift, ClearDrift, CloseCountDrift DEF CloseConn
<1>2. CASE Client \/ UNCHANGED vars
  <2>1. UNCHANGED <<file, sockfd, count, refused, raced, pc, cur, busy>>
    BY <1>2 DEF Client, Connect, SendRequest, HangUp, vars, kernelVars, threadVars, loopVars,
       userVars, poolVars, drift
  <2>2. Open' = Open /\ Closing' = Closing
    BY <2>1 DEF Open, Closing
  <2>3. Late' = Late
    BY <2>1 DEF Late, User
  <2>4. Live' = Live /\ (Opening' <=> Opening)
    BY <2>1, <2>2 DEF Live, Opening
  <2>5. AtMost /\ AtLeast
    BY <2>1 DEF Drift
  <2>6. AtMost'
    BY <2>1, <2>2, <2>4, <2>5 DEF AtMost
  <2>7. AtLeast'
    BY <2>1, <2>2, <2>3, <2>4, <2>5 DEF AtLeast
  <2>. QED
    BY <2>6, <2>7
<1>3. CASE AcceptConn \/ ShowError \/ InitConn
  <2>1. ~raced
    BY <1>3 DEF AcceptConn, ShowError, InitConn, drift
  <2>. QED
    BY <1>3, <2>1, OpeningDrift DEF Drift
<1>4. CASE InitCount
  <2>1. ~raced
    BY <1>4 DEF InitCount
  <2>. QED
    BY <1>4, <2>1, InitCountDrift DEF Drift
<1>5. ASSUME MainStep, file' = file, sockfd' = sockfd, count' = count, refused' = refused,
             raced' = raced, pc[Main] = "loop", pc'[Main] \in {"loop", "check"}
      PROVE  AtMost' /\ AtLeast'
  <2>1. ~Opening' /\ ~Opening
    BY <1>5 DEF Opening
  <2>2. AtMost /\ AtLeast
    BY <1>5 DEF Drift
  <2>. QED
    BY <1>0, <1>5, <2>1, <2>2, Steady
<1>6. CASE EpollWait \/ AcceptFails
  <2>1. /\ file' = file /\ sockfd' = sockfd /\ count' = count /\ refused' = refused
        /\ raced' = raced /\ pc[Main] = "loop"
    BY <1>6 DEF EpollWait, AcceptFails, Goes, kernelVars, userVars, drift
  <2>2. pc'[Main] = "loop"
    BY <1>0, <1>6 DEF EpollWait, AcceptFails, Goes
  <2>3. MainStep
    BY <1>6 DEF MainStep
  <2>. QED
    BY <1>5, <2>1, <2>2, <2>3
<1>7. ASSUME NEW f \in Fds, HupEvent(f) \/ InEvent(f) \/ InEventRefused(f) \/ InEventFails(f)
      PROVE  AtMost' /\ AtLeast'
  <2>1. /\ file' = file /\ sockfd' = sockfd /\ count' = count /\ refused' = refused
        /\ raced' = raced /\ pc[Main] = "loop"
    BY <1>7 DEF HupEvent, InEvent, InEventRefused, InEventFails, Goes, kernelVars, userVars, drift
  <2>2. pc'[Main] \in {"loop", "check"}
    BY <1>0, <1>7 DEF HupEvent, InEvent, InEventRefused, InEventFails, Goes
  <2>3. MainStep
    BY <1>7 DEF MainStep
  <2>. QED
    BY <1>5, <2>1, <2>2, <2>3
<1>8. ASSUME NEW w \in Workers,
             \/ TakeRequest(w) \/ Dispatch(w) \/ IgnoreRequest(w) \/ Register(w)
             \/ LoginOk(w) \/ LoginFails(w) \/ RequestCrashes(w)
      PROVE  AtMost' /\ AtLeast'
  <2>1. /\ file' = file /\ sockfd' = sockfd /\ count' = count /\ refused' = refused
        /\ raced' = raced /\ pc[w] \in {"idle", "parse", "register", "login"}
    BY <1>0, <1>8
       DEF TakeRequest, Dispatch, IgnoreRequest, Register, LoginOk, LoginFails, RequestCrashes, Goes,
           Done, kernelVars, userVars, drift
  <2>2. pc'[w] \in {"parse", "register", "login", "check", "idle"}
    <3>1. CASE RequestCrashes(w)
      BY <3>1 DEF RequestCrashes, threadVars
    <3>2. CASE ~RequestCrashes(w)
      BY <1>0, <1>8, <3>2
         DEF TakeRequest, Dispatch, IgnoreRequest, Register, LoginOk, LoginFails, Goes, Done
    <3>. QED
      BY <3>1, <3>2
  <2>3. pc'[Main] = pc[Main] /\ cur' = cur
    BY <1>0, <1>8, OthersUntouched DEF Process
  <2>4. (Opening' <=> Opening) /\ AtMost /\ AtLeast
    BY <2>1, <2>3 DEF Opening, Drift
  <2>. QED
    BY <1>0, <1>8, <2>1, <2>2, <2>3, <2>4, Steady DEF Process
<1>. QED
  BY <1>0, <1>1, <1>2, <1>3, <1>4, <1>6, <1>7, <1>8 DEF Next, MainStep, Process

LEMMA DriftIsCountDrift == LoginInv /\ Drift => CountDrift
<1> SUFFICES ASSUME LoginInv, Drift, Settled, ~raced
             PROVE  count \in Cardinality({f \in Open : sockfd[f] # NoFd}) .. Cardinality(Open) + refused
  BY DEF CountDrift
<1>0. Types /\ count \in Int /\ refused \in Nat
  BY DEF LoginInv, Types, TypeOK
<1>1. ~Opening /\ Closing = {}
  BY DEF Settled, Opening, Closing, Threads
<1>2. Live = {f \in Open : sockfd[f] # NoFd}
  BY <1>1 DEF Live
<1>3. Cardinality(Closing) = 0
  BY <1>1, FS_EmptySet
<1>4. AtMost /\ AtLeast
  BY DEF Drift
<1>5. count <= Cardinality(Open) + refused
  BY <1>0, <1>1, <1>3, <1>4, Finite DEF AtMost
<1>6. Cardinality(Live) <= count
  BY <1>0, <1>4, Finite DEF AtLeast
<1>. QED
  BY <1>0, <1>2, <1>5, <1>6, Finite

(***************************************************************************)
(* Unless two updates of m_user_count have met, it counts at least the     *)
(* open connections that close_conn will close, and at most the open ones  *)
(* plus one for every connection turned away, for any number of threads,   *)
(* descriptors and connections.                                            *)
(***************************************************************************)
THEOREM CountBounded == Spec => []CountDrift
<1>1. LoginInv /\ Drift /\ [Next]_vars => (LoginInv /\ Drift)'
  BY LoginInvStep, DriftStep
<1>2. Init => LoginInv /\ Drift
  BY LoginInvInit, DriftInit
<1>3. Spec => [](LoginInv /\ Drift)
  BY <1>1, <1>2, PTL DEF Spec
<1>. QED
  BY <1>3, DriftIsCountDrift, PTL

=============================================================================
