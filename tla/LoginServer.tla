---------------------------- MODULE LoginServer ----------------------------
(***************************************************************************)
(* loginserver/main.cpp and loginserver/loginserver.cpp: one thread runs   *)
(* the epoll loop, accepts connections and reads them, the workers of the  *)
(* pool parse what was read, have the data base answer it and close the    *)
(* connection.  A connection is represented by users[fd], an object shared *)
(* by all threads without a lock; what keeps the threads apart is the      *)
(* one-shot registration with epoll.  The pool is the one that ThreadPool  *)
(* is shown to implement, RequestQueue, with file descriptors (standing    *)
(* for &users[fd]) as its requests.                                        *)
(*                                                                         *)
(* Statements of different threads interleave between any two accesses of  *)
(* shared memory or of the descriptor table that another thread can see.   *)
(***************************************************************************)
EXTENDS Integers, Sequences, FiniteSets

CONSTANTS
  Conns,         \* the client connections; each connects once
  Fds,           \* descriptors accept may return, bounded by RLIMIT_NOFILE
  Workers,       \* the pool's threads
  Main,          \* the thread of the epoll loop
  NoConn,        \* a free descriptor; a read buffer never filled
  NoFd,          \* the value -1 of m_sockfd
  Listen,        \* listenfd, in an event
  MaxUsers,      \* MAX_FD
  MaxRequests,   \* m_max_requests of the pool
  MaxBacklog,    \* bound: connections waiting to be accepted
  MaxSends,      \* bound: messages a client sends on one connection
  MaxHangUps     \* bound: clients that hang up

ASSUME ServerAssumption ==
  /\ Fds \subseteq Nat /\ IsFiniteSet(Fds) /\ Fds # {}
  /\ NoFd \notin Fds /\ Listen \notin Fds
  /\ NoConn \notin Conns
  /\ Main \notin Workers /\ IsFiniteSet(Workers)
  /\ MaxUsers \in Nat /\ MaxRequests \in Nat \ {0}
  /\ MaxBacklog \in Nat /\ MaxSends \in Nat /\ MaxHangUps \in Nat

VARIABLES
  \* the clients and the kernel
  connected,  \* connections that have been established
  gone,       \* those the client has closed (or lost)
  sent,       \* number of messages each client has sent
  unread,     \* how many of them the server has not received
  answers,    \* number of replies the server has sent on each connection
  backlog,    \* established and not accepted yet
  edge,       \* epoll has a new connection to report
  file,       \* the descriptor table
  armed,      \* descriptors registered with epoll and not fired
  \* the program
  batch,      \* events returned by epoll_wait and not handled yet
  cur,        \* the descriptor main() is handling
  sockfd,     \* users[fd].m_sockfd
  readbuf,    \* users[fd].m_read_buf: the connection its content came from
  count,      \* loginserver::m_user_count
  queue,      \* the pool: objects waiting ...
  busy,       \* ... and the object each worker holds
  pc,         \* where each thread is
  connFd,     \* the argument connFd of user_register or user_login
  tmp,        \* each thread's register in m_user_count++ and --
  alive,      \* the process has not crashed
  \* history
  silent,     \* connections whose request was discarded without a reply
  refused,    \* number of connections turned away
  raced       \* an update of m_user_count has overwritten another

clientVars == <<connected, gone, sent>>
kernelVars == <<unread, answers, backlog, edge, file, armed>>
loopVars   == <<batch, cur>>
userVars   == <<sockfd, readbuf, count>>
poolVars   == <<queue, busy>>
threadVars == <<pc, connFd, tmp>>
drift      == <<refused, raced>>
vars == <<clientVars, kernelVars, loopVars, userVars, poolVars, threadVars,
          silent, alive, drift>>

Threads == Workers \cup {Main}
MainPCs == {"loop", "refuse", "init", "count"}
WorkerPCs == {"idle", "parse", "register", "login"}
ClosePCs == {"check", "remove", "clear", "dec"}
Events == ({Listen} \X {"accept"}) \cup (Fds \X {"hup", "in"})

Pool == INSTANCE RequestQueue WITH Requests <- Fds, NoRequest <- NoFd

TypeOK ==
  /\ connected \subseteq Conns
  /\ gone \subseteq connected
  /\ sent \in [Conns -> 0 .. MaxSends]
  /\ unread \in [Conns -> 0 .. MaxSends]
  /\ answers \in [Conns -> Nat]
  /\ backlog \in Seq(connected)
  /\ edge \in BOOLEAN
  /\ file \in [Fds -> connected \cup {NoConn}]
  /\ armed \subseteq {f \in Fds : file[f] # NoConn}
  /\ batch \subseteq Events
  /\ cur \in Fds \cup {NoFd}
  /\ sockfd \in [Fds -> Fds \cup {NoFd}]
  /\ readbuf \in [Fds -> Conns \cup {NoConn}]
  /\ count \in Int
  /\ queue \in Seq(Fds)
  /\ busy \in [Workers -> Fds \cup {NoFd}]
  /\ pc[Main] \in MainPCs \cup ClosePCs
  /\ \A w \in Workers :
       /\ pc[w] \in WorkerPCs \cup ClosePCs
       /\ pc[w] = "idle" <=> busy[w] = NoFd
  /\ pc[Main] = "loop" <=> cur = NoFd
  /\ connFd \in [Workers -> Fds \cup {NoFd}]
  /\ tmp \in [Threads -> Int]
  /\ silent \subseteq connected
  /\ refused \in Nat /\ raced \in BOOLEAN
  /\ alive \in BOOLEAN

Init ==
  /\ connected = {} /\ gone = {}
  /\ sent = [c \in Conns |-> 0]
  /\ unread = [c \in Conns |-> 0]
  /\ answers = [c \in Conns |-> 0]
  /\ backlog = <<>>
  /\ edge = FALSE
  /\ file = [f \in Fds |-> NoConn]
  /\ armed = {}
  /\ batch = {}
  /\ cur = NoFd
  /\ sockfd = [f \in Fds |-> NoFd]
  /\ readbuf = [f \in Fds |-> NoConn]
  /\ count = 0
  /\ Pool!Init
  /\ pc = [t \in Threads |-> IF t = Main THEN "loop" ELSE "idle"]
  /\ connFd = [w \in Workers |-> NoFd]
  /\ tmp = [t \in Threads |-> 0]
  /\ silent = {}
  /\ refused = 0 /\ raced = FALSE
  /\ alive = TRUE

(* The connections that are open, as the kernel sees them.                 *)
Open == {f \in Fds : file[f] # NoConn}

Goes(t, from, to) ==
  /\ alive
  /\ pc[t] = from
  /\ pc' = [pc EXCEPT ![t] = to]

-----------------------------------------------------------------------------
(* The clients, external to the program: the phone application connects    *)
(* once, sends login and register requests, and may disappear.             *)

Connect(c) ==
  /\ c \notin connected
  /\ Len(backlog) < MaxBacklog
  /\ connected' = connected \cup {c}
  /\ backlog' = Append(backlog, c)
  /\ edge' = TRUE
  /\ UNCHANGED <<gone, sent, unread, answers, file, armed, loopVars, userVars,
                 poolVars, threadVars, silent, alive, drift>>

ClosedByServer(c) ==
  /\ c \in connected
  /\ \A f \in Fds : file[f] # c
  /\ \A i \in 1 .. Len(backlog) : backlog[i] # c

SendRequest(c) ==
  /\ c \in connected \ gone
  /\ ~ClosedByServer(c)
  /\ sent[c] < MaxSends
  /\ sent' = [sent EXCEPT ![c] = @ + 1]
  /\ unread' = [unread EXCEPT ![c] = @ + 1]
  /\ UNCHANGED <<connected, gone, answers, backlog, edge, file, armed, loopVars,
                 userVars, poolVars, threadVars, silent, alive, drift>>

HangUp(c) ==
  /\ c \in connected \ gone
  /\ Cardinality(gone) < MaxHangUps
  /\ gone' = gone \cup {c}
  /\ UNCHANGED <<connected, sent, kernelVars, loopVars, userVars, poolVars,
                 threadVars, silent, alive, drift>>

-----------------------------------------------------------------------------
(* The loop of main().                                                     *)

Ready == {f \in armed : unread[file[f]] > 0 \/ file[f] \in gone}

EventOf(f) == <<f, IF file[f] \in gone THEN "hup" ELSE "in">>

Reported ==
  (IF edge THEN {<<Listen, "accept">>} ELSE {}) \cup {EventOf(f) : f \in Ready}

(* Mutant: registered without EPOLLONESHOT. *)
EpollWaitAgain ==
  /\ Goes(Main, "loop", "loop")
  /\ batch = {}
  /\ Reported # {}
  /\ batch' = Reported
  /\ edge' = FALSE
  /\ UNCHANGED <<clientVars, unread, answers, backlog, file, armed, cur, userVars,
                 poolVars, connFd, tmp, silent, alive, drift>>

(* epoll_wait: an edge-triggered event is reported once; EPOLLONESHOT also *)
(* disables the descriptor until a modfd, which no code calls.             *)
EpollWait ==
  /\ Goes(Main, "loop", "loop")
  /\ batch = {}
  /\ Reported # {}
  /\ batch' = Reported
  /\ edge' = FALSE
  /\ armed' = armed \ Ready
  /\ UNCHANGED <<clientVars, unread, answers, backlog, file, cur, userVars,
                 poolVars, connFd, tmp, silent, alive, drift>>

(* main() takes the next event of the batch, in whatever order epoll_wait  *)
(* returned them.                                                          *)
Event(e) ==
  /\ batch' = batch \ {e}
  /\ e \in batch

LowestFree == CHOOSE f \in Fds \ Open : \A g \in Fds \ Open : f <= g

(* accept, and the test of m_user_count.                                   *)
AcceptConn ==
  /\ Goes(Main, "loop", IF count >= MaxUsers THEN "refuse" ELSE "init")
  /\ Event(<<Listen, "accept">>)
  /\ backlog # <<>>
  /\ Open # Fds
  /\ cur' = LowestFree
  /\ file' = [file EXCEPT ![LowestFree] = Head(backlog)]
  /\ backlog' = Tail(backlog)
  /\ UNCHANGED <<clientVars, unread, answers, edge, armed, userVars, poolVars,
                 connFd, tmp, silent, alive, drift>>

(* Mutant: the result of accept is not tested. *)
AcceptUnchecked ==
  /\ Goes(Main, "loop", "init")
  /\ Event(<<Listen, "accept">>)
  /\ Open = Fds
  /\ cur' = NoFd
  /\ UNCHANGED <<clientVars, kernelVars, userVars, poolVars, connFd, tmp, silent,
                 alive, drift>>

(* accept fails, for want of a descriptor: continue.  The connection stays *)
(* in the backlog and its edge has been consumed.  (It cannot fail for     *)
(* want of a connection: there are never more edges than connections.)     *)
AcceptFails ==
  /\ Goes(Main, "loop", "loop")
  /\ Event(<<Listen, "accept">>)
  /\ Open = Fds
  /\ UNCHANGED <<clientVars, kernelVars, cur, userVars, poolVars, connFd, tmp,
                 silent, alive, drift>>

(* show_error closes the descriptor, and control falls through to init.    *)
ShowError ==
  /\ Goes(Main, "refuse", "init")
  /\ file' = [file EXCEPT ![cur] = NoConn]
  /\ refused' = refused + 1
  /\ UNCHANGED <<clientVars, unread, answers, backlog, edge, armed, loopVars,
                 userVars, poolVars, connFd, tmp, silent, alive, raced>>

(* Mutant: users is indexed with m_user_count instead of connfd. *)
InitNextUser ==
  /\ Goes(Main, "init", "count")
  /\ sockfd' = [sockfd EXCEPT ![IF count \in Fds THEN count ELSE cur] = cur]
  /\ armed' = IF cur \in Open THEN armed \cup {cur} ELSE armed
  /\ tmp' = [tmp EXCEPT ![Main] = count]
  /\ UNCHANGED <<clientVars, unread, answers, backlog, edge, file, loopVars,
                 readbuf, count, poolVars, connFd, silent, alive, drift>>

(* init: m_sockfd, the registration (which fails on a closed descriptor),  *)
(* and the load of m_user_count++ ...                                      *)
InitConn ==
  /\ Goes(Main, "init", "count")
  /\ sockfd' = [sockfd EXCEPT ![cur] = cur]
  /\ armed' = IF cur \in Open THEN armed \cup {cur} ELSE armed
  /\ tmp' = [tmp EXCEPT ![Main] = count]
  /\ UNCHANGED <<clientVars, unread, answers, backlog, edge, file, loopVars,
                 readbuf, count, poolVars, connFd, silent, alive, drift>>

(* ... and its store.                                                      *)
InitCount ==
  /\ Goes(Main, "count", "loop")
  /\ count' = tmp[Main] + 1
  /\ raced' = (raced \/ count # tmp[Main])
  /\ tmp' = [tmp EXCEPT ![Main] = 0]
  /\ cur' = NoFd
  /\ UNCHANGED <<clientVars, kernelVars, batch, sockfd, readbuf, poolVars, connFd,
                 silent, alive, refused>>

(* Mutant: the event is ignored. *)
HupIgnored(f) ==
  /\ Goes(Main, "loop", "loop")
  /\ Event(<<f, "hup">>)
  /\ UNCHANGED <<clientVars, kernelVars, cur, userVars, poolVars, connFd, tmp,
                 silent, alive, drift>>

(* EPOLLRDHUP, EPOLLHUP or EPOLLERR: close_conn, whatever is unread.       *)
HupEvent(f) ==
  /\ Goes(Main, "loop", "check")
  /\ Event(<<f, "hup">>)
  /\ cur' = f
  /\ UNCHANGED <<clientVars, kernelVars, userVars, poolVars, connFd, tmp,
                 silent, alive, drift>>

(* recv(m_sockfd, m_read_buf) returns what is unread, of which process()   *)
(* will see the first message.                                             *)
Receives(f) ==
  LET s == sockfd[f] IN
  /\ s # NoFd
  /\ file[s] # NoConn
  /\ unread[file[s]] > 0
  /\ readbuf' = [readbuf EXCEPT ![f] = file[s]]
  /\ unread' = [unread EXCEPT ![file[s]] = 0]

InEvent(f) ==
  /\ Goes(Main, "loop", "loop")
  /\ Event(<<f, "in">>)
  /\ Receives(f)
  /\ Pool!Submit(f)
  /\ UNCHANGED <<clientVars, answers, backlog, edge, file, armed, cur, sockfd,
                 count, connFd, tmp, silent, alive, drift>>

(* The pool is full; the result of append is ignored.                      *)
InEventRefused(f) ==
  /\ Goes(Main, "loop", "loop")
  /\ Event(<<f, "in">>)
  /\ Receives(f)
  /\ ~Pool!HasRoom
  /\ silent' = silent \cup {file[sockfd[f]]}
  /\ UNCHANGED <<clientVars, answers, backlog, edge, file, armed, cur, sockfd,
                 count, poolVars, connFd, tmp, alive, drift>>

(* recv fails, or returns 0: m_sockfd is -1 by now, or the client has gone *)
(* since the event was reported.                                           *)
InEventFails(f) ==
  /\ Goes(Main, "loop", "check")
  /\ Event(<<f, "in">>)
  /\ sockfd[f] # NoFd => file[sockfd[f]] \in gone
  /\ cur' = f
  /\ UNCHANGED <<clientVars, kernelVars, userVars, poolVars, connFd, tmp,
                 silent, alive, drift>>

-----------------------------------------------------------------------------
(* close_conn, called by main() and by the workers.                        *)

User(t) == IF t = Main THEN cur ELSE busy[t]

(* The thread is through with its object: main() goes on with the batch,   *)
(* process() returns to the pool.  Their local variables end.              *)
Done(t, from) ==
  IF t = Main
  THEN Goes(t, from, "loop") /\ cur' = NoFd /\ UNCHANGED <<poolVars, connFd>>
  ELSE /\ Goes(t, from, "idle")
       /\ Pool!Finish(t)
       /\ connFd' = [connFd EXCEPT ![t] = NoFd]
       /\ UNCHANGED cur

(* if (m_sockfd != -1)                                                     *)
CloseCheck(t) ==
  /\ Goes(t, "check", "remove")
  /\ sockfd[User(t)] # NoFd
  /\ UNCHANGED <<clientVars, kernelVars, loopVars, userVars, poolVars, connFd, tmp,
                 silent, alive, drift>>

CloseSkipped(t) ==
  /\ Done(t, "check")
  /\ sockfd[User(t)] = NoFd
  /\ UNCHANGED <<clientVars, kernelVars, batch, userVars, tmp, silent,
                 alive, drift>>

(* removefd(m_epollfd, m_sockfd): m_sockfd is read again.                  *)
CloseRemove(t) ==
  LET s == sockfd[User(t)] IN
  /\ Goes(t, "remove", "clear")
  /\ file' = [f \in Fds |-> IF f = s THEN NoConn ELSE file[f]]
  /\ armed' = armed \ {s}
  /\ UNCHANGED <<clientVars, unread, answers, backlog, edge, loopVars, userVars,
                 poolVars, connFd, tmp, silent, alive, drift>>

(* m_sockfd = -1, and the load of m_user_count-- ...                       *)
CloseClear(t) ==
  /\ Goes(t, "clear", "dec")
  /\ sockfd' = [sockfd EXCEPT ![User(t)] = NoFd]
  /\ tmp' = [tmp EXCEPT ![t] = count]
  /\ UNCHANGED <<clientVars, kernelVars, loopVars, readbuf, count, poolVars,
                 connFd, silent, alive, drift>>

(* Mutant: m_user_count is left alone. *)
CloseCountKept(t) ==
  /\ Done(t, "dec")
  /\ tmp' = [tmp EXCEPT ![t] = 0]
  /\ UNCHANGED <<clientVars, kernelVars, batch, userVars, silent,
                 alive, drift>>

(* ... and its store.                                                      *)
CloseCount(t) ==
  /\ Done(t, "dec")
  /\ count' = tmp[t] - 1
  /\ raced' = (raced \/ count # tmp[t])
  /\ tmp' = [tmp EXCEPT ![t] = 0]
  /\ UNCHANGED <<clientVars, kernelVars, batch, sockfd, readbuf,
                 silent, alive, refused>>

-----------------------------------------------------------------------------
(* The workers: process().                                                 *)

TakeRequest(w) ==
  /\ Goes(w, "idle", "parse")
  /\ Pool!Take(w)
  /\ UNCHANGED <<clientVars, kernelVars, loopVars, userVars, connFd, tmp, silent,
                 alive, drift>>

(* Mutant: modfd before the request has been served. *)
DispatchRearms(w) ==
  /\ \E command \in {"register", "login"} : Goes(w, "parse", command)
  /\ connFd' = [connFd EXCEPT ![w] = sockfd[busy[w]]]
  /\ armed' = armed \cup {busy[w]}
  /\ UNCHANGED <<clientVars, unread, answers, backlog, edge, file, loopVars, userVars,
                 poolVars, tmp, silent, alive, drift>>

(* The command is known: m_sockfd is passed by value.  Which of the two a  *)
(* message carries is chosen here, nothing before depends on it.           *)
Dispatch(w) ==
  /\ \E command \in {"register", "login"} : Goes(w, "parse", command)
  /\ connFd' = [connFd EXCEPT ![w] = sockfd[busy[w]]]
  /\ UNCHANGED <<clientVars, kernelVars, loopVars, userVars, poolVars, tmp, silent,
                 alive, drift>>

(* Any other command is ignored.                                           *)
IgnoreRequest(w) ==
  /\ Done(w, "parse")
  /\ silent' = silent \cup {readbuf[busy[w]]}
  /\ UNCHANGED <<clientVars, kernelVars, batch, userVars, tmp, alive, drift>>

(* sendData: with connFd < 0 nothing is sent.                              *)
SendData(w) ==
  answers' = [c \in Conns |->
    IF connFd[w] # NoFd /\ file[connFd[w]] = c THEN answers[c] + 1 ELSE answers[c]]

(* user_register always answers and returns 0.                             *)
Register(w) ==
  /\ Goes(w, "register", "check")
  /\ SendData(w)
  /\ UNCHANGED <<clientVars, unread, backlog, edge, file, armed, loopVars, userVars,
                 poolVars, connFd, tmp, silent, alive, drift>>

(* user_login: the password matches and sendData's result is not negative. *)
LoginOk(w) ==
  /\ Goes(w, "login", "check")
  /\ connFd[w] # NoFd
  /\ SendData(w)
  /\ UNCHANGED <<clientVars, unread, backlog, edge, file, armed, loopVars, userVars,
                 poolVars, connFd, tmp, silent, alive, drift>>

(* Mutant: modfd after a refused login. *)
LoginFailsRearms(w) ==
  /\ Done(w, "login")
  /\ SendData(w)
  /\ armed' = armed \cup ({connFd[w]} \ {NoFd})
  /\ UNCHANGED <<clientVars, unread, backlog, edge, file, batch, userVars,
                 tmp, silent, alive, drift>>

(* Mutant: no reply to a refused login. *)
LoginFailsSilently(w) ==
  /\ Done(w, "login")
  /\ UNCHANGED <<clientVars, kernelVars, batch, userVars, tmp, silent,
                 alive, drift>>

(* It does not match; or sendData returns -1, or the negative value it may *)
(* return for want of a return statement: the connection stays open.       *)
LoginFails(w) ==
  /\ Done(w, "login")
  /\ SendData(w)
  /\ UNCHANGED <<clientVars, unread, backlog, edge, file, armed, batch, userVars,
                 tmp, silent, alive, drift>>

(* user_register or user_login crashes (see AccountProtocol and UserDB):   *)
(* an array is overrun, an error text freed twice, or the user not found.  *)
(* The process dies, with every connection.                                *)
RequestCrashes(w) ==
  /\ alive
  /\ pc[w] \in {"register", "login"}
  /\ alive' = FALSE
  /\ UNCHANGED <<clientVars, kernelVars, loopVars, userVars, poolVars, threadVars,
                 silent, drift>>

-----------------------------------------------------------------------------
Client ==
  \E c \in Conns : Connect(c) \/ SendRequest(c) \/ HangUp(c)

CloseConn(t) ==
  CloseCheck(t) \/ CloseSkipped(t) \/ CloseRemove(t) \/ CloseClear(t) \/ CloseCount(t)

MainStep ==
  \/ EpollWait
  \/ AcceptConn
  \/ AcceptFails
  \/ ShowError
  \/ InitConn
  \/ InitCount
  \/ \E f \in Fds : HupEvent(f) \/ InEvent(f) \/ InEventRefused(f) \/ InEventFails(f)
  \/ CloseConn(Main)

Process(w) ==
  \/ Dispatch(w)
  \/ IgnoreRequest(w)
  \/ Register(w)
  \/ LoginOk(w)
  \/ LoginFails(w)
  \/ RequestCrashes(w)
  \/ CloseConn(w)

Next ==
  \/ Client
  \/ MainStep
  \/ \E w \in Workers : TakeRequest(w) \/ Process(w)

Spec == Init /\ [][Next]_vars

(***************************************************************************)
(* Fairness: every thread is scheduled.  No step of main() or of a worker  *)
(* waits for a lock here, and the clients are under no obligation.         *)
(***************************************************************************)
FairSpec ==
  /\ Spec
  /\ WF_vars(MainStep)
  /\ \A w \in Workers : WF_vars(TakeRequest(w)) /\ WF_vars(Process(w))

-----------------------------------------------------------------------------
(* A worker owns its object until it has closed the descriptor; main()     *)
(* owns the one it initialises or closes.                                  *)
Owns(t, f) ==
  IF t = Main
  THEN cur = f /\ pc[Main] \in {"refuse", "init", "check", "remove"}
  ELSE busy[t] = f /\ pc[t] \in {"parse", "register", "login", "check", "remove"}

Waiting(f) == {i \in 1 .. Len(queue) : queue[i] = f}
Pending(f) == {e \in batch : e[1] = f}
Owners(f) == {t \in Threads : Owns(t, f)}

(***************************************************************************)
(* Each descriptor is in the hands of one party: it is armed in epoll, or  *)
(* has one event in the batch, or waits once in the pool, or one thread    *)
(* works on it.  Nothing but EPOLLONESHOT keeps a second thread away       *)
(* (loginserver.cpp, lines 14-25; main.cpp, lines 114-128).                *)
(***************************************************************************)
OneParty ==
  \A f \in Fds :
    /\ Cardinality(Waiting(f)) + Cardinality(Pending(f)) + Cardinality(Owners(f)) <= 1
    /\ f \in armed => Waiting(f) = {} /\ Pending(f) = {} /\ Owners(f) = {}

(***************************************************************************)
(* While a request waits or is processed, its descriptor still belongs to  *)
(* the connection it was read from and its text has not been overwritten,  *)
(* so the answer goes to the client that asked and close_conn closes that  *)
(* client's connection, although descriptors are reused and users[fd] with *)
(* them (loginserver.cpp, lines 83-130).                                   *)
(***************************************************************************)
RequestKeepsConnection ==
  \A f \in Fds :
    Waiting(f) # {} \/ (\E w \in Workers : Owns(w, f))
      => file[f] # NoConn /\ readbuf[f] = file[f]

(***************************************************************************)
(* m_sockfd of users[fd] is fd or -1, in every object and every argument   *)
(* taken from it: no thread ever closes or writes to the descriptor of     *)
(* another object (loginserver.cpp, lines 46-70 and 112-122).              *)
(***************************************************************************)
OwnDescriptor ==
  /\ \A f \in Fds : sockfd[f] \in {f, NoFd}
  /\ \A w \in Workers :
       pc[w] \in {"register", "login"} => connFd[w] \in {busy[w], NoFd}

(***************************************************************************)
(* A client is answered at most once on a connection, whatever it sends    *)
(* (loginserver.cpp, line 34: modfd is never called).                      *)
(***************************************************************************)
AtMostOneAnswer == \A c \in Conns : answers[c] <= 1

(***************************************************************************)
(* An open connection that no party will look at again (it is not armed,   *)
(* not pending, not waiting, not worked on) was left so by one of the      *)
(* three known ways: it had its answer and was not closed, its request was *)
(* discarded, or the m_sockfd of its object was set to -1 by the worker    *)
(* that closed the previous user of the descriptor.  There is no other way *)
(* to lose a connection (main.cpp, lines 98-128; loginserver.cpp, 46-56).  *)
(***************************************************************************)
Abandoned(f) ==
  /\ f \in Open \ armed
  /\ Waiting(f) = {} /\ Pending(f) = {} /\ Owners(f) = {}

AbandonedOnlyByKnownCauses ==
  \A f \in Fds :
    Abandoned(f) => \/ answers[file[f]] > 0
                    \/ file[f] \in silent
                    \/ sockfd[f] = NoFd

(***************************************************************************)
(* A client that has sent a request is answered or sees its connection     *)
(* closed, unless the request is lost in a known way: the connection stays *)
(* in the backlog because its edge was merged with another or spent on a   *)
(* failing accept, the request is discarded, m_sockfd was cleared under    *)
(* it, or the server has died (main.cpp, lines 87-130).                    *)
(***************************************************************************)
InBacklog(c) == \E i \in 1 .. Len(backlog) : backlog[i] = c

Cleared(c) == \E f \in Fds : file[f] = c /\ sockfd[f] = NoFd

RequestsAnswered ==
  \A c \in Conns :
    sent[c] > 0 ~> \/ answers[c] > 0
                   \/ ClosedByServer(c)
                   \/ InBacklog(c) /\ ~edge /\ batch = {}
                   \/ c \in silent
                   \/ Cleared(c)
                   \/ ~alive

(***************************************************************************)
(* m_user_count, unless two threads have updated it at the same time, and  *)
(* while none is in the middle of opening or closing: it counts at least   *)
(* the open connections that close_conn will close, and at most the open   *)
(* ones plus one for every connection ever turned away (after show_error   *)
(* main() goes on to init), so that "login server busy" is said to clients *)
(* although there is room (main.cpp, lines 98-112; loginserver.cpp, lines  *)
(* 46-70).                                                                 *)
(***************************************************************************)
Settled ==
  /\ pc[Main] \in {"loop", "check"}
  /\ \A w \in Workers : pc[w] \notin {"clear", "dec"}

CountDrift ==
  Settled /\ ~raced =>
    count \in Cardinality({f \in Open : sockfd[f] # NoFd}) .. Cardinality(Open) + refused

=============================================================================
