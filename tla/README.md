# Smart-Appliances 2.0 in TLA+

A formal model of the three programs of this repository that run at the same
time and talk to each other, the login server (`src/loginserver`), the video
server (`src/QtVideoServer`) and the phone application (`src/proclient`), and
of the device that the phone commands (`src/baiduiot`).
TLC checks small instances of it; TLAPS proves, for instances of any size, every
safety property that a run checks, and that the thread pool and the video server
implement their abstract specifications. All line numbers refer to the files
under `src/`.

To run: `tlc -config pool.cfg ThreadPool.tla`, and so on for the table in
section 4; `tlapm ThreadPoolProofs.tla`, and likewise for `LoginServerProofs`,
`UserDBProofs`, `AccountProtocolProofs`, `VideoServerProofs`,
`VideoClientProofs`, `VoiceInputProofs` and `DeviceProofs`, for the proofs.

## 1. The system

```
 phone application (Qt, one thread)                login server (C++)
   login / register page  ---- TCP, text -------->  main(): epoll loop
   video page             --+                         |  append
   voice button  --+        |                         v
                   |        |                       threadpool --> workers --> DB (SQLite)
                   v        |
          Baidu speech      +-- TCP, "pic" ------>  video server (C)
          (HTTPS)                                     thread_cam <- V4L2 driver
   MQTT snapshot of                                   thread_srv
   desired state
        |
        v
   Baidu IoT shadow  ---- MQTT, delta ----------->  device (Arduino): lamp,
                     <--- report every 30 s -----   air conditioner by infrared
```

### Inventory

| Component | State | Operations | What is hard | What makes it correct |
|---|---|---|---|---|
| **Thread pool** `loginserver/threadpool.h`, `locker.h` | `m_workqueue`, `m_queuelocker`, `m_queuestat`, `m_max_requests` | constructor, `append`, `run`, destructor | `post` comes after `unlock`; the result of `sem_wait` is ignored; `front` and `pop_front` are two calls; the limit is tested with `>` before the push | no lost wake-up, mutual exclusion on the list, a bound on it, FIFO hand-over to exactly one worker, every accepted request is processed |
| **Epoll loop and connections** `loginserver/main.cpp`, `loginserver.cpp` | `users[fd]` (`m_sockfd`, `m_read_buf`), `m_user_count`, the kernel's descriptor table and epoll set | events of the listening socket, hang-ups, input; `init`, `read`, `close_conn`, `process` | `users[fd]` is shared by all threads without a lock, only `EPOLLONESHOT` keeps them apart; descriptors are reused the moment they are closed; the listening socket is edge-triggered and `accept` is called once per edge; `append` may refuse | each descriptor is in one hand; the answer goes to the client that asked; a client is answered or closed except in listed ways |
| **User data base** `loginserver/db.cpp` | table `user1` (SQLite), the members `msg1`, `zErrMsg`, `ret` shared by all workers | `user_register`, `user_login`, `sendData` | the members have no lock; error codes of SQLite are compared the wrong way; a row that is not there is used | a client gets the reply composed for it; the checked password is the stored one; refusals are reported |
| **Camera thread and driver** `QtVideoServer/main.c`, `camera.c`, `convert.c` | buffers mapped from the driver, `rgb`, `*jpg`, `jpg_mutex` | `camera_init/start/dqbuf/eqbuf`, conversion | buffers change hands with the driver; the picture is rewritten while the server may want it | no buffer lost or shared, one whole picture published at a time, none of the first 8 |
| **Server thread** `QtVideoServer/main.c`, `srv.c`, `tcp.c` | `connfd`, the copy of the picture | `accept`, `client_process` | blocking reads and writes, hang-ups, SIGPIPE; `jpg` read before a blocking call and used after it | a whole picture, not older than the request; a slow client does not stop the camera |
| **Video page** `proclient/widget.cpp` 417-533 | `mysocket`, `timer`, two buttons, static `picbuf` | open, close, `msconnected`, `msdisconnected`, `updatepic` | `updatepic` blocks the application in nested waits; timers are created and never deleted; pointers used before they are set or after they were set to NULL | requests and answers stay in step, a whole picture is shown, a closed video asks for nothing |
| **Voice input** `proclient/jasonQt_Vop.cpp`, `jasonQt_Net.cpp`, `widget.cpp` 340-415 | `m_reply`, `m_timer`, `m_token`, the audio device and buffer, the C++ stack of nested event loops | Start/Stop button, `refreshToken`, `post`, `stop`, `onFinished`, `onError`, `onTimeout` | the user can press the button again while a nested loop waits; `stop()` tells nobody; a timeout does not abort the request | every wait ends, late answers are dropped, an input acts on its own answer |
| **Login page and message format** `proclient/widget.cpp` 26-34, 80-225, `loginserver.cpp` 83-130, `db.cpp` 56-169 | socket, fields of the pages, `m_read_buf`, the text under `strsep` | send a request, take it apart, answer, parse the answer | the buffer is never cleared; requests arrive in pieces or two at once; commas and empty fields; fields that are missing | a user gets the account that is theirs; the texts that crash the server are known |
| **MQTT commands** `proclient/widget.cpp` 227-338 | last snapshot received | `openlight` ... `jiantemp` | the shadow merges, repeats and reorders | a command takes effect once |
| **Device** `baiduiot/baiduiot.ino` | `num`, lamp, air conditioner, `prev` | `setup`, callback on the delta, reconnection, 30 s report | table index moved by messages, desired values that stay in the shadow, lost connections and resets, `millis()` wrap-around | index in range, lamp and power as last asked, a temperature step per command, reports on time, the device listens again |

How they interact: the phone calls the login server over one TCP connection per
login or registration and the video server over one connection per video
session, polling it with the three bytes `pic`. Within the login server
`main()` calls `append` and `read`, the workers call `process`, `close_conn` and
`DB`, on objects `main()` also writes. Within the video server the two threads
share `*jpg` only. Within the phone everything is one thread, and concurrency
comes from nested event loops (`QEventLoop::exec`, `waitForReadyRead`). The
device is reached through the shadow alone.

`QtVideoServer/proclient/` is an identical copy of two of the phone's libraries.

## 2. The modules

| Module | Models | Built on |
|---|---|---|
| `RequestQueue` | what the pool promises: a bounded FIFO, `Submit`, `Take`, `Finish` | - |
| `ThreadPool` | `threadpool.h` + `locker.h`, one step per lock, unlock, post, wait | implements `RequestQueue` |
| `LoginServer` | `main.cpp` + `loginserver.cpp` with the clients and the kernel | uses `RequestQueue` as its pool (`Pool!Submit` ...) |
| `UserDB` | `db.cpp`, what the workers do between `process()` and its return | stands beside `LoginServer` |
| `PictureService` | what the video server promises: one whole, fresh picture per request | - |
| `VideoServer` | `QtVideoServer/*.c`, driver, threads, clients | implements `PictureService` |
| `VideoClient` | the video page | the other end of `VideoServer`'s protocol |
| `VoiceInput` | voice button, `BaiduVop`, `HTTP` | - |
| `AccountProtocol` | the text of registration and login, end to end: pages of the phone, `m_read_buf`, `strsep`, the table of users, the answer | stands beside `LoginServer` and `UserDB` |
| `Device` | the phone's command buttons, the shadow (external), `baiduiot.ino` | - |
| `ThreadPoolProofs`, `LoginServerProofs`, `UserDBProofs`, `AccountProtocolProofs`, `VideoServerProofs`, `VideoClientProofs`, `VoiceInputProofs`, `DeviceProofs` | the theorems about the module of that name | each extends its module |

`MC*` modules only add symmetry sets; the other runs check the modules
themselves. An action whose comment begins with
"Mutant:" is not part of any specification: it is the form a plausible mistake
in the code would take, defined before the action it is a variant of, and each
property is known to be violated when the action is replaced by one of them.

### Composition

`LoginServer` could have been written over the pool's locks and semaphore; it is
written over `RequestQueue` instead, which is sound because
`ThreadPool => Abstract!Spec` is both checked (run `pool`) and proved (theorem
`Implements`). `LoginServer` in turn lets a `login` end in any of the ways
`UserDB` can (answered and closed, answered and left open, crash), and `UserDB`
lets any worker be called with any request, as `LoginServer` does. That
`RequestQueue` has no failing `sem_wait` is part of what the refinement shows.
`AccountProtocol` takes the sessions one after the other and looks at the
content of the messages; that a request read into `users[fd]` is processed for the
connection it came from (`RequestKeepsConnection`), and what two workers in `DB`
do to each other (`UserDB`), is shown elsewhere and not repeated.
`VideoServer => Service!Spec` says all that a client of the video server needs:
`VideoClient` has a server that answers each request with one numbered picture.

### State and code

*ThreadPool.* `queue` is `m_workqueue`, `sem` the semaphore's value, `lock` the
holder of `m_queuelocker`, `mpc`/`wpc` the program counters. `AppendLock,
AppendFull, AppendRoom, AppendPush, AppendPost` are the stages of `append`
(lines 68-80), `SemWait, SemWaitInterrupted, TakeLock, FoundEmpty, ReadFront,
PopFront, Process` those of `run` (93-112). `SemWaitInterrupted` exists since
`sem::wait()` returns false on `EINTR` and `run` does not look. `m_threads` is an
array of one handle (line 39) that the constructor writes beyond: `CreateFails`
lets the process end at any point of it.

*LoginServer.* The kernel's side is `file` (descriptor -> connection), `armed`
(registered with epoll and not fired), `backlog`, `edge`, `unread`. A batch of
events is kept in `batch` and handled one by one, in any order, while workers
run. `AcceptConn/AcceptFails/ShowError/InitConn/InitCount` are lines 98-112 of
`main.cpp` with `init`; `HupEvent, InEvent, InEventRefused, InEventFails` lines
114-128 with `read` and `append`; `CloseCheck ... CloseCount` the five accesses of
`close_conn`, by whichever thread; `Dispatch, IgnoreRequest, Register, LoginOk,
LoginFails, RequestCrashes` are `process`; `RequestCrashes` is the end of the
process in `user_register` or `user_login`, in any of the ways of `UserDB` and
`AccountProtocol`. `InEventFails` is a `recv` that fails: `m_sockfd` is -1, or the
client went away after the event was reported. `m_user_count++` and `--` are a
load and a store.

*UserDB.* `msg1`, `zErrMsg` are the shared members, `led`, `reply` locals. Each
SQLite call is one step (its serialized mode), `memset`, `strcpy` (in two parts)
and `send` are steps of their own, and so are printing `zErrMsg` (`PrintError`, or
`PrintFreed` if another worker has freed it) and freeing it (`FreeError`,
`FreeTwice`). `met` records which workers were in the same window.

*VideoServer.* A picture is its number; `*jpg` is written head, tail, length, in
that order, and copied length, head, tail. `incoming`/`outgoing` are the driver's
two queues. `jpgArg` is the value of the global when `client_process` was called.
`CopyCrashes` is the read through a `NULL` `jpg` or through that of a failing
`malloc(piclen)`, which is not looked at, and whose result is never freed.

`CamInit` lets the driver grant fewer buffers than `REQBUFS_COUNT`. `SrvInit` is
`tcp_server_init`. As a picture service, `published` is the length stored in
`*jpg`, a request is `pending` from the read to the end of the copy, and the
`answer` is what the header and the body are written from.

*AccountProtocol.* A text is a sequence of tokens, with commas between them; the
last token has no comma behind it. `TextOf` is what the two buttons append, and
`wire` the text on the way, to which `Send` adds.
`Receive` is `recv`: it writes what has arrived of that (`Arrived`), with all of
the first request (`ReceiveAll`) or a beginning of it (`ReceivePart`), over the old
content of `m_read_buf` (`Over`), so that the last token may be glued to a rest of
an old one (`Glue`: nothing, the old token, or a piece of something).
Each token has a length in bytes (`Length`; a piece of one may be as long as the
buffer, `Longest`): a request is received whole only if it fits in `m_read_buf`
(`RequestLength`), and a statement (`InsertLength`, `SelectLength`) or an answer
(`AnswerLength`) that does not fit in its array may end the process (`Ends`) or, if
it does not, may lack its end when it is sent (`Answers`). `Field(i)` is
the i-th result of `strsep`. `UserRegister, UserLogin, UserUnknown, NullField,
Ignore` are the ways through `process()`. `served` remembers the first request of the session, which is the one that is
served, as it was typed, for the properties. The table starts with any set of users.

*Device.* `Press` is one of the six buttons: the shadow stores the desired value
and, if the device has subscribed, sends a delta that has the new value and may
have any other value ever desired, since the device reports none of the
three. `Connect, Idle, KeepAliveFails, Callback` are the four things an iteration
of `loop()` can do before its report; `Iteration` is the report and the time it
all takes. `Setup` takes any time, with `millis()` running. `AfterPower` and `AfterTemp` are the branches of `mqtt_callback` in
their order, on `num`. `asked` is where the presses have put the temperature,
`spoiled` the fields of which a command has been missed or repeated.

*VoiceInput.* Requests are numbered. `stack` is the C++ stack of `post` calls, each
with the `target` it copies the answer to and whether its loop was told to exit:
all of them are connected to the signals of the one `HTTP` object. A handler is
one step up to the point where it enters or leaves a nested loop.

*VideoClient.* `active` are the running `QTimer`s, `timer` the one the pointer
leads to. `updatepic` is `Ask ... ReadHeader, ReadBody*, Show`. While it waits no
button or slot runs except `msconnected`, which the blocking wait on a
connecting socket delivers.

## 3. Properties

Types (`TypeOK`) once per module. The others:

* **RequestQueue refinement** `ImplementsRequestQueue`: each request goes to one worker, in order, none is dropped.
* **TokenBalance**: for every queued request there is a token, a worker on its way or a post to come; and never more of those than requests plus interrupted waits.
* **QueueLocked**, **QueueBound**, **EventuallyProcessed**: exclusion with `front` = popped element; the limit is `m_max_requests + 1`; liveness.
* **OneParty**, **RequestKeepsConnection**, **OwnDescriptor**: a descriptor is armed, or pending, or queued, or owned by one thread; a request under way still belongs to the connection it was read from, although descriptors are reused; no thread touches another object's descriptor.
* **AbandonedOnlyByKnownCauses**, **RequestsAnswered**: the complete lists of the ways in which a connection is forgotten, and in which a request gets no answer.
* **AtMostOneAnswer**: `modfd` is never called, so a connection gets one answer.
* **CountDrift**: how far `m_user_count` may be off when no update was lost.
* **HarmlessUnlessMet**, **PasswordChecked**: the unlocked members do harm only when two workers meet in one of two windows; a checked password is still the stored one when `login ok` goes out.
* **PictureService refinement** `ImplementsPictureService`: a request is answered once, with a whole picture that was public after the request was read, and not with one of the first. **BuffersConserved**, **CameraNotHeldUp**, **RequestServed**: no buffer is lost or shared with the driver; a client that does not read holds up nobody but itself; one that reads is answered.
* **SomethingEndsTheWait**, **LateAnswerDropped**, **OwnAnswerUnlessNested**, **WaitEnds**.
* **InStep**, **PictureShownWhole**, **ClosedIsStopped**, **SurvivesNotedLoss**: requests and answers in step, one whole picture shown, a closed video at rest but for stray timers; and once `msdisconnected` has noted that the server went away, nothing asks it any more, so that outside of an exchange the application crashes only by an early button, a stray timer or a connection that did not come about.
* **OwnAccount**: the account that the phone hands to the MQTT client is the one typed at registration, or that of the row whose name and password were typed, whatever is left in `m_read_buf` from longer requests; only an account that an odd request has put into the table may be cut off at the end of the answer. **CrashesInKnownWays**: a request in one piece does not crash the server unless it has a comma in a field, logs in an unknown user, or makes a statement or an answer longer than the array it is written to.
* **SwitchesAsAsked**, **TemperatureAsAsked**: lamp, power and temperature are as the buttons left them, but for lost commands, resets and, for the temperature, repetitions. **ReportsOnTime**: more than the interval after the last report (or the start), and once `setup()` is done at most one iteration late, also across the wrap of `millis()`. **ListensAgain**: the subscription is renewed after every fault, and deltas do not pile up.

Several have exceptions in their statement ("unless ..."). The exceptions are the
code's known defects; what the run shows is that there are no others. Each
exception is a behaviour of the source, explained at the action that has it.

## 4. The runs

| Run | Shows | Instance |
|---|---|---|
| `pool` | all pool properties, refinement and liveness together | 3 workers, 2 requests, limit 2, 2 interrupted waits |
| `login` | safety of the connections, second requests | 3 clients, 2 descriptors, 2 workers, limit 1, 2 messages each, 2 hang-ups |
| `login_live` | answers under fair threads; the pool refuses a request | 3 clients, 3 descriptors, 1 worker, limit 1, 1 message each, 1 hang-up |
| `db` | two workers in every combination of calls | 2 workers, 2 names, 2 passwords |
| `video` | pictures and buffers, the picture service, liveness with clients that read or not | 1 to 3 buffers, 2 clients, 2 discarded, 5 pictures, 2 requests each |
| `voice` | nested inputs, safety and liveness | token request and 4 inputs |
| `client` | video page against a server that may end | 3 sockets, 4 pictures |
| `account` | text of requests and answers | 2 sessions, 2 requests, 1 of them with a comma in a field or cut, 2 names (one of 6 bytes, one of 977) and 2 passwords, fields of 0 to 12 bytes, buffers of 1024, any table |
| `device` | buttons, shadow and device, safety and liveness | 3 presses, table of 3, 1 fault, a clock modulo 4, interval 1, up to 2 ticks an iteration |
| `db_refusal` (violation) | finding 1 | as `db` |
| `db_crosstalk` (violation) | finding 2 | as `db` |
| `video_hangup` (violation) | finding 3 | 2 buffers, 1 client |

Why the bounds are enough. *pool*: with a limit of 2 the queue can hold 3, which
is one for each worker, so that all workers compete for one, two and three
elements and `append` refuses; two interrupts suffice for a tokenless worker to
overtake a tokened one and for a second to find the list empty. *login*: three
clients over two descriptors make every descriptor change hands while a worker
is still in `close_conn` for its former user, and make `accept` fail and the
`m_user_count` test refuse (`MAX_FD` is 2 here). Two descriptors cannot hold the
three simultaneous requests that make `append` refuse: *login_live* has three,
with one worker. *db*: every hazard is between two workers; two names and passwords tell right
from wrong. *video*: three buffers let the camera thread hold one, the driver
one of each kind; five pictures leave three after the discarded ones, so a client
that asks twice can see an old, a current and a newer one. *voice*: four inputs
nest three deep with one after the others have returned. *client*: three
openings cover open, lost, opened again, closed again, and the stray timers.
*account*: what the buffer holds matters for the next request only through its
last token and through what follows it, so that two requests in a row, after a table
with any users, or two read at once, are all the cases; one odd request before
a sound one is what `OwnAccount` must stand. The long name is of the length at
which the edges meet: a registration with it and a password does not fit in
`m_read_buf`, one without a password does, and neither its `INSERT` nor the
`SELECT` of a login fits in `sql`. *device*: three presses bring the
temperature to the end of a table of three and try to go beyond it, or put
a power-on between two steps; with a modulus of 4 the clock wraps around every
second report at the least; one fault, a broken connection or a reset, at any moment.

`CHECK_DEADLOCK FALSE` wherever the environment may stop: clients have sent all
they will, the process has crashed, bounds are used up. `pool` has deadlock
checking on: its producer can always append, or wait for workers that can run.

### Fairness

* Device: `setup()` ends and `loop()` is called again and again (weak fairness);
  a connection that is tried again and again is accepted, a dead one is noticed
  by the keep-alive, and a delta that waits is read in the end (strong fairness, as
  an iteration may always find nothing to read). Faults are bounded.
* Pool and login server: weak fairness per thread, since the kernel schedules
  runnable threads; strong fairness for a worker's `lock()`: a mutex that is released
  again and again is taken to reach each waiter in the end. A POSIX mutex gives no
  such guarantee on paper; here it is contended for a few instructions per request.
  `process()` returns: everything it calls is bounded. Clients owe nothing.
* Video server: `ThreadSpec` has the camera taking pictures, both threads running
  and, likewise, a fair mutex; writes have no fairness of their own, since a
  client that does not read blocks them. `RequestServed` assumes the reading
  client in its own statement (`ClientsRead`), `CameraNotHeldUp` does not.
* Voice: timers fire and a loop that was told to exit exits. The network owes
  nothing: `WaitEnds` rests on the timer alone.

## 5. Findings

1. `db_refusal` - `db.cpp:87` tests `led<0`, but the error codes of SQLite are
   positive. A registration of a name that is taken is answered `register ok`,
   though `db.cpp:89` has the branch for `register error`.
2. `db_crosstalk` - `sendData` (`db.cpp:171-180`) composes the reply in the member
   `msg1`. Two workers in it: the client with the wrong password gets the
   other's `login ok` and account data, where `db.cpp:161` has `login error` for it.
3. `video_hangup` - the comment in `srv.c:28-30` describes `if (ret <= 0) return
   -1`, and `main.c:160-163` disconnects the client on that; the code ignores
   `read` and returns 0, so a hang-up is answered with writes until SIGPIPE.

Observations the models reproduce and the properties name as exceptions, without
a sentence in the repository that says otherwise:

* a second request on a login connection is never read (`modfd` has no caller);
* a descriptor reused between `removefd` and `m_sockfd = -1` leaves the new
  client with `m_sockfd` -1: it is read by nobody and closed by nobody;
* after `show_error` the loop falls through to `init`, which counts a user that
  was refused; from then on "busy" comes one client earlier;
* a client in the backlog whose edge was merged waits for the next client;
* a login for an unknown user reads beyond SQLite's result table;
* a video closed while its socket is still connecting keeps asking for pictures;
* an input given while another waits replaces its request, and the answer to the
  later one is acted upon twice;
* a login with an empty name or password is sent after the warning about it;
* a request in two segments is completed with what the buffer held before;
* a registration whose fields have 981 to 1010 bytes together fits in `m_read_buf`
  but its `INSERT` not in `sql[1024]` (`db.cpp:76-78`), and neither does the `SELECT`
  of a login with a name of 962 bytes or more (119-120): the stack is overwritten;
* `user_register` prints and frees `zErrMsg` (`db.cpp:83-84`), which another worker
  may have freed or set in the meantime;
* a video server that ends between two pictures crashes the application if a tick
  of the timer comes before `msdisconnected`: `updatepic` finds nothing to read and
  goes on through `mysocket`, which is `NULL` by then;
* each picture sent leaks its copy (`srv.c:75`), until `malloc` returns `NULL`;
* after a reset of the device `num` is 0 and the air conditioner where it was.

The 32-bit difference `millis() - prev` is sound across the wrap-around although
`prev` is an `int`: `ReportsOnTime` holds, and the comparison of sums breaks it.

## 6. What is proved

### The thread pool

`ThreadPoolProofs` proves, for every finite set of workers, every set of requests,
every limit above 0 and every number of interrupted waits (`PoolAssumption`,
nothing else):

| Theorem | Statement | From |
|---|---|---|
| `TypeCorrect` | `Spec => []TypeOK` | `Typed /\ QueueLocked` is inductive, `Typed` = `TypeOK` and `LocalsSet` |
| `LockDiscipline` | `Spec => []QueueLocked` | the same invariant |
| `BoundHolds` | `Spec => []QueueBound` | `Typed`, `QueueLocked` and itself |
| `NoLostWakeup` | `Spec => []TokenBalance` | `Typed`, `QueueLocked` and itself |
| `Implements` | `Spec => ImplementsRequestQueue` | `Typed`, `QueueLocked`, `QueueBound` |

The argument. `TypeOK` is not inductive: that `queue` stays a sequence of requests
needs `append` to hold a request when it pushes and `pop_front` to find an
element. `LocalsSet` says that locals are set where they are used, and the second
conjunct of `QueueLocked` gives the element, so that the two are proved together,
one lemma each (`TypedStep`, `LockedStep`). `QueueLocked` must carry its second conjunct (a worker at `pop` has
read the present head): with exclusion alone, `PopFront` would not be known to
find the list non-empty. That conjunct survives a push, because a push is at the
other end, and it survives another worker's pop because the lock excludes it.
`QueueBound` is stronger at the control point `push` than elsewhere (there is
still room for one), which is what carries the test of `append` across to
`push_back`: between the two only `PopFront` could change the list, and may not.
`TokenBalance` counts the set `Coming` of workers between `sem_wait` and
`pop_front`; lemmas on its cardinality say that a worker entering adds one, one
leaving takes one away, and a step within leaves it as it was (finiteness of
`Workers` is used here and nowhere else). With them every action is arithmetic:
`SemWait` turns a token into a comer, `AppendPush` an element and a post due,
`FoundEmpty` removes a comer, which is allowed since the list is empty. For
`Implements` each step is mapped: `AppendPush` to `Submit` (`QueueBound` says there is room), `PopFront` to `Take`,
`Process` to `Finish`, the others to stutters.

### The login server

`LoginServerProofs` proves, for any connections, any number of messages and
hang-ups, any finite sets of descriptors and workers, any limit of the queue and
any `MAX_FD`, from `ServerAssumption` alone:

| Theorem | Statement | From |
|---|---|---|
| `TypeCorrect` | `Spec => []TypeOK` | `LoginInv` |
| `DescriptorsOwn` | `Spec => []OwnDescriptor` | `LoginInv` |
| `RequestKept` | `Spec => []RequestKeepsConnection` | `LoginInv` |
| `AnsweredOnce` | `Spec => []AtMostOneAnswer` | `LoginInv` |
| `AbandonedKnown` | `Spec => []AbandonedOnlyByKnownCauses` | `LoginInv` |
| `PartiesApart` | `Spec => []OneParty` | `Single`, and counting |
| `CountBounded` | `Spec => []CountDrift` | `LoginInv`, `Drift` |

The argument. That one party has a descriptor and that descriptors are used
again are shown together, since each needs the other: `accept` gives a number
to a new client the moment it is closed, and the new client would have a second
owner if the thread that closed it still had the descriptor in hand. `Single`
says that no descriptor is in two places, `Closed` that a closed one is in none,
except in the hands of `main()` between `show_error` and `init`. `Single` needs
`OwnDescriptor` (otherwise a thread could close another's descriptor),
`RequestKeepsConnection` needs `Single` and `Closed` (the descriptor is open, and
nobody else reads into its object), and that `accept` takes a free number is
lemma `LowestFreeIsFree`, from the well-foundedness of `<` on the numbers.
`Argument` covers the values read before a call: `process` reads `m_sockfd` and
passes it on, so that a -1 in a worker's `connFd` is still a -1 in the object.
`AtMostOneAnswer` is not inductive: `Fresh` says that a connection whose request
is still ahead (registered, pending, queued, being processed: `Unserved`) has no
answer so far, and `Distinct` that a connection is behind one descriptor or in
the backlog. `OneParty` counts the entries of queue and batch; `Single` says the
same with quantifiers, and `PartiesApart` derives one from the other.
`CountDrift` compares `m_user_count` with numbers of open descriptors, so that its
invariant counts the threads on their way as well: `Closing`, those that will
decrement for a connection that is closed, and `Late`, those that will do so
for an object that has lost its `m_sockfd` since it was tested. `AtMost`
and `AtLeast` are the two bounds with these sets, and every action moves one
element from one set to another, or none. Finite `Workers` are used here
only: the constructor of the pool takes an `int`.

### The user data base

`UserDBProofs` proves, for any number of workers, users and passwords
(`DBInv`, six conjuncts, is the inductive invariant):

| Theorem | Statement | From |
|---|---|---|
| `TypeCorrect` | `Spec => []TypeOK` | `TypeOK /\ Serving` |
| `Harmless` | `Spec => []HarmlessUnlessMet` | `DBInv` |
| `LoginChecked` | `Spec => []PasswordChecked` | `DBInv` |
| `RowsKept` | `Spec => [][...]_vars`: a row that is there stays as it is | `DBInv` |

`HarmlessUnlessMet` speaks of the message on the wire. The invariant says how far
`msg1` has got at each line of `sendData` (`OwnMessage`), and that two workers
between the same lines know of each other (`MeetingsSeen`); a worker that has
met nobody is thus the only one there, and nobody else writes `msg1`.
`OwnError` is the same for `zErrMsg`. `RowsKept` is why the password compared by
`Select` is still the stored one when the reply is sent.

### The text of the messages

`AccountProtocolProofs` proves, for any names and passwords, fields of any length
and any number of sessions, requests and odd requests (`AccountAssumption`: the
lengths of the three words that matter, and `m_read_buf` no longer than the other
arrays):

| Theorem | Statement | From |
|---|---|---|
| `TypeCorrect` | `Spec => []TypeOK` | `AccountInv` |
| `AccountOwn` | `Spec => []OwnAccount` | `AccountInv` |
| `CrashesKnown` | `Spec => []CrashesInKnownWays` | `AccountInv` |

The argument follows a request. `Holds(text, r)` says that `text` begins with the
command and the fields of `r`, each with its comma: it is true of what is sent
first (`TextHolds`), remains true when another request joins it (`SentOn`) and when it
is written over whatever the buffer has (`WrittenOver`, `ReceivedAll`), since
only the last token of a text, the one without a comma, can be glued to a rest.
So a request that came whole is found by `strsep` as it was typed
(`FieldsFound`): no field is missing, and what is written to `sql` is made of the
fields as typed, so that it overruns only where `TooLong` says so, which is
`CrashesInKnownWays`; and the answer
has the fields of the request or of its row (`Answered`, `Rows`). It has all of
them: a registration that `m_read_buf` had room for leaves room for its
answer (`RegisterFits`), so that the account of a row that is as typed is `Short` and
goes out whole (`AnswerFits`). `Plain` gives the fields the page would send.

### The video server

`VideoServerProofs` proves, for any number of buffers requested and granted, of
discarded and later pictures, of clients and their requests (`VideoAssumption`:
at least one buffer is asked for, and `NULL` is no address that `malloc` returns):

| Theorem | Statement | From |
|---|---|---|
| `TypeCorrect` | `Spec => []TypeOK` | `VideoInv` |
| `BuffersKept` | `Spec => []BuffersConserved` | `Buffers` |
| `PicturesInOrder` | `Spec => []Ordered` | `VideoInv` |
| `MutexHeld` | `Spec => []Exclusion` | `VideoInv` |
| `Implements` | `Spec => ImplementsPictureService` | `VideoInv` |

The argument. That an answer is one whole picture, not older than the request and
none of the first, is a statement about a copy that is made while the camera
thread goes on. `Exclusion` says who is in the critical section; `Public` that
`*jpg` is one picture whenever the camera thread has not the mutex, and how far
it is written when it has; `Copying` what the server thread has of it. `Ordered`
(the driver's buffers hold consecutive pictures, the one in `rgb` is the last
dequeued) makes the next one published newer than the last, and `Counted` that
none of those to discard is. `Buffers` is `BuffersConserved` with sets and
lengths: as many entries in the two queues and the thread's hand as buffers, and
every buffer among them, hence each once. `Allocated` is the reason why
nothing is read or written through `NULL`. Each step is then mapped: the store of
the length to a publication, the read of a request to a request, the end of the
copy to an answer, the others to stutters.

### The video page

`VideoClientProofs` proves, for any number of openings and pictures:

| Theorem | Statement | From |
|---|---|---|
| `TypeCorrect` | `Spec => []TypeOK` | `TypeOK /\ Numbered` |
| `StaysInStep` | `Spec => []InStep` | `ClientInv` |
| `ShownWhole` | `Spec => []PictureShownWhole` | `ClientInv` |
| `Stopped` | `Spec => []ClosedIsStopped` | `Ticking` |
| `SurvivesNoted` | `Spec => []SurvivesNotedLoss` | `Ticking` |

`InStep` holds only where `updatepic` has returned. `Exchange` says what is on the
way at each stage of it: nothing, or one answer, whose header comes first and
whose parts are all of one picture, and in the body as many parts as are still
called for. So reading what is called for leaves nothing behind.

### The voice input

`VoiceInputProofs` proves, for any number of inputs:

| Theorem | Statement | From |
|---|---|---|
| `TypeCorrect` | `Spec => []TypeOK` | `TypeOK /\ Linked` |
| `WaitHasAnEnd` | `Spec => []SomethingEndsTheWait` | `Linked` |
| `LateDropped` | `Spec => []LateAnswerDropped` | `VoiceInv` |
| `OwnAnswer` | `Spec => []OwnAnswerUnlessNested` | `VoiceInv` |

`Linked` says that the request in `m_reply` is the last one posted, the only one
still connected to the object, and has a timer: whatever `stop()` has cut off
cannot answer. `Answers` carries that to each call on the C++ stack and to what
has been acted on: an answer there is the call's own, or a later one if the call
was nested in, and was not given up.

### The device

`DeviceProofs` proves, for a table of any length, any number of presses and
faults, and any interval and width of the clock that one interval and the longest
iteration fit in (`DeviceAssumption`, nothing else):

| Theorem | Statement | From |
|---|---|---|
| `TypeCorrect` | `Spec => []TypeOK` | `TypeOK` is inductive |
| `Punctual` | `Spec => ReportsOnTime` | `TypeOK`, `ClockInv` |
| `SwitchesObeyed` | `Spec => []SwitchesAsAsked` | `TypeOK`, `SwitchInv` = `Subscribed /\ Latest /\ Obeyed` |
| `TemperatureObeyed` | `Spec => []TemperatureAsAsked` | `TypeOK`, `Subscribed`, `PathInv` |

The argument. *Reports*: the test in the code subtracts two numbers of limited
width, the property speaks of time that has no width. `ClockInv` ties them: `now -
prev` modulo `Wrap` is `since`, and `since` is less than `Wrap`: from the start by
its definition, later because a report comes within one interval and one
iteration. So the remainder is the time itself and `Due` is the
test it should be; this is where the assumption on the width is used, and
the reason why `prev` may be an `int`. *Switches*: the property speaks of the moment
when nothing is under way; on the way there a delta may repeat what other
buttons had asked for. `Latest` says that a delta's value for a field is the
desired one unless a later delta belongs to that field (so a repetition is harmless),
`Subscribed` that without a subscription nothing is under way, and `Obeyed` that a
field for which no delta is under way and none was lost has been obeyed. It is stated
with `NoneOwns` (no delta was sent for the field), which is weaker than the
property's `~Carries` and is what a callback preserves. *Temperature*: steps
do not commute with the ends of the table, so the sum of what is under
way is not enough. `PathInv` asserts a path of temperatures, one per delta under
way, each the effect of its delta on the one before, that ends at `asked` and,
unless a step was lost or repeated, begins at `num`: a press extends it, a
callback takes its first step, a loss drops it.

### Only model-checked

The liveness properties `EventuallyProcessed`, `RequestsAnswered`,
`CameraNotHeldUp`, `RequestServed`, `WaitEnds` and `ListensAgain`: fairness and
`ENABLED` are out of the prover's reach. The three runs that expect a violation
are counterexamples, for which an instance is enough. Every other property
of a run is the statement of a theorem.

No model uses recursion. `AccountProtocol` adds to `wire` request by request, and
does not concatenate a list of them when it is received: what a fold computes
could only be shown by induction over the list.

## 7. What is not modelled

* `cond` (`locker.h`), `tcp_server_recv*/send*` and the client half of `tcp.c`,
  `HTTP::get`, `getNetworkAddressEntry`, `getDeviceName`, `setDevice`: no caller.
* `~threadpool`, `camera_stop`, `camera_exit`, `convert_rgb_to_jpg_exit`: not
  reached in a running server (the destructor only as `main()` returns).
* Start-up (socket, bind, epoll creation) and the end of `main()` after a failing
  `epoll_wait`: sequential, ends in `exit` or `return`.
* Pixel conversion and compression; a picture is one value in two halves.
* TCP below the socket: lost answers under linger 0, an answer in two segments.
* Wording and layout of the phone's pages; the display of MQTT messages and the
  button that subscribes to them; the audio device; SQLite inside; names and
  passwords with quotation marks in them.
* What memory that was written beyond its end (`m_threads`, `sql`, `sendmsg`, `msg1`)
  does later: nothing is seen of it, or the process ends there and then, or
  when the function returns.
* The hub: what it does with the shadow is assumed, as `Device.tla` says. The sensor
  and the infrared codes.
* A driver that grants more buffers than `REQBUFS_COUNT`.

Abstractions to know of: a client connects once (a reconnecting phone is another
member of `Conns`); the V4L2 driver
drops pictures silently when it has no buffer; `waitForReadyRead` delivers a
header in one piece (20 bytes in one segment); `sqlite3_*` calls are atomic;
the bytes behind a full `m_read_buf` are zero, as in fresh memory.

## 8. Plan

Done: all modules of section 2, the runs of section 4, and a theorem for every
safety property of a run, with the refinements of `RequestQueue` and
`PictureService`.

Next:

1. Action properties that no run checks, from the invariants at hand, as `RowsKept` is:
   for the login server, that a connection once closed is never answered, and that
   an object's `m_sockfd` changes only in the hands of the descriptor's owner; for the
   pool, that the order of the queue is kept.
2. The safety core of the liveness arguments, where it can be stated without
   fairness: that the pool cannot come to rest with a request in the queue, nor the
   login server with a registered client.
