---------------------------- MODULE VideoServer ----------------------------
(***************************************************************************)
(* QtVideoServer: the camera thread (thread_cam with camera.c and          *)
(* convert.c) takes pictures out of the buffers it shares with the V4L2    *)
(* driver, and publishes each as a JPEG in *jpg under jpg_mutex; the       *)
(* server thread (thread_srv with tcp.c and client_process) copies the     *)
(* published picture under the mutex and writes it to its client without.  *)
(* Pictures are numbered in the order the driver takes them; 0 stands for  *)
(* the zeroed memory before the first.  The driver, the network and the    *)
(* clients are external.                                                   *)
(***************************************************************************)
EXTENDS Integers, Sequences, FiniteSets

CONSTANTS
  ReqBufs,      \* REQBUFS_COUNT, the buffers asked of the driver (4)
  Clients,      \* the phones; each connects once
  Nobody,       \* no client is being served
  Null,         \* jpg before it is allocated
  Discards,     \* the first pictures, thrown away (8 in the code)
  MaxFrames,    \* bound: pictures the camera takes
  MaxRequests   \* bound: pictures a client asks for

Frames == 0 .. MaxFrames
Bufs == 0 .. ReqBufs - 1
Pictures == [head : Frames, tail : Frames, len : Frames]

ASSUME VideoAssumption ==
  /\ ReqBufs \in Nat \ {0}
  /\ Nobody \notin Clients
  /\ Null \notin Pictures
  /\ Discards \in Nat /\ MaxFrames \in Nat /\ MaxRequests \in Nat

VARIABLES
  \* the driver
  frame,      \* the last picture taken
  incoming,   \* buffers waiting to be filled
  outgoing,   \* buffers filled and not dequeued
  content,    \* the picture in each buffer it has granted
  \* the clients
  state,      \* of each client: "new", "waiting" or "lost" before it is
              \* accepted, "served" or "gone" after
  asking,     \* clients whose request the server has not read
  asks,       \* number of requests of each client
  \* shared by the threads
  jpg,        \* the published picture, in two parts and its length, or Null
  mutex,      \* who holds jpg_mutex: "cam", "srv" or "free"
  \* the camera thread
  cam,        \* where it is
  index,      \* the buffer it has dequeued
  rgb,        \* the picture it has converted
  discarded,  \* the loop counter i
  \* the server thread
  srv,        \* where it is
  peer,       \* whom connfd leads to
  jpgArg,     \* the argument jpg of client_process
  piclen,     \* the length read, standing for the picture it belongs to
  buf,        \* the copy, in two parts
  asked,      \* the picture that was public when the request was read
  died        \* how the process ended, or "no"

driverVars == <<frame, incoming, outgoing, content>>
clientVars == <<state, asking, asks>>
camVars == <<cam, index, rgb, discarded>>
srvVars == <<srv, peer, jpgArg, piclen, buf, asked>>
vars == <<driverVars, clientVars, jpg, mutex, camVars, srvVars, died>>

TypeOK ==
  /\ frame \in Frames
  /\ incoming \in Seq(Bufs) /\ outgoing \in Seq(Bufs)
  /\ DOMAIN content \subseteq Bufs /\ \A b \in DOMAIN content : content[b] \in Frames
  /\ state \in [Clients -> {"new", "waiting", "lost", "served", "gone"}]
  /\ asking \subseteq Clients
  /\ asks \in [Clients -> 0 .. MaxRequests]
  /\ jpg \in Pictures \cup {Null}
  /\ mutex \in {"cam", "srv", "free"}
  /\ cam \in {"init", "malloc", "dqbuf", "discard", "convert", "lock", "head",
              "tail", "len", "eqbuf"}
  /\ index \in Bufs
  /\ rgb \in Frames
  /\ discarded \in 0 .. Discards
  /\ srv \in {"init", "accept", "call", "read", "lock", "copy", "copy2", "header",
              "body"}
  /\ peer \in Clients \cup {Nobody}
  /\ jpgArg \in {"null", "set"}
  /\ piclen \in Frames
  /\ buf \in [head : Frames, tail : Frames]
  /\ asked \in Frames
  /\ died \in {"no", "null", "sigpipe", "exit"}

Init ==
  /\ frame = 0 /\ incoming = <<>> /\ outgoing = <<>>
  /\ content = <<>>
  /\ state = [c \in Clients |-> "new"]
  /\ asking = {}
  /\ asks = [c \in Clients |-> 0]
  /\ jpg = Null /\ mutex = "free"
  /\ cam = "init" /\ index = 0 /\ rgb = 0 /\ discarded = 0
  /\ srv = "init" /\ peer = Nobody /\ jpgArg = "null" /\ piclen = 0
  /\ buf = [head |-> 0, tail |-> 0] /\ asked = 0
  /\ died = "no"

-----------------------------------------------------------------------------
(* The driver fills its buffers in the order they were queued, and drops   *)
(* the pictures for which it has none (they get no number).                *)
Fill ==
  /\ died = "no"
  /\ incoming # <<>>
  /\ frame < MaxFrames
  /\ frame' = frame + 1
  /\ content' = [content EXCEPT ![Head(incoming)] = frame + 1]
  /\ incoming' = Tail(incoming)
  /\ outgoing' = Append(outgoing, Head(incoming))
  /\ UNCHANGED <<clientVars, jpg, mutex, camVars, srvVars, died>>

(* The clients: connect, ask for the next picture when the last one has    *)
(* come (updatepic of the phone application waits for it), hang up.        *)
Connect(c) ==
  /\ state[c] = "new"
  /\ srv # "init"
  /\ state' = [state EXCEPT ![c] = "waiting"]
  /\ UNCHANGED <<driverVars, asking, asks, jpg, mutex, camVars, srvVars, died>>

Ask(c) ==
  /\ state[c] \in {"waiting", "served"}
  /\ c \notin asking
  /\ peer = c => srv \in {"call", "read"}
  /\ asks[c] < MaxRequests
  /\ asking' = asking \cup {c}
  /\ asks' = [asks EXCEPT ![c] = @ + 1]
  /\ UNCHANGED <<driverVars, state, jpg, mutex, camVars, srvVars, died>>

HangUp(c) ==
  /\ \/ state[c] = "waiting" /\ state' = [state EXCEPT ![c] = "lost"]
     \/ state[c] = "served" /\ state' = [state EXCEPT ![c] = "gone"]
  /\ UNCHANGED <<driverVars, asking, asks, jpg, mutex, camVars, srvVars, died>>

-----------------------------------------------------------------------------
(* The camera thread.                                                      *)

CamGoes(from, to) ==
  /\ died = "no"
  /\ cam = from
  /\ cam' = to

(* camera_init maps and queues the buffers the driver grants, which may be *)
(* fewer than it has asked for, in the order of their index; camera_start  *)
(* starts the driver.  Their failures are in CamFails.                     *)
CamInit ==
  /\ CamGoes("init", "malloc")
  /\ \E granted \in 1 .. ReqBufs :
       /\ content' = [b \in 0 .. granted - 1 |-> 0]
       /\ incoming' = [i \in 1 .. granted |-> i - 1]
  /\ UNCHANGED <<frame, outgoing, clientVars, jpg, mutex, index, rgb, discarded,
                 srvVars, died>>

(* malloc of a megabyte: fresh pages, all zero.                            *)
CamMalloc ==
  /\ CamGoes("malloc", "dqbuf")
  /\ jpg' = [head |-> 0, tail |-> 0, len |-> 0]
  /\ UNCHANGED <<driverVars, clientVars, mutex, index, rgb, discarded, srvVars,
                 died>>

(* Mutant: the first loop runs once too often. *)
DqbufOneMore ==
  /\ CamGoes("dqbuf", IF discarded <= Discards THEN "discard" ELSE "convert")
  /\ outgoing # <<>>
  /\ index' = Head(outgoing)
  /\ outgoing' = Tail(outgoing)
  /\ UNCHANGED <<frame, incoming, content, clientVars, jpg, mutex, rgb, discarded,
                 srvVars, died>>

(* camera_dqbuf returns once a buffer is filled; a timeout of its select   *)
(* just starts over.                                                       *)
Dqbuf ==
  /\ CamGoes("dqbuf", IF discarded < Discards THEN "discard" ELSE "convert")
  /\ outgoing # <<>>
  /\ index' = Head(outgoing)
  /\ outgoing' = Tail(outgoing)
  /\ UNCHANGED <<frame, incoming, content, clientVars, jpg, mutex, rgb, discarded,
                 srvVars, died>>

(* Mutant: the buffer of a discarded picture is not queued again. *)
DiscardLeaks ==
  /\ CamGoes("discard", "dqbuf")
  /\ discarded' = discarded + 1
  /\ UNCHANGED <<frame, incoming, outgoing, content, clientVars, jpg, mutex, index,
                 rgb, srvVars, died>>

(* camera_eqbuf, of a picture of the first loop ...                        *)
Discard ==
  /\ CamGoes("discard", "dqbuf")
  /\ discarded' = discarded + 1
  /\ incoming' = Append(incoming, index)
  /\ UNCHANGED <<frame, outgoing, content, clientVars, jpg, mutex, index, rgb,
                 srvVars, died>>

(* ... and of the second.                                                  *)
Eqbuf ==
  /\ CamGoes("eqbuf", "dqbuf")
  /\ incoming' = Append(incoming, index)
  /\ UNCHANGED <<frame, outgoing, content, clientVars, jpg, mutex, index, rgb,
                 discarded, srvVars, died>>

(* convert_yuv_to_rgb reads the mapped buffer.                             *)
Convert ==
  /\ CamGoes("convert", "lock")
  /\ rgb' = content[index]
  /\ UNCHANGED <<driverVars, clientVars, jpg, mutex, index, discarded, srvVars, died>>

CamLock ==
  /\ CamGoes("lock", "head")
  /\ mutex = "free"
  /\ mutex' = "cam"
  /\ UNCHANGED <<driverVars, clientVars, jpg, index, rgb, discarded, srvVars, died>>

(* convert_rgb_to_jpg_work writes jpg->buf line by line ...                *)
EncodeHead ==
  /\ CamGoes("head", "tail")
  /\ jpg' = [jpg EXCEPT !.head = rgb]
  /\ UNCHANGED <<driverVars, clientVars, mutex, index, rgb, discarded, srvVars, died>>

EncodeTail ==
  /\ CamGoes("tail", "len")
  /\ jpg' = [jpg EXCEPT !.tail = rgb]
  /\ UNCHANGED <<driverVars, clientVars, mutex, index, rgb, discarded, srvVars, died>>

(* Mutant: no unlock. *)
SetLenLocked ==
  /\ CamGoes("len", "eqbuf")
  /\ jpg' = [jpg EXCEPT !.len = rgb]
  /\ UNCHANGED <<driverVars, clientVars, mutex, index, rgb, discarded, srvVars, died>>

(* ... and returns the length; unlock.                                     *)
SetLen ==
  /\ CamGoes("len", "eqbuf")
  /\ jpg' = [jpg EXCEPT !.len = rgb]
  /\ mutex' = "free"
  /\ UNCHANGED <<driverVars, clientVars, index, rgb, discarded, srvVars, died>>

(* Any call to the driver may fail: exit(EXIT_FAILURE).                    *)
CamFails ==
  /\ died = "no"
  /\ cam \in {"init", "malloc", "dqbuf", "discard", "eqbuf"}
  /\ died' = "exit"
  /\ UNCHANGED <<driverVars, clientVars, jpg, mutex, camVars, srvVars>>

-----------------------------------------------------------------------------
(* The server thread.                                                      *)

SrvGoes(from, to) ==
  /\ died = "no"
  /\ srv = from
  /\ srv' = to

(* tcp_server_init: a server thread that cannot listen ends the process.   *)
SrvInit ==
  /\ SrvGoes("init", "accept")
  /\ UNCHANGED <<driverVars, clientVars, jpg, mutex, camVars, peer, jpgArg, piclen,
                 buf, asked, died>>

SrvInitFails ==
  /\ SrvGoes("init", "init")
  /\ died' = "exit"
  /\ UNCHANGED <<driverVars, clientVars, jpg, mutex, camVars, peer, jpgArg, piclen,
                 buf, asked>>

(* tcp_server_wait_connect; the client may have hung up already.           *)
Accept(c) ==
  /\ SrvGoes("accept", "call")
  /\ state[c] \in {"waiting", "lost"}
  /\ state' = [state EXCEPT ![c] = IF @ = "lost" THEN "gone" ELSE "served"]
  /\ peer' = c
  /\ UNCHANGED <<driverVars, asking, asks, jpg, mutex, camVars, jpgArg, piclen, buf,
                 asked, died>>

(* client_process(connfd, jpg): the global is read before the call blocks. *)
Call ==
  /\ SrvGoes("call", "read")
  /\ jpgArg' = IF jpg = Null THEN "null" ELSE "set"
  /\ UNCHANGED <<driverVars, clientVars, jpg, mutex, camVars, peer, piclen, buf,
                 asked, died>>

(* read(connfd, msg, 3) returns a request, or 0 for the end of the file;   *)
(* nobody looks.                                                           *)
Read ==
  /\ SrvGoes("read", "lock")
  /\ peer \in asking \/ state[peer] = "gone"
  /\ asking' = asking \ {peer}
  /\ asked' = IF jpg = Null THEN 0 ELSE jpg.len
  /\ UNCHANGED <<driverVars, state, asks, jpg, mutex, camVars, peer, jpgArg, piclen,
                 buf, died>>

(* Mutant: no lock. *)
SrvNoLock ==
  /\ SrvGoes("lock", "copy")
  /\ UNCHANGED <<driverVars, clientVars, jpg, mutex, camVars, peer, jpgArg, piclen,
                 buf, asked, died>>

SrvLock ==
  /\ SrvGoes("lock", "copy")
  /\ mutex = "free"
  /\ mutex' = "srv"
  /\ UNCHANGED <<driverVars, clientVars, jpg, camVars, peer, jpgArg, piclen, buf,
                 asked, died>>

(* piclen = jpg->len through a null pointer, or memset and memcpy through  *)
(* that of a failed malloc(piclen): buf is never freed, a picture for each *)
(* request.                                                                *)
CopyCrashes ==
  /\ SrvGoes("copy", "copy")
  /\ jpgArg = "set" => jpg.len > 0
  /\ died' = "null"
  /\ UNCHANGED <<driverVars, clientVars, jpg, mutex, camVars, peer, jpgArg, piclen,
                 buf, asked>>

(* piclen = jpg->len, memcpy, unlock.                                      *)
Copy ==
  /\ SrvGoes("copy", "copy2")
  /\ jpgArg = "set"
  /\ piclen' = jpg.len
  /\ buf' = [buf EXCEPT !.head = jpg.head]
  /\ UNCHANGED <<driverVars, clientVars, jpg, mutex, camVars, peer, jpgArg, asked,
                 died>>

(* Mutant: the mutex is kept during the writes, and released never. *)
CopyRestLocked ==
  /\ SrvGoes("copy2", "header")
  /\ buf' = [buf EXCEPT !.tail = jpg.tail]
  /\ UNCHANGED <<driverVars, clientVars, jpg, mutex, camVars, peer, jpgArg, piclen,
                 asked, died>>

CopyRest ==
  /\ SrvGoes("copy2", "header")
  /\ buf' = [buf EXCEPT !.tail = jpg.tail]
  /\ mutex' = "free"
  /\ UNCHANGED <<driverVars, clientVars, jpg, camVars, peer, jpgArg, piclen, asked,
                 died>>

(* write of the header; there is no body when the length is 0.             *)
WriteHeader ==
  /\ SrvGoes("header", IF piclen = 0 THEN "call" ELSE "body")
  /\ UNCHANGED <<driverVars, clientVars, jpg, mutex, camVars, peer, jpgArg, piclen,
                 buf, asked, died>>

(* The loop that writes the body ends when all is written or on an error;  *)
(* client_process returns 0 either way and is called again.                *)
WriteBody ==
  /\ SrvGoes("body", "call")
  /\ UNCHANGED <<driverVars, clientVars, jpg, mutex, camVars, peer, jpgArg, piclen,
                 buf, asked, died>>

(* A write to a client that is gone may raise SIGPIPE, which nobody        *)
(* handles or ignores.                                                     *)
WriteKills ==
  /\ died = "no"
  /\ srv \in {"header", "body"}
  /\ state[peer] = "gone"
  /\ died' = "sigpipe"
  /\ UNCHANGED <<driverVars, clientVars, jpg, mutex, camVars, srvVars>>

-----------------------------------------------------------------------------
CameraThread ==
  \/ CamInit
  \/ CamMalloc
  \/ Dqbuf
  \/ Discard
  \/ Convert
  \/ CamLock
  \/ EncodeHead
  \/ EncodeTail
  \/ SetLen
  \/ Eqbuf

CopyUnderLock == CopyCrashes \/ Copy \/ CopyRest

Writes == WriteHeader \/ WriteBody \/ WriteKills

Next ==
  \/ Fill
  \/ \E c \in Clients : Connect(c) \/ Ask(c) \/ HangUp(c) \/ Accept(c)
  \/ CameraThread
  \/ CamFails
  \/ SrvInit \/ SrvInitFails
  \/ Call
  \/ Read
  \/ SrvLock
  \/ CopyUnderLock
  \/ Writes

Spec == Init /\ [][Next]_vars

(***************************************************************************)
(* Fairness.  The camera takes pictures, both threads run, and neither is  *)
(* passed over forever by the mutex (SF).  The writes have no fairness     *)
(* here: a client that does not read blocks them for as long as it likes.  *)
(***************************************************************************)
ThreadFairness ==
  /\ WF_vars(Fill)
  /\ WF_vars(CameraThread) /\ SF_vars(CamLock)
  /\ WF_vars(SrvInit) /\ WF_vars(Call) /\ WF_vars(Read)
  /\ WF_vars(CopyUnderLock) /\ SF_vars(SrvLock)

ThreadSpec == Spec /\ ThreadFairness

(* With clients that read what they are sent, the writes end.              *)
ClientsRead == WF_vars(Writes)

FairSpec == ThreadSpec /\ ClientsRead /\ WF_vars(\E c \in Clients : Accept(c))

-----------------------------------------------------------------------------
(***************************************************************************)
(* The server implements PictureService: each request read is answered at  *)
(* most once, with a whole picture (the length in the header and all of    *)
(* the body belong to one picture, although the camera thread writes       *)
(* jpg->buf piecemeal and the server writes to its client from a copy long *)
(* after it has given up the mutex), one not older than the picture that   *)
(* was public when the request was read (srv.c, lines 67-95; main.c,       *)
(* 121-123); pictures are published in the order they were taken, and "a   *)
(* few pictures are taken and thrown away": none of the first is published *)
(* or sent (main.c, lines 88-97).                                          *)
(***************************************************************************)
Service == INSTANCE PictureService WITH
  published <- IF jpg = Null THEN 0 ELSE jpg.len,
  pending   <- IF srv \in {"lock", "copy", "copy2"} THEN asked ELSE -1,
  answer    <- IF srv \in {"header", "body"}
               THEN [head |-> buf.head, tail |-> buf.tail, len |-> piclen]
               ELSE <<>>

ImplementsPictureService == Service!Spec

(***************************************************************************)
(* While the camera thread reads a buffer the driver cannot fill it, each  *)
(* buffer is in one place, and none is lost: there is no picture the       *)
(* thread converts that the driver overwrites meanwhile (main.c, lines     *)
(* 104-127; camera.c, lines 158-212).                                      *)
(***************************************************************************)
Holding == IF cam \in {"discard", "convert", "lock", "head", "tail", "len", "eqbuf"}
           THEN <<index>> ELSE <<>>

BuffersConserved ==
  cam # "init" =>
    LET all == incoming \o outgoing \o Holding IN
    /\ Len(all) = Cardinality(DOMAIN content)
    /\ {all[i] : i \in DOMAIN all} = DOMAIN content

(***************************************************************************)
(* A client that never reads what it is sent does not hold up the camera   *)
(* thread, for the server writes after it has released the mutex (srv.c,   *)
(* line 79; the code commented out above it wrote before).                 *)
(***************************************************************************)
CameraNotHeldUp == cam = "lock" ~> cam = "head" \/ died # "no"

(***************************************************************************)
(* A client that has been accepted, reads what it is sent and asks for a   *)
(* picture gets an answer, unless it hangs up or the process ends (main.c, *)
(* lines 157-166).                                                         *)
(***************************************************************************)
RequestServed ==
  ClientsRead =>
    \A c \in Clients :
      c \in asking /\ peer = c ~>
        \/ peer = c /\ srv = "header"
        \/ state[c] = "gone"
        \/ died # "no"

(***************************************************************************)
(* When the client hangs up the server goes back to accept: "if (ret <= 0) *)
(* return -1" in the comment of srv.c, lines 28-30, and the branch of      *)
(* thread_srv that disconnects the client (main.c, lines 160-163).         *)
(***************************************************************************)
HangUpNoticed ==
  \A c \in Clients :
    peer = c /\ state[c] = "gone" ~> srv = "accept" \/ died = "exit"

=============================================================================
