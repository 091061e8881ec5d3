----------------------------- MODULE VideoClient -----------------------------
(***************************************************************************)
(* The video page of the phone application (proclient/widget.cpp, lines    *)
(* 417-533): the two buttons, the slots of the socket and the timer, and   *)
(* updatepic(), which asks the video server for a picture and blocks the   *)
(* application until all of it has come.  While it blocks only the signals *)
(* of the socket it waits on are delivered.  Qt's sockets and timers, the  *)
(* network and the server, which answers a request with a header and a     *)
(* body in two parts (or, before the first picture, a header that says     *)
(* length 0), are external.                                                *)
(***************************************************************************)
EXTENDS Naturals, Sequences

CONSTANTS
  MaxOpens,    \* bound: sockets the user has opened
  MaxPictures  \* bound: pictures the server sends

ASSUME ClientAssumption == MaxOpens \in Nat /\ MaxPictures \in Nat

VARIABLES
  enabled,    \* which of the buttons openvideo and closevideo is enabled
  sock,       \* mysocket, NULL or the state of the socket it points to
  timer,      \* timer: the number of the QTimer it points to, 0 before
  active,     \* the QTimers that are active
  pc,         \* updatepic: not running, waiting for the header, in the loop
  parts,      \* the parts piclen still calls for
  picbuf,     \* the parts read
  shown,      \* what the label shows
  stream,     \* received and not read
  \* the server and the network
  asked,      \* requests the server has not read
  sending,    \* what the server has still to send
  picture,    \* number of the last picture sent
  down,       \* the server has closed the connection
  \* outcome and history
  crash,      \* the application has used NULL or an uninitialised pointer
  opens,      \* sockets opened
  early,      \* a button was pressed before the first timer was created
  stray       \* a timer was started beside an active one, or while closed

buttonVars == <<enabled, opens, early>>
picVars == <<pc, parts, picbuf, shown>>
linkVars == <<stream, asked, sending, picture, down>>
vars == <<buttonVars, sock, timer, active, picVars, linkVars, crash, stray>>

Parts == [pic : 1 .. MaxPictures, kind : {"empty", "header", "part"}]

TypeOK ==
  /\ enabled \in {"open", "close"}
  /\ sock \in {"null", "connecting", "connected", "unconnected"}
  /\ timer \in 0 .. MaxOpens
  /\ active \subseteq 1 .. timer
  /\ pc \in {"idle", "header", "body"}
  /\ parts \in 0 .. 2
  /\ picbuf \in Seq(1 .. MaxPictures)
  /\ shown \in Seq(1 .. MaxPictures)
  /\ stream \in Seq(Parts) /\ sending \in Seq(Parts)
  /\ asked \in Nat
  /\ picture \in 0 .. MaxPictures
  /\ down \in BOOLEAN /\ crash \in BOOLEAN
  /\ opens \in 0 .. MaxOpens
  /\ early \in BOOLEAN /\ stray \in BOOLEAN

Init ==
  /\ enabled = "open" /\ sock = "null"
  /\ timer = 0 /\ active = {}
  /\ pc = "idle" /\ parts = 0 /\ picbuf = <<>> /\ shown = <<>>
  /\ stream = <<>> /\ asked = 0 /\ sending = <<>> /\ picture = 0 /\ down = FALSE
  /\ crash = FALSE /\ opens = 0
  /\ early = FALSE /\ stray = FALSE

(* The event loop of the application runs a handler.                       *)
EventLoop == ~crash /\ pc = "idle"

-----------------------------------------------------------------------------
(* The buttons.                                                            *)

OpenNew ==
  /\ EventLoop
  /\ enabled = "open" /\ enabled' = "close"
  /\ sock = "null" /\ sock' = "connecting"
  /\ opens < MaxOpens /\ opens' = opens + 1
  /\ stream' = <<>> /\ asked' = 0 /\ sending' = <<>> /\ down' = FALSE
  /\ UNCHANGED <<early, timer, active, picVars, picture, crash, stray>>

OpenAgain ==
  /\ EventLoop
  /\ enabled = "open" /\ enabled' = "close"
  /\ sock # "null"
  /\ timer # 0
  /\ active' = active \cup {timer}
  /\ UNCHANGED <<opens, early, sock, timer, picVars, linkVars, crash, stray>>

(* Mutant: the timer goes on. *)
CloseVideoTicking ==
  /\ EventLoop
  /\ enabled = "close" /\ enabled' = "open"
  /\ timer # 0
  /\ shown' = <<>>
  /\ UNCHANGED <<opens, early, sock, timer, active, pc, parts, picbuf, linkVars,
                 crash, stray>>

(* The socket stays connected.                                             *)
CloseVideo ==
  /\ EventLoop
  /\ enabled = "close" /\ enabled' = "open"
  /\ timer # 0
  /\ active' = active \ {timer}
  /\ shown' = <<>>
  /\ UNCHANGED <<opens, early, sock, timer, pc, parts, picbuf, linkVars, crash, stray>>

(* timer is not initialised before the first msconnected: the call through *)
(* it ends the process, or does nothing that is seen.                      *)
PressEarly ==
  /\ EventLoop
  /\ sock # "null" /\ timer = 0
  /\ enabled' = IF enabled = "open" THEN "close" ELSE "open"
  /\ early' = TRUE
  /\ crash' \in BOOLEAN
  /\ UNCHANGED <<opens, sock, timer, active, picVars, linkVars, stray>>

-----------------------------------------------------------------------------
(* The slots of the socket.                                                *)

(* msconnected: always a new timer.                                        *)
NewTimer ==
  /\ timer' = timer + 1
  /\ active' = active \cup {timer + 1}
  /\ stray' = (stray \/ active # {} \/ enabled = "open")

Msconnected ==
  /\ EventLoop
  /\ sock = "connecting" /\ sock' = "connected"
  /\ NewTimer
  /\ UNCHANGED <<buttonVars, picVars, linkVars, crash>>

(* The connection is refused or times out; no slot is connected to error.  *)
ConnectFails ==
  /\ EventLoop
  /\ sock = "connecting" /\ sock' = "unconnected"
  /\ UNCHANGED <<buttonVars, timer, active, picVars, linkVars, crash, stray>>

(* Mutant: the timer is not stopped. *)
MsdisconnectedTicking ==
  /\ EventLoop
  /\ sock = "connected" /\ down
  /\ sock' = "null"
  /\ enabled' = "open"
  /\ UNCHANGED <<opens, early, timer, active, picVars, linkVars, crash, stray>>

(* The server has closed the connection between two pictures.              *)
Msdisconnected ==
  /\ EventLoop
  /\ sock = "connected" /\ down
  /\ sock' = "null"
  /\ active' = active \ {timer}
  /\ enabled' = "open"
  /\ UNCHANGED <<opens, early, timer, picVars, linkVars, crash, stray>>

-----------------------------------------------------------------------------
(* updatepic, the slot of every timer.                                     *)

Tick == EventLoop /\ active # {}

(* write and flush, then waitForReadyRead.                                 *)
Ask ==
  /\ Tick
  /\ sock = "connected"
  /\ asked' = asked + 1
  /\ pc' = "header"
  /\ UNCHANGED <<buttonVars, sock, timer, active, parts, picbuf, shown, stream,
                 sending, picture, down, crash, stray>>

(* On a socket that is still connecting, which the user can make tick by   *)
(* closing and opening the video again, waitForReadyRead first waits for   *)
(* the connection, and msconnected runs within updatepic.                  *)
AskConnecting ==
  /\ Tick
  /\ sock = "connecting" /\ sock' = "connected"
  /\ NewTimer
  /\ asked' = asked + 1
  /\ pc' = "header"
  /\ UNCHANGED <<buttonVars, parts, picbuf, shown, stream, sending, picture, down,
                 crash>>

(* Nothing can be written, read or closed through mysocket: it is NULL, or *)
(* updatepic makes it so on its error path and then calls close().         *)
AskFails ==
  /\ Tick
  /\ sock # "connected"
  /\ crash' = TRUE
  /\ UNCHANGED <<buttonVars, sock, timer, active, picVars, linkVars, stray>>

(* Nothing for 30 seconds, or the server hangs up or had done so before    *)
(* the tick, which waitForReadyRead finds out: msdisconnected or the error *)
(* path of updatepic has made mysocket NULL when it is used next.          *)
AnswerLost ==
  /\ ~crash
  /\ \/ pc = "header"
     \/ pc = "body" /\ parts > 0 /\ down
  /\ stream = <<>>
  /\ crash' = TRUE
  /\ UNCHANGED <<buttonVars, sock, timer, active, picVars, linkVars, stray>>

(* The header has come, in one piece.                                      *)
ReadHeader ==
  /\ ~crash
  /\ pc = "header" /\ pc' = "body"
  /\ stream # <<>> /\ stream' = Tail(stream)
  /\ parts' = IF Head(stream).kind = "header" THEN 2 ELSE 0
  /\ picbuf' = <<>>
  /\ UNCHANGED <<buttonVars, sock, timer, active, shown, asked, sending, picture,
                 down, crash, stray>>

(* Mutant: read to picbuf, not to picbuf + total. *)
ReadBodyOver ==
  /\ ~crash
  /\ pc = "body" /\ parts > 0
  /\ stream # <<>> /\ stream' = Tail(stream)
  /\ parts' = parts - 1
  /\ picbuf' = <<Head(stream).pic>>
  /\ UNCHANGED <<buttonVars, sock, timer, active, pc, shown, asked, sending,
                 picture, down, crash, stray>>

(* Mutant: one read, no loop. *)
ReadBodyOnce ==
  /\ ~crash
  /\ pc = "body" /\ parts > 0
  /\ stream # <<>> /\ stream' = Tail(stream)
  /\ parts' = 0
  /\ picbuf' = Append(picbuf, Head(stream).pic)
  /\ UNCHANGED <<buttonVars, sock, timer, active, pc, shown, asked, sending,
                 picture, down, crash, stray>>

(* Mutant: the loop asks for a byte too many. *)
ReadBodyOneMore ==
  /\ ~crash
  /\ pc = "body" /\ parts > 0
  /\ stream # <<>> /\ stream' = Tail(stream)
  /\ parts' = IF Head(stream).kind = "part" THEN parts + 1 ELSE parts
  /\ picbuf' = Append(picbuf, Head(stream).pic)
  /\ UNCHANGED <<buttonVars, sock, timer, active, pc, shown, asked, sending,
                 picture, down, crash, stray>>

(* The loop reads what there is, and waits (without a limit: the result of *)
(* waitForReadyRead is ignored) when there is nothing.                     *)
ReadBody ==
  /\ ~crash
  /\ pc = "body" /\ parts > 0
  /\ stream # <<>> /\ stream' = Tail(stream)
  /\ parts' = parts - 1
  /\ picbuf' = Append(picbuf, Head(stream).pic)
  /\ UNCHANGED <<buttonVars, sock, timer, active, pc, shown, asked, sending,
                 picture, down, crash, stray>>

Show ==
  /\ ~crash
  /\ pc = "body" /\ pc' = "idle"
  /\ parts = 0
  /\ shown' = picbuf
  /\ UNCHANGED <<buttonVars, sock, timer, active, parts, picbuf, linkVars, crash, stray>>

-----------------------------------------------------------------------------
(* The server and the network.                                             *)

Answer ==
  /\ sock = "connected" /\ ~down
  /\ asked > 0 /\ asked' = asked - 1
  /\ sending = <<>>
  /\ picture < MaxPictures /\ picture' = picture + 1
  /\ sending' \in {<<[pic |-> picture', kind |-> "empty"]>>,
                   <<[pic |-> picture', kind |-> "header"],
                     [pic |-> picture', kind |-> "part"],
                     [pic |-> picture', kind |-> "part"]>>}
  /\ UNCHANGED <<buttonVars, sock, timer, active, picVars, stream, down, crash, stray>>

Deliver ==
  /\ sock = "connected"
  /\ sending # <<>>
  /\ stream' = Append(stream, Head(sending))
  /\ sending' = Tail(sending)
  /\ UNCHANGED <<buttonVars, sock, timer, active, picVars, asked, picture, down,
                 crash, stray>>

(* The server ends, for it never closes a connection otherwise.            *)
ServerEnds ==
  /\ sock = "connected" /\ ~down
  /\ down' = TRUE
  /\ sending' = <<>>
  /\ UNCHANGED <<buttonVars, sock, timer, active, picVars, stream, asked, picture,
                 crash, stray>>

-----------------------------------------------------------------------------
Updatepic ==
  \/ Ask
  \/ AskConnecting
  \/ AskFails
  \/ AnswerLost
  \/ ReadHeader
  \/ ReadBody
  \/ Show

Next ==
  \/ OpenNew
  \/ OpenAgain
  \/ CloseVideo
  \/ PressEarly
  \/ Msconnected
  \/ ConnectFails
  \/ Msdisconnected
  \/ Updatepic
  \/ Answer
  \/ Deliver
  \/ ServerEnds

Spec == Init /\ [][Next]_vars

-----------------------------------------------------------------------------
(***************************************************************************)
(* Requests and answers stay in step: when the application is back in its  *)
(* event loop, everything that was asked for has been read, to the last    *)
(* part, so that the next 20 bytes are a header (lines 468-516).           *)
(***************************************************************************)
InStep ==
  EventLoop /\ sock = "connected" => stream = <<>> /\ sending = <<>> /\ asked = 0

(***************************************************************************)
(* What the label shows is nothing, or both parts of one picture, however  *)
(* they arrived and whatever was read into the static picbuf before (lines *)
(* 465 and 499-519).                                                       *)
(***************************************************************************)
PictureShownWhole ==
  shown # <<>> => Len(shown) = 2 /\ shown[1] = shown[2]

(***************************************************************************)
(* While the video is closed no timer asks for pictures, unless            *)
(* msconnected started one then, or beside an active one, which nothing    *)
(* stops any more (lines 440-456 and 524-533).                             *)
(***************************************************************************)
ClosedIsStopped ==
  EventLoop /\ enabled = "open" => active = {} \/ stray

(***************************************************************************)
(* Once msdisconnected has noted that the server went away between two     *)
(* pictures, the application is safe from it: outside of an exchange with  *)
(* the server it crashes only if a button was pressed too early, by a      *)
(* stray timer, or on a connection that did not come about.  What went     *)
(* away and is not noted when a tick comes does crash it, in the exchange  *)
(* (lines 448-456, 468-486).                                               *)
(***************************************************************************)
SurvivesNotedLoss ==
  crash /\ pc = "idle" => early \/ stray \/ sock \in {"connecting", "unconnected"}

=============================================================================
