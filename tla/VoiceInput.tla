----------------------------- MODULE VoiceInput -----------------------------
(***************************************************************************)
(* The voice input of the phone application: the Start/Stop button and     *)
(* inputFinish of proclient/widget.cpp, BaiduVop of jasonQt_Vop.cpp and    *)
(* HTTP of jasonQt_Net.cpp.  HTTP::post waits for its answer in a nested   *)
(* event loop, in which the user may press the button again: posts nest,   *)
(* on one C++ stack and over one HTTP object.  One thread runs it all, a   *)
(* handler is one step up to where it enters a nested loop.  The network   *)
(* and the speech service are external.                                    *)
(***************************************************************************)
EXTENDS Naturals, Sequences

CONSTANTS
  MaxPosts    \* bound: requests posted, the first one for the token

ASSUME VoiceAssumption == MaxPosts \in Nat \ {0}

(* Requests are numbered in the order they are posted; 0 is NULL where a   *)
(* reply is meant and "no usable text" where an answer is.                 *)
Ids == 1 .. MaxPosts
TokenRequest == 1

VARIABLES
  button,     \* the text of the button
  token,      \* m_token is not empty
  device,     \* m_audioInput is not NULL
  buffer,     \* m_buffer is not NULL
  posts,      \* number of requests posted
  reply,      \* m_reply
  wired,      \* replies whose error signal leads to onError
  timer,      \* m_timer is active
  pending,    \* requests the network has not answered
  stack,      \* the calls of post(..., target, ...), innermost last
  published,  \* for each input: the request whose answer it acted on
  crash,      \* the application has dereferenced NULL
  nested,     \* history: inputs during whose wait another one was posted
  gaveUp      \* history: requests that were superseded or failed

httpVars == <<reply, wired, timer>>
vars == <<button, token, device, buffer, posts, httpVars, pending, stack,
          published, crash, nested, gaveUp>>

(* A call of post: its request, its target, and whether its loop is to     *)
(* exit.                                                                   *)
Calls == [id : Ids, target : Ids \cup {0}, exit : BOOLEAN]

TypeOK ==
  /\ button \in {"Start", "Stop"}
  /\ token \in BOOLEAN /\ device \in BOOLEAN /\ buffer \in BOOLEAN
  /\ posts \in 0 .. MaxPosts
  /\ reply \in pending \cup {0}
  /\ wired \subseteq pending
  /\ timer \in BOOLEAN
  /\ pending \subseteq Ids
  /\ stack \in Seq(Calls)
  /\ published \in [Ids -> Ids \cup {0}]
  /\ crash \in BOOLEAN
  /\ nested \subseteq Ids /\ gaveUp \subseteq Ids

Init ==
  /\ button = "Start"
  /\ token = FALSE /\ device \in BOOLEAN /\ buffer = FALSE
  /\ posts = 0
  /\ reply = 0 /\ wired = {} /\ timer = FALSE
  /\ pending = {}
  /\ stack = <<>>
  /\ published = [i \in Ids |-> 0]
  /\ crash = FALSE
  /\ nested = {} /\ gaveUp = {}

-----------------------------------------------------------------------------
(* HTTP.                                                                   *)

(* stop().                                                                 *)
Stop == reply' = 0 /\ wired' = wired \ {reply} /\ timer' = FALSE

(* Mutant: stop() after the new request has been posted, not before. *)
PostThenStop(id) ==
  /\ reply' = IF reply = 0 THEN id ELSE 0
  /\ wired' = (wired \ {reply}) \cup {id}
  /\ timer' = (reply = 0)
  /\ posts' = id
  /\ pending' = pending \cup {id}
  /\ stack' = Append(stack, [id |-> id, target |-> 0, exit |-> FALSE])
  /\ nested' = nested \cup {stack[i].id : i \in DOMAIN stack}
  /\ gaveUp' = gaveUp \cup ({reply} \ {0})

(* post(): a request under way is stopped, which ends no loop; the loops   *)
(* of the calls below stay connected to the signals of the one object.     *)
Post(id) ==
  /\ reply' = id
  /\ wired' = (wired \ {reply}) \cup {id}
  /\ timer' = TRUE
  /\ posts' = id
  /\ pending' = pending \cup {id}
  /\ stack' = Append(stack, [id |-> id, target |-> 0, exit |-> FALSE])
  /\ nested' = nested \cup {stack[i].id : i \in DOMAIN stack}
  /\ gaveUp' = gaveUp \cup ({reply} \ {0})

(* emit finished(data): every call on the stack takes the data.            *)
EmitFinished(data) ==
  stack' = [i \in DOMAIN stack |-> [stack[i] EXCEPT !.target = data, !.exit = TRUE]]

(* emit error(...): every loop is to exit, the targets stay.               *)
EmitError ==
  stack' = [i \in DOMAIN stack |-> [stack[i] EXCEPT !.exit = TRUE]]

(* Mutant: any reply is taken for the current one. *)
FinishedAnyReply(r, data) ==
  /\ ~crash
  /\ r \in pending /\ pending' = pending \ {r}
  /\ reply # 0
  /\ EmitFinished(data)
  /\ Stop
  /\ UNCHANGED <<button, token, device, buffer, posts, published, crash, nested, gaveUp>>

(* onFinished of the current reply, whose data is usable or not.           *)
Finished(r, data) ==
  /\ ~crash
  /\ r \in pending /\ pending' = pending \ {r}
  /\ reply = r
  /\ EmitFinished(data)
  /\ Stop
  /\ UNCHANGED <<button, token, device, buffer, posts, published, crash, nested, gaveUp>>

(* Mutant: onError does not stop(). *)
FailedNotStopped(r) ==
  /\ ~crash
  /\ r \in wired
  /\ pending' = pending \ {r}
  /\ EmitError
  /\ wired' = wired \ {r}
  /\ gaveUp' = gaveUp \cup {r}
  /\ UNCHANGED <<button, token, device, buffer, posts, reply, timer, published,
                 crash, nested>>

(* The reply emits error, then finished; the latter finds m_reply NULL.    *)
Failed(r) ==
  /\ ~crash
  /\ r \in wired
  /\ pending' = pending \ {r}
  /\ EmitError
  /\ Stop
  /\ gaveUp' = gaveUp \cup {r}
  /\ UNCHANGED <<button, token, device, buffer, posts, published, crash, nested>>

(* The network is done with a request that was given up.                   *)
Late(r) ==
  /\ ~crash
  /\ r \in pending \ (wired \cup {reply})
  /\ pending' = pending \ {r}
  /\ UNCHANGED <<button, token, device, buffer, posts, httpVars, stack, published,
                 crash, nested, gaveUp>>

(* Mutant: the timeout is not reported. *)
TimeoutSilent ==
  /\ ~crash
  /\ timer
  /\ Stop
  /\ gaveUp' = gaveUp \cup {reply}
  /\ UNCHANGED <<button, token, device, buffer, posts, pending, stack, published,
                 crash, nested>>

(* Mutant: m_reply is not cleared. *)
TimeoutKeepsReply ==
  /\ ~crash
  /\ timer
  /\ timer' = FALSE
  /\ EmitError
  /\ gaveUp' = gaveUp \cup {reply}
  /\ UNCHANGED <<button, token, device, buffer, posts, reply, wired, pending,
                 published, crash, nested>>

(* onTimeout; the request itself is not aborted.                           *)
Timeout ==
  /\ ~crash
  /\ timer
  /\ Stop
  /\ EmitError
  /\ gaveUp' = gaveUp \cup {reply}
  /\ UNCHANGED <<button, token, device, buffer, posts, pending, published, crash,
                 nested>>

-----------------------------------------------------------------------------
(* BaiduVop and Widget.                                                    *)

(* The constructor of Widget calls refreshToken, before the window shows.  *)
RefreshToken ==
  /\ posts = 0
  /\ Post(TokenRequest)
  /\ UNCHANGED <<button, token, device, buffer, published, crash>>

Shown ==
  /\ ~crash
  /\ posts > 0
  /\ \A i \in DOMAIN stack : stack[i].id # TokenRequest

(* The button reads Start: startInput.  Without a token, nothing but the   *)
(* text of the button changes.                                             *)
ClickStart ==
  /\ Shown
  /\ button = "Start" /\ button' = "Stop"
  /\ buffer' = (buffer \/ token)
  /\ crash' = (token /\ ~device)
  /\ UNCHANGED <<token, device, posts, httpVars, pending, stack, published,
                 nested, gaveUp>>

(* The button reads Stop: inputFinish, finish and post.                    *)
ClickStop ==
  /\ Shown
  /\ button = "Stop" /\ button' = "Start"
  /\ device /\ buffer
  /\ posts < MaxPosts
  /\ Post(posts + 1)
  /\ UNCHANGED <<token, device, buffer, published, crash>>

(* There is no m_audioInput to stop, or no m_buffer to read.               *)
ClickStopCrashes ==
  /\ Shown
  /\ button = "Stop" /\ button' = "Start"
  /\ ~(device /\ buffer)
  /\ crash' = TRUE
  /\ UNCHANGED <<token, device, buffer, posts, httpVars, pending, stack, published,
                 nested, gaveUp>>

(* The innermost loop exits and post returns: refreshToken keeps the token *)
(* it was sent; inputFinish publishes the command it was sent, or shows an *)
(* error.  Until it does, its loop may still deliver events, those that    *)
(* were fetched along with the one that made it exit.                      *)
Return ==
  LET top == stack[Len(stack)] IN
  /\ ~crash
  /\ stack # <<>>
  /\ top.exit
  /\ stack' = SubSeq(stack, 1, Len(stack) - 1)
  /\ token' = (token \/ (top.id = TokenRequest /\ top.target # 0))
  /\ published' = IF top.id = TokenRequest THEN published
                  ELSE [published EXCEPT ![top.id] = top.target]
  /\ UNCHANGED <<button, device, buffer, posts, httpVars, pending, crash, nested,
                 gaveUp>>

-----------------------------------------------------------------------------
Network == \E r \in Ids : Finished(r, r) \/ Finished(r, 0) \/ Failed(r) \/ Late(r)

Next ==
  \/ RefreshToken
  \/ Network
  \/ Timeout
  \/ ClickStart
  \/ ClickStop
  \/ ClickStopCrashes
  \/ Return

Spec == Init /\ [][Next]_vars

(* Timers fire and loops that are to exit do; the network need not answer. *)
FairSpec == Spec /\ WF_vars(Timeout) /\ WF_vars(Return)

-----------------------------------------------------------------------------
(***************************************************************************)
(* Nobody waits for nothing: while a nested loop is not to exit, there is  *)
(* a current request, its timer runs, and its error signal is connected,   *)
(* although stop() tells no loop that its request has been dropped (Net,   *)
(* lines 80-109 and 131-189).                                              *)
(***************************************************************************)
Waiting == \E i \in DOMAIN stack : ~stack[i].exit

SomethingEndsTheWait == Waiting => reply # 0 /\ timer /\ reply \in wired

(***************************************************************************)
(* The answer to a request that was superseded, timed out or failed is     *)
(* never used, however late it comes (Net, lines 97-109 and 156-180).      *)
(***************************************************************************)
LateAnswerDropped ==
  /\ \A i \in DOMAIN stack : stack[i].target \notin gaveUp
  /\ \A i \in Ids : published[i] \notin gaveUp

(***************************************************************************)
(* An input acts on the answer to its own recording, unless another input  *)
(* was posted during its wait; then it acts on the answer to a later one,  *)
(* never an earlier (widget.cpp, lines 360-415; Net, lines 131-171).       *)
(***************************************************************************)
OwnAnswerUnlessNested ==
  \A i \in Ids : published[i] # 0 =>
    published[i] = i \/ (i \in nested /\ published[i] > i)

(***************************************************************************)
(* Every wait ends, also those of the inputs below, whose own requests     *)
(* were dropped (Net, lines 131-189).                                      *)
(***************************************************************************)
WaitEnds == stack # <<>> ~> stack = <<>> \/ crash

=============================================================================
