--------------------------- MODULE VoiceInputProofs ---------------------------
(***************************************************************************)
(* Proofs about VoiceInput, for any number of requests.                    *)
(***************************************************************************)
EXTENDS VoiceInput, TLAPS

(* The request under way, if there is one, is the last posted, with its    *)
(* timer and its error signal; nobody waits when there is none.            *)
Linked ==
  /\ reply = 0 => wired = {} /\ ~timer
  /\ reply # 0 => reply = posts /\ wired = {reply} /\ timer
  /\ Waiting => reply # 0

(* An answer that can be acted on: to request i itself or, when another    *)
(* was posted during its wait, to a later one.                             *)
Fits(i, a) == a # 0 => a = i \/ (i \in nested /\ a > i)

(* The same of one that is not under way any more and was not given up.    *)
Settled(a) == a \in 0 .. posts /\ a \notin gaveUp /\ (a # 0 => a # reply)

Expected(c) ==
  /\ c.id \in 1 .. posts
  /\ c.id = posts \/ c.id \in nested
  /\ Fits(c.id, c.target) /\ Settled(c.target)

Answers ==
  /\ \A r \in gaveUp : r <= posts /\ r # reply
  /\ \A i \in DOMAIN stack : Expected(stack[i])
  /\ \A i \in Ids : Fits(i, published[i]) /\ Settled(published[i])

-----------------------------------------------------------------------------
(* What Append, SubSeq and the two emits make of the stack.                *)
LEMMA Pushed ==
  ASSUME NEW S, NEW s \in Seq(S), NEW x \in S
  PROVE  /\ Append(s, x) \in Seq(S)
         /\ \A i \in DOMAIN Append(s, x) :
              (i \in DOMAIN s /\ Append(s, x)[i] = s[i]) \/ Append(s, x)[i] = x
  OBVIOUS

LEMMA Popped ==
  ASSUME NEW S, NEW s \in Seq(S), s # <<>>
  PROVE  /\ Len(s) \in DOMAIN s /\ s[Len(s)] \in S
         /\ SubSeq(s, 1, Len(s) - 1) \in Seq(S)
         /\ \A i \in DOMAIN SubSeq(s, 1, Len(s) - 1) :
              i \in DOMAIN s /\ SubSeq(s, 1, Len(s) - 1)[i] = s[i]
  OBVIOUS

LEMMA SentToAll ==
  ASSUME TypeOK, NEW data \in Ids \cup {0}, EmitFinished(data)
  PROVE  /\ stack' \in Seq(Calls) /\ DOMAIN stack' = DOMAIN stack
         /\ \A i \in DOMAIN stack :
              stack'[i].id = stack[i].id /\ stack'[i].exit /\ stack'[i].target = data
<1>1. stack \in Seq(Calls) /\ Len(stack) \in Nat /\ DOMAIN stack = 1 .. Len(stack)
      /\ \A i \in DOMAIN stack : stack[i] \in Calls
  BY DEF TypeOK
<1>2. /\ DOMAIN stack' = DOMAIN stack
      /\ \A i \in DOMAIN stack : stack'[i] = [stack[i] EXCEPT !.target = data, !.exit = TRUE]
  BY DEF EmitFinished
<1>3. \A i \in DOMAIN stack :
        /\ stack'[i] \in Calls /\ stack'[i].id = stack[i].id /\ stack'[i].exit
        /\ stack'[i].target = data
  <2> SUFFICES ASSUME NEW i \in DOMAIN stack
               PROVE  /\ stack'[i] \in Calls /\ stack'[i].id = stack[i].id /\ stack'[i].exit
                      /\ stack'[i].target = data
    OBVIOUS
  <2>1. stack[i] \in Calls
    BY <1>1
  <2>. QED
    BY <1>2, <2>1 DEF Calls
<1>4. stack' \in Seq(Calls)
  <2>1. stack' = [i \in 1 .. Len(stack) |-> stack'[i]]
    BY <1>1 DEF EmitFinished
  <2>2. \A i \in 1 .. Len(stack) : stack'[i] \in Calls
    BY <1>1, <1>3
  <2>. QED
    BY <1>1, <2>1, <2>2
<1>. QED
  BY <1>2, <1>3, <1>4

LEMMA ErrorToAll ==
  ASSUME TypeOK, EmitError
  PROVE  /\ stack' \in Seq(Calls) /\ DOMAIN stack' = DOMAIN stack
         /\ \A i \in DOMAIN stack :
              stack'[i].id = stack[i].id /\ stack'[i].exit /\ stack'[i].target = stack[i].target
<1>1. stack \in Seq(Calls) /\ Len(stack) \in Nat /\ DOMAIN stack = 1 .. Len(stack)
      /\ \A i \in DOMAIN stack : stack[i] \in Calls
  BY DEF TypeOK
<1>2. /\ DOMAIN stack' = DOMAIN stack
      /\ \A i \in DOMAIN stack : stack'[i] = [stack[i] EXCEPT !.exit = TRUE]
  BY DEF EmitError
<1>3. \A i \in DOMAIN stack :
        /\ stack'[i] \in Calls /\ stack'[i].id = stack[i].id /\ stack'[i].exit
        /\ stack'[i].target = stack[i].target
  <2> SUFFICES ASSUME NEW i \in DOMAIN stack
               PROVE  /\ stack'[i] \in Calls /\ stack'[i].id = stack[i].id /\ stack'[i].exit
                      /\ stack'[i].target = stack[i].target
    OBVIOUS
  <2>1. stack[i] \in Calls
    BY <1>1
  <2>. QED
    BY <1>2, <2>1 DEF Calls
<1>4. stack' \in Seq(Calls)
  <2>1. stack' = [i \in 1 .. Len(stack) |-> stack'[i]]
    BY <1>1 DEF EmitError
  <2>2. \A i \in 1 .. Len(stack) : stack'[i] \in Calls
    BY <1>1, <1>3
  <2>. QED
    BY <1>1, <2>1, <2>2
<1>. QED
  BY <1>2, <1>3, <1>4

-----------------------------------------------------------------------------
(* Types, and what ends the wait.                                          *)
LEMMA TypedInit == Init => TypeOK /\ Linked /\ Answers
<1> SUFFICES ASSUME Init PROVE TypeOK /\ Linked /\ Answers
  OBVIOUS
<1>1. stack = <<>> /\ DOMAIN stack = {} /\ stack \in Seq(Calls)
  BY DEF Init
<1>2. 0 \in 0 .. MaxPosts
  BY VoiceAssumption
<1>3. TypeOK
  BY <1>1, <1>2 DEF Init, TypeOK
<1>4. Linked
  BY <1>1 DEF Init, Linked, Waiting
<1>5. \A i \in Ids : Fits(i, published[i]) /\ Settled(published[i])
  BY DEF Init, Fits, Settled
<1>6. Answers
  BY <1>1, <1>5 DEF Init, Answers
<1>. QED
  BY <1>3, <1>4, <1>6

(* What the two callers of post have in common.                            *)
LEMMA Posting ==
  ASSUME TypeOK, Linked, RefreshToken \/ ClickStop
  PROVE  /\ posts' = posts + 1 /\ posts' \in Ids /\ Post(posts')
         /\ UNCHANGED <<token, device, buffer, published, crash>>
         /\ button' \in {"Start", "Stop"}
<1>1. posts \in 0 .. MaxPosts /\ MaxPosts \in Nat \ {0} /\ button \in {"Start", "Stop"}
  BY VoiceAssumption DEF TypeOK
<1>2. CASE RefreshToken
  <2>1. Post(1) /\ posts = 0 /\ posts' = 1
    BY <1>2 DEF RefreshToken, Post, TokenRequest
  <2>. QED
    BY <1>1, <1>2, <2>1 DEF RefreshToken, Ids
<1>3. CASE ClickStop
  <2>1. Post(posts + 1) /\ posts < MaxPosts /\ posts' = posts + 1
    BY <1>3 DEF ClickStop, Post
  <2>. QED
    BY <1>1, <1>3, <2>1 DEF ClickStop, Ids
<1>. QED
  BY <1>2, <1>3

LEMMA TypedStep == TypeOK /\ Linked /\ Answers /\ [Next]_vars => TypeOK'
<1> SUFFICES ASSUME TypeOK, Linked, Answers, [Next]_vars PROVE TypeOK'
  OBVIOUS
<1>0. /\ stack \in Seq(Calls) /\ \A i \in DOMAIN stack : stack[i] \in Calls
      /\ posts \in 0 .. MaxPosts /\ 0 \notin Ids
  BY DEF TypeOK, Ids
<1>1. CASE RefreshToken \/ ClickStop
  <2>. DEFINE c == [id |-> posts', target |-> 0, exit |-> FALSE]
  <2>1. /\ posts' \in Ids /\ Post(posts') /\ button' \in {"Start", "Stop"}
        /\ UNCHANGED <<token, device, buffer, published, crash>>
    BY <1>1, Posting
  <2>2. stack' \in Seq(Calls)
    <3>1. c \in Calls /\ stack' = Append(stack, c)
      BY <2>1 DEF Post, Calls
    <3>. QED
      BY <1>0, <3>1, Pushed
  <2>3. \A i \in DOMAIN stack : stack[i].id \in Ids
    BY <1>0 DEF Calls
  <2>4. nested' \subseteq Ids
    BY <2>1, <2>3 DEF Post, TypeOK
  <2>5. /\ reply' \in pending' /\ wired' \subseteq pending' /\ pending' \subseteq Ids
        /\ timer' \in BOOLEAN /\ gaveUp' \subseteq Ids
    BY <2>1 DEF Post, TypeOK
  <2>6. posts' \in 0 .. MaxPosts
    BY <2>1 DEF Ids
  <2>. QED
    BY <2>1, <2>2, <2>4, <2>5, <2>6 DEF TypeOK
<1>2. ASSUME NEW r \in Ids, NEW data \in Ids \cup {0}, Finished(r, data) PROVE TypeOK'
  <2>1. stack' \in Seq(Calls)
    BY <1>2, SentToAll DEF Finished
  <2>. QED
    BY <1>2, <2>1 DEF Finished, Stop, Linked, TypeOK
<1>3. ASSUME NEW r \in Ids, Failed(r) PROVE TypeOK'
  <2>1. stack' \in Seq(Calls)
    BY <1>3, ErrorToAll DEF Failed
  <2>. QED
    BY <1>3, <2>1 DEF Failed, Stop, Linked, TypeOK
<1>4. ASSUME NEW r \in Ids, Late(r) PROVE TypeOK'
  BY <1>4 DEF Late, httpVars, TypeOK
<1>5. CASE Timeout
  <2>1. stack' \in Seq(Calls)
    BY <1>5, ErrorToAll DEF Timeout
  <2>2. reply \in Ids
    BY <1>5 DEF Timeout, Linked, TypeOK
  <2>. QED
    BY <1>5, <2>1, <2>2 DEF Timeout, Stop, TypeOK
<1>6. CASE ClickStart \/ ClickStopCrashes
  BY <1>6 DEF ClickStart, ClickStopCrashes, httpVars, TypeOK
<1>7. CASE Return
  <2>1. stack # <<>> /\ stack' = SubSeq(stack, 1, Len(stack) - 1)
    BY <1>7 DEF Return
  <2>2. stack' \in Seq(Calls) /\ stack[Len(stack)] \in Calls
    BY <1>0, <2>1, Popped
  <2>3. /\ stack[Len(stack)].id \in Ids /\ stack[Len(stack)].target \in Ids \cup {0}
    BY <2>2 DEF Calls
  <2>4. published' \in [Ids -> Ids \cup {0}]
    BY <1>7, <2>3 DEF Return, TypeOK
  <2>5. token' \in BOOLEAN
    BY <1>7 DEF Return, TypeOK
  <2>. QED
    BY <1>7, <2>2, <2>4, <2>5 DEF Return, httpVars, TypeOK
<1>8. CASE UNCHANGED vars
  BY <1>8 DEF vars, httpVars, TypeOK
<1>. QED
  BY <1>1, <1>2, <1>3, <1>4, <1>5, <1>6, <1>7, <1>8 DEF Next, Network

LEMMA LinkedStep == TypeOK /\ Linked /\ [Next]_vars => Linked'
<1> SUFFICES ASSUME TypeOK, Linked, [Next]_vars PROVE Linked'
  OBVIOUS
<1>0. stack \in Seq(Calls) /\ 0 \notin Ids /\ reply \in Ids \cup {0}
  BY DEF TypeOK, Ids
<1>1. CASE RefreshToken \/ ClickStop
  <2>1. posts' \in Ids /\ Post(posts')
    BY <1>1, Posting
  <2>. QED
    BY <1>0, <2>1 DEF Post, Linked
<1>2. ASSUME NEW r \in Ids, NEW data \in Ids \cup {0}, Finished(r, data) PROVE Linked'
  <2>1. ~Waiting'
    BY <1>2, SentToAll DEF Finished, Waiting
  <2>. QED
    BY <1>2, <2>1 DEF Finished, Stop, Linked
<1>3. ASSUME NEW r \in Ids, Failed(r) PROVE Linked'
  <2>1. ~Waiting'
    BY <1>3, ErrorToAll DEF Failed, Waiting
  <2>. QED
    BY <1>3, <2>1 DEF Failed, Stop, Linked
<1>4. CASE Timeout
  <2>1. ~Waiting'
    BY <1>4, ErrorToAll DEF Timeout, Waiting
  <2>. QED
    BY <1>4, <2>1 DEF Timeout, Stop, Linked
<1>5. CASE Return
  <2>1. stack # <<>> /\ stack' = SubSeq(stack, 1, Len(stack) - 1)
    BY <1>5 DEF Return
  <2>2. \A i \in DOMAIN stack' : i \in DOMAIN stack /\ stack'[i] = stack[i]
    BY <1>0, <2>1, Popped
  <2>3. Waiting' => Waiting
    BY <2>2 DEF Waiting
  <2>. QED
    BY <1>5, <2>3 DEF Return, httpVars, Linked
<1>6. CASE UNCHANGED <<posts, reply, wired, timer, stack>>
  BY <1>6 DEF Linked, Waiting
<1>. QED
  BY <1>1, <1>2, <1>3, <1>4, <1>5, <1>6
  DEF Next, Network, Late, ClickStart, ClickStopCrashes, httpVars, vars

-----------------------------------------------------------------------------
(* The answers.                                                            *)

(* Nothing more becomes of an answer once it has been taken: a request     *)
(* under way is given up, or another is posted, and it stays settled.      *)
LEMMA AnswersKept ==
  ASSUME TypeOK, Linked, Answers,
         posts' \in {posts, posts + 1}, reply' \in {0, posts'},
         gaveUp' \subseteq gaveUp \cup ({reply} \ {0}),
         nested \subseteq nested',
         reply' # 0 => (reply' = reply /\ posts' = posts /\ gaveUp' = gaveUp) \/ posts' = posts + 1
  PROVE  /\ \A r \in gaveUp' : r <= posts' /\ r # reply'
         /\ \A i \in Ids, a \in Ids \cup {0} :
              Fits(i, a) /\ Settled(a) => Fits(i, a)' /\ Settled(a)'
<1>1. posts \in Nat /\ posts' \in Nat /\ reply \in Ids \cup {0} /\ gaveUp \subseteq Ids
      /\ Ids \subseteq Nat \ {0}
  BY VoiceAssumption DEF TypeOK, Ids
<1>2. ASSUME NEW r \in gaveUp' PROVE r <= posts' /\ r # reply'
  <2>1. CASE r \in gaveUp
    BY <1>1, <2>1 DEF Answers
  <2>2. CASE r = reply /\ r # 0 /\ r \notin gaveUp
    BY <1>1, <1>2, <2>2 DEF Linked
  <2>. QED
    BY <1>2, <2>1, <2>2
<1>3. ASSUME NEW i \in Ids, NEW a \in Ids \cup {0}, Fits(i, a), Settled(a)
      PROVE  Fits(i, a)' /\ Settled(a)'
  <2>1. Fits(i, a)'
    BY <1>3 DEF Fits
  <2>2. a \in 0 .. posts' /\ a \notin gaveUp'
    BY <1>1, <1>3 DEF Settled
  <2>3. a # 0 => a # reply'
    BY <1>1, <1>3 DEF Settled
  <2>. QED
    BY <2>1, <2>2, <2>3 DEF Settled
<1>. QED
  BY <1>2, <1>3

(* A call that expects what it has keeps on doing so.                      *)
LEMMA ExpectedKept ==
  ASSUME TypeOK, NEW c \in Calls, Expected(c),
         posts' \in {posts, posts + 1}, nested \subseteq nested',
         c.id = posts' \/ c.id \in nested',
         \A i \in Ids, a \in Ids \cup {0} :
           Fits(i, a) /\ Settled(a) => Fits(i, a)' /\ Settled(a)'
  PROVE  Expected(c)'
<1>1. posts \in Nat /\ c.id \in Ids /\ c.target \in Ids \cup {0} /\ Ids \subseteq Nat
  BY VoiceAssumption DEF TypeOK, Ids, Calls
<1>2. Fits(c.id, c.target)' /\ Settled(c.target)'
  BY <1>1 DEF Expected
<1>3. c.id \in 1 .. posts'
  BY <1>1 DEF Expected
<1>. QED
  BY <1>2, <1>3 DEF Expected

LEMMA AnswersStep == TypeOK /\ Linked /\ Answers /\ [Next]_vars => Answers'
<1> SUFFICES ASSUME TypeOK, Linked, Answers, [Next]_vars PROVE Answers'
  OBVIOUS
<1>0. /\ stack \in Seq(Calls) /\ \A i \in DOMAIN stack : stack[i] \in Calls
      /\ posts \in Nat /\ reply \in Ids \cup {0} /\ gaveUp \subseteq Ids
      /\ Ids \subseteq Nat \ {0} /\ published \in [Ids -> Ids \cup {0}]
  BY VoiceAssumption DEF TypeOK, Ids
<1>01. \A i \in DOMAIN stack : Expected(stack[i])
  BY DEF Answers
<1>02. /\ posts' = posts /\ reply' = 0 /\ gaveUp' \subseteq gaveUp \cup ({reply} \ {0})
       /\ nested' = nested /\ published' = published
       /\ \A i \in DOMAIN stack' : \E d \in Calls : stack'[i] = d /\ Expected(d)'
       => Answers'
  <2> SUFFICES ASSUME posts' = posts, reply' = 0, gaveUp' \subseteq gaveUp \cup ({reply} \ {0}),
                      nested' = nested, published' = published,
                      \A i \in DOMAIN stack' : \E d \in Calls : stack'[i] = d /\ Expected(d)'
               PROVE  Answers'
    OBVIOUS
  <2>1. /\ \A r \in gaveUp' : r <= posts' /\ r # reply'
        /\ \A i \in Ids, a \in Ids \cup {0} :
             Fits(i, a) /\ Settled(a) => Fits(i, a)' /\ Settled(a)'
    BY AnswersKept
  <2>2. \A i \in DOMAIN stack' : Expected(stack[i])'
    BY DEF Expected, Fits, Settled
  <2>3. \A i \in Ids : Fits(i, published[i])' /\ Settled(published[i])'
    <3>1. \A i \in Ids : \E a \in Ids \cup {0} :
            published'[i] = a /\ published[i] = a /\ Fits(i, a) /\ Settled(a)
      BY <1>0 DEF Answers
    <3>2. \A i \in Ids : \E a \in Ids \cup {0} :
            published'[i] = a /\ Fits(i, a)' /\ Settled(a)'
      BY <2>1, <3>1
    <3>. QED
      BY <3>2 DEF Fits, Settled
  <2>. QED
    BY <2>1, <2>2, <2>3 DEF Answers
<1>1. CASE RefreshToken \/ ClickStop
  <2>. DEFINE c == [id |-> posts', target |-> 0, exit |-> FALSE]
  <2>1. posts' = posts + 1 /\ posts' \in Ids /\ Post(posts') /\ published' = published
    BY <1>1, Posting
  <2>2. /\ reply' = posts' /\ gaveUp' = gaveUp \cup ({reply} \ {0}) /\ nested \subseteq nested'
        /\ stack' = Append(stack, c) /\ \A i \in DOMAIN stack : stack[i].id \in nested'
        /\ c \in Calls
    BY <2>1 DEF Post, Calls
  <2>3. /\ \A r \in gaveUp' : r <= posts' /\ r # reply'
        /\ \A i \in Ids, a \in Ids \cup {0} :
             Fits(i, a) /\ Settled(a) => Fits(i, a)' /\ Settled(a)'
    BY <2>1, <2>2, AnswersKept
  <2>4. ASSUME NEW i \in DOMAIN stack' PROVE Expected(stack[i])'
    <3>1. CASE stack'[i] = c
      <4>1. /\ stack'[i].id = posts' /\ stack'[i].target = 0 /\ posts' \in 1 .. posts'
            /\ 0 \notin gaveUp' /\ 0 \in 0 .. posts'
        BY <1>0, <2>1, <2>2, <3>1
      <4>. QED
        BY <4>1 DEF Expected, Fits, Settled
    <3>2. CASE i \in DOMAIN stack /\ stack'[i] = stack[i]
      <4>1. PICK d \in Calls : d = stack[i]
        BY <1>0, <3>2
      <4>2. Expected(d) /\ d.id \in nested'
        BY <1>01, <2>2, <3>2, <4>1
      <4>3. Expected(d)'
        BY <2>1, <2>2, <2>3, <4>2, ExpectedKept
      <4>. QED
        BY <3>2, <4>1, <4>3 DEF Expected, Fits, Settled
    <3>. QED
      BY <1>0, <2>2, <3>1, <3>2, Pushed
  <2>5. \A i \in Ids : Fits(i, published[i])' /\ Settled(published[i])'
    <3>1. \A i \in Ids : \E a \in Ids \cup {0} :
            published'[i] = a /\ published[i] = a /\ Fits(i, a) /\ Settled(a)
      BY <1>0, <2>1 DEF Answers
    <3>2. \A i \in Ids : \E a \in Ids \cup {0} :
            published'[i] = a /\ Fits(i, a)' /\ Settled(a)'
      BY <2>3, <3>1
    <3>. QED
      BY <3>2 DEF Fits, Settled
  <2>. QED
    BY <2>3, <2>4, <2>5 DEF Answers
<1>2. ASSUME NEW r \in Ids, NEW data \in {r, 0}, Finished(r, data) PROVE Answers'
  <2>1. /\ reply = r /\ reply = posts /\ reply' = 0 /\ EmitFinished(data)
        /\ UNCHANGED <<posts, gaveUp, nested, published>>
    BY <1>0, <1>2 DEF Finished, Stop, Linked
  <2>2. /\ DOMAIN stack' = DOMAIN stack
        /\ \A i \in DOMAIN stack :
             stack'[i] \in Calls /\ stack'[i].id = stack[i].id /\ stack'[i].target = data
    <3>1. /\ DOMAIN stack' = DOMAIN stack /\ stack' \in Seq(Calls)
          /\ \A i \in DOMAIN stack : stack'[i].id = stack[i].id /\ stack'[i].target = data
      BY <2>1, SentToAll
    <3>. QED
      BY <3>1
  <2>3. ASSUME NEW i \in DOMAIN stack' PROVE \E d \in Calls : stack'[i] = d /\ Expected(d)'
    <3>1. PICK d \in Calls : d = stack'[i]
      BY <2>2
    <3>2. /\ d.target = data /\ d.id = stack[i].id /\ d.id \in 1 .. posts
          /\ d.id = posts \/ d.id \in nested
      BY <1>01, <2>2, <3>1 DEF Expected
    <3>3. data # 0 => data = posts /\ data \notin gaveUp
      BY <1>0, <2>1 DEF Answers
    <3>4. Expected(d)'
      BY <1>0, <2>1, <3>2, <3>3 DEF Expected, Fits, Settled
    <3>. QED
      BY <3>1, <3>4
  <2>. QED
    BY <1>02, <2>1, <2>3
<1>3. ASSUME EmitError, posts' = posts, reply' = 0,
             gaveUp' \subseteq gaveUp \cup ({reply} \ {0}), nested' = nested,
             published' = published
      PROVE  Answers'
  <2>1. /\ DOMAIN stack' = DOMAIN stack
        /\ \A i \in DOMAIN stack :
             /\ stack'[i] \in Calls /\ stack'[i].id = stack[i].id
             /\ stack'[i].target = stack[i].target
    <3>1. /\ DOMAIN stack' = DOMAIN stack /\ stack' \in Seq(Calls)
          /\ \A i \in DOMAIN stack :
               stack'[i].id = stack[i].id /\ stack'[i].target = stack[i].target
      BY <1>3, ErrorToAll
    <3>. QED
      BY <3>1
  <2>2. \A i \in Ids, a \in Ids \cup {0} :
          Fits(i, a) /\ Settled(a) => Fits(i, a)' /\ Settled(a)'
    BY <1>3, AnswersKept
  <2>3. ASSUME NEW i \in DOMAIN stack' PROVE \E d \in Calls : stack'[i] = d /\ Expected(d)'
    <3>1. PICK d \in Calls : d = stack'[i]
      BY <2>1
    <3>2. Expected(d)
      BY <1>01, <2>1, <3>1 DEF Expected
    <3>3. d.id = posts' \/ d.id \in nested'
      BY <1>3, <3>2 DEF Expected
    <3>4. Expected(d)'
      BY <1>3, <2>2, <3>2, <3>3, ExpectedKept
    <3>. QED
      BY <3>1, <3>4
  <2>. QED
    BY <1>02, <1>3, <2>3
<1>4. ASSUME NEW r \in Ids, Failed(r) PROVE Answers'
  <2>1. r = reply /\ r # 0
    BY <1>0, <1>4 DEF Failed, Linked
  <2>. QED
    BY <1>3, <1>4, <2>1 DEF Failed, Stop
<1>5. CASE Timeout
  <2>1. reply # 0
    BY <1>5 DEF Timeout, Linked
  <2>. QED
    BY <1>3, <1>5, <2>1 DEF Timeout, Stop
<1>6. CASE Return
  <2>. DEFINE top == stack[Len(stack)]
  <2>1. /\ stack # <<>> /\ stack' = SubSeq(stack, 1, Len(stack) - 1)
        /\ UNCHANGED <<posts, reply, nested, gaveUp>>
    BY <1>6 DEF Return, httpVars
  <2>2. /\ Len(stack) \in DOMAIN stack /\ top \in Calls
        /\ \A i \in DOMAIN stack' : i \in DOMAIN stack /\ stack'[i] = stack[i]
    BY <1>0, <2>1, Popped
  <2>3. /\ Expected(top) /\ top.id \in Ids
        /\ published' \in {published, [published EXCEPT ![top.id] = top.target]}
    BY <1>01, <1>6, <2>2 DEF Return, Calls
  <2>4. \A i \in Ids : Fits(i, published'[i]) /\ Settled(published'[i])
    BY <1>0, <2>3 DEF Answers, Expected
  <2>5. \A i \in DOMAIN stack' : Expected(stack'[i])
    BY <1>01, <2>2
  <2>. QED
    BY <2>1, <2>4, <2>5 DEF Answers, Expected, Fits, Settled
<1>7. CASE UNCHANGED <<posts, reply, stack, published, nested, gaveUp>>
  BY <1>7 DEF Answers, Expected, Fits, Settled
<1>. QED
  BY <1>1, <1>2, <1>4, <1>5, <1>6, <1>7
  DEF Next, Network, Late, ClickStart, ClickStopCrashes, httpVars, vars

-----------------------------------------------------------------------------
VoiceInv == TypeOK /\ Linked /\ Answers

LEMMA InvStep == VoiceInv /\ [Next]_vars => VoiceInv'
BY TypedStep, LinkedStep, AnswersStep DEF VoiceInv

LEMMA Invariant == Spec => []VoiceInv
<1>1. Init => VoiceInv
  BY TypedInit DEF VoiceInv
<1>. QED
  BY <1>1, InvStep, PTL DEF Spec

(* The variables keep their types: m_reply and the connected replies are   *)
(* requests the network still knows of (jasonQt_Net.cpp, 80-189).          *)
THEOREM TypeCorrect == Spec => []TypeOK
<1>1. VoiceInv => TypeOK
  BY DEF VoiceInv
<1>. QED
  BY <1>1, Invariant, PTL

(* However deep the calls of post nest, one that waits has a current       *)
(* request to wait for, with a timer that runs (jasonQt_Net.cpp, 80-109    *)
(* and 131-189).                                                           *)
THEOREM WaitHasAnEnd == Spec => []SomethingEndsTheWait
<1>1. VoiceInv => SomethingEndsTheWait
  BY DEF VoiceInv, Linked, SomethingEndsTheWait
<1>. QED
  BY <1>1, Invariant, PTL

(* However late the answer to a request that was given up comes, no call   *)
(* of post returns it and no input acts on it (jasonQt_Net.cpp, 97-109 and *)
(* 156-180).                                                               *)
THEOREM LateDropped == Spec => []LateAnswerDropped
<1>1. VoiceInv => LateAnswerDropped
  BY DEF VoiceInv, Answers, Expected, Settled, LateAnswerDropped
<1>. QED
  BY <1>1, Invariant, PTL

(* An input acts on its own answer or, when others were posted while it    *)
(* waited, on a later one (widget.cpp, 360-415; jasonQt_Net.cpp, 131-171). *)
THEOREM OwnAnswer == Spec => []OwnAnswerUnlessNested
<1>1. VoiceInv => OwnAnswerUnlessNested
  BY DEF VoiceInv, Answers, Fits, OwnAnswerUnlessNested
<1>. QED
  BY <1>1, Invariant, PTL

=============================================================================
