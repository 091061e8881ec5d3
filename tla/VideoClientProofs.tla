-------------------------- MODULE VideoClientProofs --------------------------
(***************************************************************************)
(* Proofs about VideoClient, for any number of sockets and pictures.       *)
(***************************************************************************)
EXTENDS VideoClient, TLAPS

(* A socket connects once, so that there are no more timers than sockets.  *)
Numbered == timer <= opens /\ (sock = "connecting" => timer < opens)

(* All that is on its way, or read into s, is of one picture.              *)
OnlyOf(p, s) ==
  /\ \A i \in DOMAIN stream : stream[i].pic = p
  /\ \A i \in DOMAIN sending : sending[i].pic = p
  /\ \A i \in DOMAIN s : s[i] = p

(* What comes first is a header; one that says length 0 comes alone.       *)
HeaderFirst ==
  /\ stream # <<>> /\ Head(stream).kind # "header" => Len(stream) = 1 /\ sending = <<>>
  /\ stream = <<>> /\ sending # <<>> /\ Head(sending).kind # "header" => Len(sending) = 1

(* How far the request and its answer have got.                            *)
Exchange ==
  /\ pc = "idle" => asked = 0 /\ stream = <<>> /\ sending = <<>>
  /\ pc # "idle" => sock = "connected"
  /\ pc = "header" =>
       /\ asked \in {0, 1}
       /\ asked = 1 => stream = <<>> /\ sending = <<>>
       /\ Len(stream) + Len(sending) <= 3
       /\ HeaderFirst
       /\ asked = 0 => \E p \in 1 .. MaxPictures : OnlyOf(p, <<>>)
  /\ pc = "body" =>
       /\ asked = 0
       /\ Len(stream) + Len(sending) <= parts
       /\ Len(picbuf) + parts = 2 \/ (parts = 0 /\ picbuf = <<>>)
       /\ \E p \in 1 .. MaxPictures : OnlyOf(p, picbuf)

(* Unless a timer has gone astray, only the last one ticks, and only while *)
(* the video is open.                                                      *)
Ticking ==
  stray \/ (active \subseteq {timer} /\ (enabled = "open" \/ sock = "null" => active = {}))

-----------------------------------------------------------------------------
LEMMA Taken ==
  ASSUME NEW S, NEW s \in Seq(S), s # <<>>
  PROVE  /\ Head(s) \in S /\ Tail(s) \in Seq(S)
         /\ Len(s) = Len(Tail(s)) + 1 /\ Len(Tail(s)) \in Nat
         /\ 1 \in DOMAIN s /\ Head(s) = s[1]
         /\ \A i \in DOMAIN Tail(s) : i + 1 \in DOMAIN s /\ Tail(s)[i] = s[i + 1]
  OBVIOUS

LEMMA Added ==
  ASSUME NEW S, NEW s \in Seq(S), NEW x \in S
  PROVE  /\ Append(s, x) \in Seq(S) /\ Append(s, x) # <<>>
         /\ Len(s) \in Nat /\ Len(Append(s, x)) = Len(s) + 1
         /\ s = <<>> => Head(Append(s, x)) = x
         /\ s # <<>> => Head(Append(s, x)) = Head(s)
         /\ \A i \in DOMAIN Append(s, x) :
              (i \in DOMAIN s /\ Append(s, x)[i] = s[i]) \/ Append(s, x)[i] = x
  OBVIOUS

LEMMA Nothing == Len(<<>>) = 0 /\ DOMAIN <<>> = {} /\ \A S : <<>> \in Seq(S)
  OBVIOUS

-----------------------------------------------------------------------------
LEMMA TypedInit == Init => TypeOK /\ Numbered
<1> SUFFICES ASSUME Init PROVE TypeOK /\ Numbered
  OBVIOUS
<1>1. MaxOpens \in Nat /\ MaxPictures \in Nat
  BY ClientAssumption
<1>2. Numbered /\ timer \in 0 .. MaxOpens /\ opens \in 0 .. MaxOpens /\ picture \in 0 .. MaxPictures
      /\ parts \in 0 .. 2 /\ asked \in Nat /\ active \subseteq 1 .. timer
  BY <1>1 DEF Init, Numbered
<1>. QED
  BY <1>2, Nothing DEF Init, TypeOK

LEMMA NumberedStep == TypeOK /\ Numbered /\ [Next]_vars => Numbered'
<1> SUFFICES ASSUME TypeOK, Numbered, [Next]_vars PROVE Numbered'
  OBVIOUS
<1>0. timer \in Nat /\ opens \in Nat
  BY ClientAssumption DEF TypeOK
<1>1. CASE OpenNew
  BY <1>0, <1>1 DEF OpenNew, Numbered
<1>2. CASE Msconnected \/ AskConnecting
  BY <1>0, <1>2 DEF Msconnected, AskConnecting, NewTimer, buttonVars, Numbered
<1>3. CASE ConnectFails \/ Msdisconnected
  BY <1>3 DEF ConnectFails, Msdisconnected, buttonVars, Numbered
<1>4. CASE UNCHANGED <<timer, opens, sock>>
  BY <1>4 DEF Numbered
<1>. QED
  BY <1>1, <1>2, <1>3, <1>4
  DEF Next, Updatepic, OpenAgain, CloseVideo, PressEarly, Ask, AskFails, AnswerLost, ReadHeader,
      ReadBody, Show, Answer, Deliver, ServerEnds, buttonVars, vars

LEMMA Answered ==
  ASSUME TypeOK, Answer
  PROVE  /\ picture' \in 1 .. MaxPictures /\ sending' \in Seq(Parts)
         /\ Len(sending') \in {1, 3} /\ sending' # <<>>
         /\ \A i \in DOMAIN sending' : sending'[i].pic = picture'
         /\ Head(sending').kind # "header" => Len(sending') = 1
<1>1. picture' = picture + 1 /\ picture' \in 1 .. MaxPictures
  BY ClientAssumption DEF Answer, TypeOK
<1>. DEFINE h(k) == [pic |-> picture', kind |-> k]
<1>2. /\ \A k \in {"empty", "header", "part"} : h(k) \in Parts /\ h(k).pic = picture' /\ h(k).kind = k
  BY <1>1 DEF Parts
<1>3. sending' = <<h("empty")>> \/ sending' = <<h("header"), h("part"), h("part")>>
  BY DEF Answer
<1>. HIDE DEF h
<1>4. CASE sending' = <<h("empty")>>
  BY <1>1, <1>2, <1>4
<1>5. CASE sending' = <<h("header"), h("part"), h("part")>>
  BY <1>1, <1>2, <1>5
<1>. QED
  BY <1>3, <1>4, <1>5

LEMMA TypedStep == TypeOK /\ Numbered /\ [Next]_vars => TypeOK'
<1> SUFFICES ASSUME TypeOK, Numbered, [Next]_vars PROVE TypeOK'
  OBVIOUS
<1> USE DEF TypeOK, buttonVars, picVars, linkVars
<1>0. /\ timer \in Nat /\ opens \in Nat /\ MaxOpens \in Nat /\ opens <= MaxOpens
      /\ \A S : <<>> \in Seq(S)
  BY ClientAssumption, Nothing
<1>1. CASE OpenNew
  <2>1. opens' \in 0 .. MaxOpens
    BY <1>0, <1>1 DEF OpenNew
  <2>. QED
    BY <1>0, <1>1, <2>1 DEF OpenNew
<1>2. CASE OpenAgain
  <2>1. active' \subseteq 1 .. timer
    BY <1>0, <1>2 DEF OpenAgain
  <2>. QED
    BY <1>2, <2>1 DEF OpenAgain
<1>3. CASE CloseVideo
  BY <1>0, <1>3 DEF CloseVideo
<1>4. CASE PressEarly
  BY <1>4 DEF PressEarly
<1>5. CASE Msconnected \/ AskConnecting
  <2>1. timer' \in 0 .. MaxOpens /\ active' \subseteq 1 .. timer' /\ stray' \in BOOLEAN
    <3>1. NewTimer /\ sock = "connecting" /\ timer < opens
      BY <1>5 DEF Msconnected, AskConnecting, Numbered
    <3>2. timer' \in 0 .. MaxOpens /\ active' \subseteq 1 .. timer'
      BY <1>0, <3>1 DEF NewTimer
    <3>3. stray' \in BOOLEAN
      BY <3>1 DEF NewTimer
    <3>. QED
      BY <3>2, <3>3
  <2>2. asked' \in Nat
    BY <1>5 DEF Msconnected, AskConnecting
  <2>. QED
    BY <1>5, <2>1, <2>2 DEF Msconnected, AskConnecting
<1>6. CASE ConnectFails \/ Msdisconnected
  <2>1. CASE ConnectFails
    BY <2>1 DEF ConnectFails
  <2>2. CASE Msdisconnected
    BY <2>2 DEF Msdisconnected
  <2>. QED
    BY <1>6, <2>1, <2>2
<1>7. CASE Ask \/ AskFails \/ AnswerLost
  <2>1. CASE Ask
    BY <2>1 DEF Ask
  <2>2. CASE AskFails
    BY <2>2 DEF AskFails
  <2>3. CASE AnswerLost
    BY <2>3 DEF AnswerLost
  <2>. QED
    BY <1>7, <2>1, <2>2, <2>3
<1>8. CASE ReadHeader
  <2>1. stream' \in Seq(Parts)
    BY <1>8, Taken DEF ReadHeader
  <2>2. parts' \in 0 .. 2
    BY <1>8 DEF ReadHeader
  <2>. QED
    BY <1>0, <1>8, <2>1, <2>2 DEF ReadHeader
<1>9. CASE ReadBody
  <2>1. stream' \in Seq(Parts) /\ Head(stream) \in Parts
    BY <1>9, Taken DEF ReadBody
  <2>2. Head(stream).pic \in 1 .. MaxPictures
    BY <2>1 DEF Parts
  <2>3. picbuf' \in Seq(1 .. MaxPictures)
    BY <1>9, <2>2, Added DEF ReadBody
  <2>4. parts' \in 0 .. 2
    BY <1>9 DEF ReadBody
  <2>. QED
    BY <1>9, <2>1, <2>3, <2>4 DEF ReadBody
<1>10. CASE Show
  BY <1>10 DEF Show
<1>11. CASE Answer
  <2>1. picture' \in 0 .. MaxPictures /\ sending' \in Seq(Parts)
    BY <1>11, Answered
  <2>2. asked' \in Nat
    BY <1>11 DEF Answer
  <2>. QED
    BY <1>11, <2>1, <2>2 DEF Answer
<1>12. CASE Deliver
  <2>1. Head(sending) \in Parts /\ sending' \in Seq(Parts)
    BY <1>12, Taken DEF Deliver
  <2>2. stream' \in Seq(Parts)
    BY <1>12, <2>1, Added DEF Deliver
  <2>. QED
    BY <1>12, <2>1, <2>2 DEF Deliver
<1>13. CASE ServerEnds
  BY <1>0, <1>13 DEF ServerEnds
<1>14. CASE UNCHANGED vars
  BY <1>14 DEF vars
<1>. QED
  BY <1>1, <1>2, <1>3, <1>4, <1>5, <1>6, <1>7, <1>8, <1>9, <1>10, <1>11, <1>12, <1>13, <1>14
  DEF Next, Updatepic
-----------------------------------------------------------------------------
(* The exchange with the server.                                           *)
LEMMA ExchangeInit == Init => Exchange /\ PictureShownWhole
BY DEF Init, Exchange, PictureShownWhole

(* A part on its way is one of the same picture.                           *)
LEMMA DeliverOnly ==
  ASSUME TypeOK, Deliver, NEW p, NEW s, OnlyOf(p, s)
  PROVE  OnlyOf(p, s)'
<1>1. /\ stream \in Seq(Parts) /\ sending \in Seq(Parts) /\ sending # <<>>
      /\ stream' = Append(stream, Head(sending)) /\ sending' = Tail(sending)
  BY DEF Deliver, TypeOK
<1>2. /\ Head(sending) \in Parts /\ 1 \in DOMAIN sending /\ Head(sending) = sending[1]
      /\ \A i \in DOMAIN sending' : i + 1 \in DOMAIN sending /\ sending'[i] = sending[i + 1]
  BY <1>1, Taken
<1>3. \A i \in DOMAIN stream' :
        (i \in DOMAIN stream /\ stream'[i] = stream[i]) \/ stream'[i] = Head(sending)
  BY <1>1, <1>2, Added
<1>4. Head(sending).pic = p
  BY <1>2 DEF OnlyOf
<1>5. \A i \in DOMAIN stream' : stream'[i].pic = p
  BY <1>3, <1>4 DEF OnlyOf
<1>6. \A i \in DOMAIN sending' : sending'[i].pic = p
  BY <1>2 DEF OnlyOf
<1>. QED
  BY <1>5, <1>6 DEF OnlyOf

LEMMA DeliverStep == TypeOK /\ Exchange /\ Deliver => Exchange'
<1> SUFFICES ASSUME TypeOK, Exchange, Deliver PROVE Exchange'
  OBVIOUS
<1>1. /\ stream \in Seq(Parts) /\ sending \in Seq(Parts) /\ sending # <<>>
      /\ stream' = Append(stream, Head(sending)) /\ sending' = Tail(sending)
      /\ UNCHANGED <<pc, parts, picbuf, asked, sock>>
  BY DEF Deliver, TypeOK, picVars
<1>2. /\ Head(sending) \in Parts /\ Len(sending) = Len(sending') + 1 /\ Len(sending') \in Nat
  BY <1>1, Taken
<1>3. /\ stream' # <<>> /\ Len(stream) \in Nat /\ Len(stream') = Len(stream) + 1
      /\ stream = <<>> => Head(stream') = Head(sending)
      /\ stream # <<>> => Head(stream') = Head(stream)
  BY <1>1, <1>2, Added
<1>4. Len(stream') + Len(sending') = Len(stream) + Len(sending)
  BY <1>2, <1>3
<1>5. pc # "idle"
  BY <1>1 DEF Exchange
<1>6. CASE pc = "header"
  <2>1. asked = 0 /\ HeaderFirst /\ Len(stream') + Len(sending') <= 3
    BY <1>1, <1>4, <1>6 DEF Exchange
  <2>2. PICK p \in 1 .. MaxPictures : OnlyOf(p, <<>>)
    BY <1>6, <2>1 DEF Exchange
  <2>3. OnlyOf(p, <<>>)'
    BY <2>2, DeliverOnly
  <2>4. ASSUME Head(stream').kind # "header" PROVE Len(stream') = 1 /\ sending' = <<>>
    <3>1. stream = <<>>
      <4>1. CASE stream # <<>>
        <5>1. sending = <<>>
          BY <1>3, <2>1, <2>4, <4>1 DEF HeaderFirst
        <5>. QED
          BY <1>1, <5>1
      <4>. QED
        BY <4>1
    <3>2. Len(sending) = 1
      BY <1>1, <1>3, <2>1, <2>4, <3>1 DEF HeaderFirst
    <3>3. Len(stream) = 0
      BY <3>1, Nothing
    <3>4. Len(stream') = 1
      BY <1>3, <3>3
    <3>5. sending' = <<>>
      BY <1>1, <3>2
    <3>. QED
      BY <3>4, <3>5
  <2>5. HeaderFirst'
    BY <1>3, <2>4 DEF HeaderFirst
  <2>. QED
    BY <1>1, <1>6, <2>1, <2>3, <2>5 DEF Exchange
<1>7. CASE pc = "body"
  <2>1. PICK p \in 1 .. MaxPictures : OnlyOf(p, picbuf)
    BY <1>7 DEF Exchange
  <2>2. OnlyOf(p, picbuf)'
    BY <1>1, <2>1, DeliverOnly DEF OnlyOf
  <2>. QED
    BY <1>1, <1>4, <1>7, <2>2 DEF Exchange
<1>. QED
  BY <1>5, <1>6, <1>7 DEF TypeOK
LEMMA ReadStep ==
  TypeOK /\ Exchange /\ (ReadHeader \/ ReadBody) => Exchange'
<1> SUFFICES ASSUME TypeOK, Exchange, ReadHeader \/ ReadBody PROVE Exchange'
  OBVIOUS
<1>1. /\ stream \in Seq(Parts) /\ sending \in Seq(Parts) /\ picbuf \in Seq(1 .. MaxPictures)
      /\ stream # <<>> /\ stream' = Tail(stream)
      /\ UNCHANGED <<sending, asked, sock>> /\ parts \in 0 .. 2
  BY DEF ReadHeader, ReadBody, TypeOK
<1>2. /\ Head(stream) \in Parts /\ Len(stream) = Len(stream') + 1 /\ Len(stream') \in Nat
      /\ 1 \in DOMAIN stream /\ Head(stream) = stream[1]
      /\ \A i \in DOMAIN stream' : i + 1 \in DOMAIN stream /\ stream'[i] = stream[i + 1]
  BY <1>1, Taken
<1>3. Len(sending) \in Nat
  BY <1>1
<1>4. CASE ReadHeader
  <2>1. /\ pc = "header" /\ pc' = "body" /\ picbuf' = <<>>
        /\ parts' = IF Head(stream).kind = "header" THEN 2 ELSE 0
    BY <1>4 DEF ReadHeader
  <2>2. asked = 0 /\ Len(stream) + Len(sending) <= 3 /\ HeaderFirst /\ sock = "connected"
    BY <1>1, <2>1 DEF Exchange
  <2>3. Len(stream') + Len(sending) <= parts'
    <3>1. CASE Head(stream).kind = "header"
      BY <1>2, <1>3, <2>1, <2>2, <3>1
    <3>2. CASE Head(stream).kind # "header"
      <4>1. Len(stream) = 1 /\ Len(sending) = 0
        BY <1>1, <2>2, <3>2, Nothing DEF HeaderFirst
      <4>2. stream' = <<>>
        BY <1>1, <4>1
      <4>3. Len(stream') = 0
        BY <4>2, Nothing
      <4>. QED
        BY <2>1, <3>2, <4>1, <4>3
    <3>. QED
      BY <3>1, <3>2
  <2>4. PICK p \in 1 .. MaxPictures : OnlyOf(p, <<>>)
    BY <2>1, <2>2 DEF Exchange
  <2>5. OnlyOf(p, picbuf)'
    BY <1>1, <1>2, <2>1, <2>4, Nothing DEF OnlyOf
  <2>6. Len(picbuf') + parts' = 2 \/ (parts' = 0 /\ picbuf' = <<>>)
    BY <2>1, Nothing
  <2>. QED
    BY <1>1, <2>1, <2>2, <2>3, <2>5, <2>6 DEF Exchange
<1>5. CASE ReadBody
  <2>1. /\ pc = "body" /\ pc' = "body" /\ parts > 0 /\ parts' = parts - 1
        /\ picbuf' = Append(picbuf, Head(stream).pic)
    BY <1>5 DEF ReadBody
  <2>2. asked = 0 /\ Len(stream) + Len(sending) <= parts /\ sock = "connected"
        /\ Len(picbuf) + parts = 2
    BY <1>1, <2>1 DEF Exchange
  <2>3. Len(stream') + Len(sending) <= parts'
    BY <1>1, <1>2, <1>3, <2>1, <2>2
  <2>4. PICK p \in 1 .. MaxPictures : OnlyOf(p, picbuf)
    BY <2>1 DEF Exchange
  <2>5. Head(stream).pic = p
    BY <1>2, <2>4 DEF OnlyOf
  <2>6. /\ Len(picbuf) \in Nat /\ Len(picbuf') = Len(picbuf) + 1
        /\ \A i \in DOMAIN picbuf' : (i \in DOMAIN picbuf /\ picbuf'[i] = picbuf[i]) \/ picbuf'[i] = p
    BY <1>1, <2>1, <2>5, Added
  <2>7. OnlyOf(p, picbuf)'
    BY <1>1, <1>2, <2>4, <2>6 DEF OnlyOf
  <2>8. Len(picbuf') + parts' = 2
    BY <1>1, <2>1, <2>2, <2>6
  <2>. QED
    BY <1>1, <2>1, <2>2, <2>3, <2>7, <2>8 DEF Exchange
<1>. QED
  BY <1>4, <1>5

LEMMA AnswerStep == TypeOK /\ Exchange /\ Answer => Exchange'
<1> SUFFICES ASSUME TypeOK, Exchange, Answer PROVE Exchange'
  OBVIOUS
<1>1. /\ asked > 0 /\ asked' = asked - 1 /\ asked \in Nat
      /\ UNCHANGED <<pc, parts, picbuf, sock, stream>> /\ pc \in {"idle", "header", "body"}
  BY DEF Answer, TypeOK, picVars
<1>2. /\ pc = "header" /\ asked = 1 /\ stream = <<>>
  BY <1>1 DEF Exchange
<1>3. /\ picture' \in 1 .. MaxPictures /\ sending' \in Seq(Parts)
      /\ Len(sending') \in {1, 3} /\ sending' # <<>>
      /\ \A i \in DOMAIN sending' : sending'[i].pic = picture'
      /\ Head(sending').kind # "header" => Len(sending') = 1
  BY Answered
<1>4. HeaderFirst'
  BY <1>1, <1>2, <1>3 DEF HeaderFirst
<1>5. \E p \in 1 .. MaxPictures : OnlyOf(p, <<>>)'
  BY <1>1, <1>2, <1>3, Nothing DEF OnlyOf
<1>6. Len(stream') + Len(sending') <= 3
  <2>1. Len(stream') = 0
    BY <1>1, <1>2, Nothing
  <2>. QED
    BY <1>3, <2>1
<1>7. asked' = 0 /\ pc' = "header" /\ sock' = "connected"
  BY <1>1, <1>2 DEF Exchange
<1>. QED
  BY <1>4, <1>5, <1>6, <1>7 DEF Exchange

LEMMA ExchangeStep == TypeOK /\ Exchange /\ [Next]_vars => Exchange'
<1> SUFFICES ASSUME TypeOK, Exchange, [Next]_vars PROVE Exchange'
  OBVIOUS
<1>0. /\ pc \in {"idle", "header", "body"} /\ parts \in 0 .. 2 /\ MaxPictures \in Nat
      /\ stream \in Seq(Parts) /\ sending \in Seq(Parts) /\ picture \in 0 .. MaxPictures
      /\ asked \in Nat
  BY ClientAssumption DEF TypeOK
<1>1. CASE OpenNew
  <2>1. pc = "idle" /\ pc' = "idle" /\ stream' = <<>> /\ asked' = 0 /\ sending' = <<>>
    BY <1>1 DEF OpenNew, EventLoop, picVars
  <2>. QED
    BY <2>1 DEF Exchange
<1>2. CASE OpenAgain \/ CloseVideo \/ PressEarly \/ Msconnected \/ ConnectFails \/ Msdisconnected
  <2>1. pc = "idle" /\ UNCHANGED <<pc, stream, asked, sending>>
    BY <1>2 DEF OpenAgain, CloseVideo, PressEarly, Msconnected, ConnectFails, Msdisconnected,
       EventLoop, picVars, linkVars
  <2>. QED
    BY <2>1 DEF Exchange
<1>3. CASE Ask \/ AskConnecting
  <2>1. /\ pc = "idle" /\ pc' = "header" /\ asked' = asked + 1 /\ sock' = "connected"
        /\ UNCHANGED <<stream, sending>>
    BY <1>3 DEF Ask, AskConnecting, Tick, EventLoop
  <2>2. asked' = 1 /\ stream' = <<>> /\ sending' = <<>>
    BY <2>1 DEF Exchange
  <2>3. Len(stream') + Len(sending') <= 3
    BY <2>2, Nothing
  <2>4. HeaderFirst'
    BY <2>2 DEF HeaderFirst
  <2>. QED
    BY <2>1, <2>2, <2>3, <2>4 DEF Exchange
<1>4. CASE AskFails \/ AnswerLost
  <2>1. UNCHANGED <<pc, parts, picbuf, stream, asked, sending, sock>>
    BY <1>4 DEF AskFails, AnswerLost, picVars, linkVars
  <2>. QED
    BY <2>1 DEF Exchange, HeaderFirst, OnlyOf
<1>5. CASE ReadHeader \/ ReadBody
  BY <1>5, ReadStep
<1>6. CASE Show
  <2>1. pc = "body" /\ pc' = "idle" /\ parts = 0 /\ UNCHANGED <<stream, asked, sending>>
    BY <1>6 DEF Show, linkVars
  <2>2. asked = 0 /\ Len(stream) + Len(sending) <= 0 /\ Len(stream) \in Nat /\ Len(sending) \in Nat
    BY <1>0, <2>1 DEF Exchange
  <2>3. stream = <<>> /\ sending = <<>>
    BY <1>0, <2>2
  <2>. QED
    BY <2>1, <2>2, <2>3 DEF Exchange
<1>7. CASE Answer
  BY <1>7, AnswerStep
<1>8. CASE Deliver
  BY <1>8, DeliverStep
<1>9. CASE ServerEnds
  <2>1. sending' = <<>> /\ UNCHANGED <<pc, parts, picbuf, stream, asked, sock>>
    BY <1>9 DEF ServerEnds, picVars
  <2>2. Len(stream') + Len(sending') <= Len(stream) + Len(sending)
        /\ Len(stream) \in Nat /\ Len(sending) \in Nat
    BY <1>0, <2>1, Nothing
  <2>3. \A p, s : OnlyOf(p, s) => OnlyOf(p, s)'
    BY <2>1, Nothing DEF OnlyOf
  <2>4. CASE pc = "header"
    <3>1. HeaderFirst' /\ Len(stream') + Len(sending') <= 3
      BY <1>0, <2>1, <2>2, <2>4 DEF Exchange, HeaderFirst
    <3>2. asked' = 0 => \E p \in 1 .. MaxPictures : OnlyOf(p, <<>>)'
      BY <2>1, <2>3, <2>4 DEF Exchange
    <3>. QED
      BY <2>1, <2>4, <3>1, <3>2 DEF Exchange
  <2>5. CASE pc = "body"
    <3>1. PICK p \in 1 .. MaxPictures : OnlyOf(p, picbuf)
      BY <2>5 DEF Exchange
    <3>2. OnlyOf(p, picbuf)'
      BY <2>1, <3>1, Nothing DEF OnlyOf
    <3>3. Len(stream') + Len(sending') <= parts
      BY <1>0, <2>1, <2>2, <2>5 DEF Exchange
    <3>. QED
      BY <2>1, <2>5, <3>2, <3>3 DEF Exchange
  <2>6. CASE pc = "idle"
    BY <2>1, <2>6 DEF Exchange
  <2>. QED
    BY <1>0, <2>4, <2>5, <2>6
<1>10. CASE UNCHANGED vars
  BY <1>10 DEF vars, picVars, linkVars, Exchange, HeaderFirst, OnlyOf
<1>. QED
  BY <1>1, <1>2, <1>3, <1>4, <1>5, <1>6, <1>7, <1>8, <1>9, <1>10 DEF Next, Updatepic

-----------------------------------------------------------------------------
(* What is shown, what ticks, and what brings the application down.        *)
LEMMA ShownStep == TypeOK /\ Exchange /\ PictureShownWhole /\ [Next]_vars => PictureShownWhole'
<1> SUFFICES ASSUME TypeOK, Exchange, PictureShownWhole, [Next]_vars PROVE PictureShownWhole'
  OBVIOUS
<1>1. CASE Show
  <2>1. pc = "body" /\ parts = 0 /\ shown' = picbuf /\ picbuf \in Seq(1 .. MaxPictures)
    BY <1>1 DEF Show, TypeOK
  <2>2. Len(picbuf) + 0 = 2 \/ picbuf = <<>>
    BY <2>1 DEF Exchange
  <2>3. PICK p : OnlyOf(p, picbuf)
    BY <2>1 DEF Exchange
  <2>4. ASSUME Len(picbuf) + 0 = 2 PROVE Len(picbuf) = 2 /\ picbuf[1] = picbuf[2]
    <3>1. Len(picbuf) = 2 /\ 1 \in DOMAIN picbuf /\ 2 \in DOMAIN picbuf
      BY <2>1, <2>4
    <3>. QED
      BY <2>3, <3>1 DEF OnlyOf
  <2>. QED
    BY <2>1, <2>2, <2>4 DEF PictureShownWhole
<1>2. CASE CloseVideo
  BY <1>2 DEF CloseVideo, PictureShownWhole
<1>3. CASE shown' = shown
  BY <1>3 DEF PictureShownWhole
<1>. QED
  BY <1>1, <1>2, <1>3
  DEF Next, Updatepic, OpenNew, OpenAgain, PressEarly, Msconnected, ConnectFails, Msdisconnected,
      Ask, AskConnecting, AskFails, AnswerLost, ReadHeader, ReadBody, Answer, Deliver, ServerEnds,
      picVars, vars

LEMMA TickingInit == Init => Ticking /\ SurvivesNotedLoss
BY DEF Init, Ticking, SurvivesNotedLoss

LEMMA TickingStep == TypeOK /\ Ticking /\ [Next]_vars => Ticking'
<1> SUFFICES ASSUME TypeOK, Ticking, [Next]_vars PROVE Ticking'
  OBVIOUS
<1> USE DEF Ticking, buttonVars
<1>0. timer \in Nat /\ active \subseteq 1 .. timer
  BY ClientAssumption DEF TypeOK
<1>1. CASE OpenNew
  BY <1>1 DEF OpenNew
<1>2. CASE OpenAgain
  BY <1>2 DEF OpenAgain
<1>3. CASE CloseVideo
  BY <1>3 DEF CloseVideo
<1>4. CASE PressEarly
  <2>1. active = {} /\ UNCHANGED <<active, sock, stray>>
    BY <1>0, <1>4 DEF PressEarly
  <2>. QED
    BY <2>1
<1>5. CASE Msconnected \/ AskConnecting
  <2>1. /\ timer' = timer + 1 /\ active' = active \cup {timer + 1}
        /\ stray' = (stray \/ active # {} \/ enabled = "open")
        /\ enabled' = enabled /\ sock' = "connected"
    BY <1>5 DEF Msconnected, AskConnecting, NewTimer
  <2>2. CASE stray'
    BY <2>2
  <2>3. CASE ~stray'
    <3>1. active = {} /\ enabled # "open"
      BY <2>1, <2>3
    <3>. QED
      BY <2>1, <3>1
  <2>. QED
    BY <2>2, <2>3
<1>6. CASE ConnectFails
  BY <1>6 DEF ConnectFails
<1>7. CASE Msdisconnected
  BY <1>7 DEF Msdisconnected
<1>8. CASE UNCHANGED <<stray, active, timer, enabled, sock>>
  BY <1>8
<1>. QED
  BY <1>1, <1>2, <1>3, <1>4, <1>5, <1>6, <1>7, <1>8
  DEF Next, Updatepic, Ask, AskFails, AnswerLost, ReadHeader, ReadBody, Show, Answer, Deliver,
      ServerEnds, vars

LEMMA NotedLossStep ==
  TypeOK /\ Ticking /\ SurvivesNotedLoss /\ [Next]_vars => SurvivesNotedLoss'
<1> SUFFICES ASSUME TypeOK, Ticking, SurvivesNotedLoss, [Next]_vars PROVE SurvivesNotedLoss'
  OBVIOUS
<1> USE DEF SurvivesNotedLoss, buttonVars
<1>1. CASE OpenNew \/ OpenAgain \/ CloseVideo
  BY <1>1 DEF OpenNew, OpenAgain, CloseVideo, EventLoop
<1>2. CASE PressEarly
  BY <1>2 DEF PressEarly
<1>3. CASE Msconnected \/ AskConnecting
  BY <1>3 DEF Msconnected, AskConnecting, Tick, EventLoop
<1>4. CASE ConnectFails \/ Msdisconnected
  BY <1>4 DEF ConnectFails, Msdisconnected, EventLoop
<1>5. CASE AskFails
  <2>1. /\ sock \in {"null", "connecting", "unconnected"} /\ active # {}
        /\ UNCHANGED <<sock, stray>>
    BY <1>5 DEF AskFails, Tick, TypeOK
  <2>2. sock = "null" => stray
    BY <2>1 DEF Ticking
  <2>. QED
    BY <2>1, <2>2
<1>6. CASE AnswerLost
  <2>1. pc # "idle" /\ UNCHANGED pc
    BY <1>6 DEF AnswerLost, picVars
  <2>. QED
    BY <2>1
<1>7. CASE Ask \/ ReadHeader \/ ReadBody \/ Show
  BY <1>7 DEF Ask, Tick, EventLoop, ReadHeader, ReadBody, Show
<1>8. CASE UNCHANGED <<crash, pc, early, stray, sock>>
  BY <1>8
<1>. QED
  BY <1>1, <1>2, <1>3, <1>4, <1>5, <1>6, <1>7, <1>8
  DEF Next, Updatepic, Answer, Deliver, ServerEnds, picVars, vars

-----------------------------------------------------------------------------
ClientInv == TypeOK /\ Numbered /\ Exchange /\ PictureShownWhole /\ Ticking
             /\ SurvivesNotedLoss

LEMMA InvInit == Init => ClientInv
BY TypedInit, ExchangeInit, TickingInit DEF ClientInv

LEMMA InvStep == ClientInv /\ [Next]_vars => ClientInv'
BY TypedStep, NumberedStep, ExchangeStep, ShownStep, TickingStep, NotedLossStep
DEF ClientInv

LEMMA Invariant == Spec => []ClientInv
BY InvInit, InvStep, PTL DEF Spec

(* The variables keep their types: in particular piclen never calls for    *)
(* less than nothing (widget.cpp, 417-533).                                *)
THEOREM TypeCorrect == Spec => []TypeOK
<1>1. ClientInv => TypeOK
  BY DEF ClientInv
<1>. QED
  BY <1>1, Invariant, PTL

(* Back in the event loop the application has read all it has asked for,   *)
(* so that the next 20 bytes are a header (widget.cpp, 468-516).           *)
THEOREM StaysInStep == Spec => []InStep
<1>1. ClientInv => InStep
  BY DEF ClientInv, Exchange, InStep, EventLoop
<1>. QED
  BY <1>1, Invariant, PTL

(* The label never shows parts of two pictures, or one part of one         *)
(* (widget.cpp, 465 and 499-519).                                          *)
THEOREM ShownWhole == Spec => []PictureShownWhole
<1>1. ClientInv => PictureShownWhole
  BY DEF ClientInv
<1>. QED
  BY <1>1, Invariant, PTL

(* While the video is closed nothing ticks, unless msconnected started a   *)
(* timer then or beside an active one (widget.cpp, 440-456 and 524-533).   *)
THEOREM Stopped == Spec => []ClosedIsStopped
<1>1. ClientInv => ClosedIsStopped
  BY DEF ClientInv, Ticking, ClosedIsStopped
<1>. QED
  BY <1>1, Invariant, PTL

(* Outside of an exchange with the server the application crashes only by  *)
(* an early button, by a stray timer or on a connection that did not come  *)
(* about: not by the loss of a connection that msdisconnected has noted,   *)
(* for nothing asks for pictures then (widget.cpp, 448-456).               *)
THEOREM SurvivesNoted == Spec => []SurvivesNotedLoss
<1>1. ClientInv => SurvivesNotedLoss
  BY DEF ClientInv
<1>. QED
  BY <1>1, Invariant, PTL

=============================================================================
