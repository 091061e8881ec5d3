-------------------------- MODULE VideoServerProofs --------------------------
(***************************************************************************)
(* Proofs about VideoServer, for any number of buffers, clients, discarded *)
(* and later pictures: types, the buffers, and that the server implements  *)
(* PictureService.                                                         *)
(***************************************************************************)
EXTENDS VideoServer, FiniteSetTheorems, TLAPS

(* Where the camera thread holds a buffer, and where its picture is in rgb. *)
Dequeued == {"discard", "convert", "lock", "head", "tail", "len", "eqbuf"}
Converted == {"lock", "head", "tail", "len", "eqbuf"}

(* The pictures dequeued so far.                                           *)
Taken == frame - Len(outgoing)

Elements(s) == {s[i] : i \in DOMAIN s}

(* BuffersConserved, without the concatenation.                            *)
Buffers ==
  /\ cam = "init" => incoming = <<>> /\ outgoing = <<>>
  /\ cam # "init" =>
       /\ Len(incoming) + Len(outgoing) + Len(Holding) = Cardinality(DOMAIN content)
       /\ Elements(incoming) \cup Elements(outgoing) \cup Elements(Holding) = DOMAIN content

(* A pointer that has been seen not to be NULL is not.                     *)
Allocated ==
  /\ cam \in {"init", "malloc"} <=> jpg = Null
  /\ jpgArg = "set" => jpg # Null
  /\ srv = "copy2" => jpg # Null

(* discarded counts the pictures dequeued up to the last to be discarded.  *)
Counted ==
  /\ cam = "discard" => discarded < Discards /\ Taken = discarded + 1
  /\ cam \notin Dequeued /\ discarded < Discards => Taken = discarded
  /\ discarded = Discards => Taken >= Discards
  /\ cam \in Dequeued \ {"discard"} => discarded = Discards /\ Taken > Discards

(* Pictures are dequeued one by one in the order they were taken.          *)
Ordered ==
  /\ \A i \in 1 .. Len(outgoing) : content[outgoing[i]] = Taken + i
  /\ cam \in Dequeued => content[index] = Taken
  /\ cam \in Converted => rgb = Taken

(* jpg_mutex does what it is for.                                          *)
Exclusion ==
  /\ mutex = "cam" <=> cam \in {"head", "tail", "len"}
  /\ mutex = "srv" <=> srv \in {"copy", "copy2"}

(* What is public is one whole picture, except where the camera thread has *)
(* the mutex; it is not one of the first, and older than the one to come.  *)
Public ==
  jpg # Null =>
    /\ jpg.len = 0 \/ jpg.len > Discards
    /\ jpg.len <= Taken
    /\ cam \in {"convert", "lock", "head", "tail", "len"} => jpg.len < Taken
    /\ mutex # "cam" => jpg.head = jpg.len /\ jpg.tail = jpg.len
    /\ cam \in {"tail", "len"} => jpg.head = rgb
    /\ cam = "len" => jpg.tail = rgb

Published == IF jpg = Null THEN 0 ELSE jpg.len

(* The server's copy in progress.                                          *)
Copying ==
  /\ srv \in {"lock", "copy", "copy2"} => asked <= Published
  /\ srv = "copy2" => piclen = jpg.len /\ buf.head = jpg.head

-----------------------------------------------------------------------------
LEMMA ElementsHead ==
  ASSUME NEW S, NEW q \in Seq(S), q # <<>>
  PROVE  /\ Head(q) \in S /\ Tail(q) \in Seq(S)
         /\ Len(q) = Len(Tail(q)) + 1 /\ Len(Tail(q)) \in Nat
         /\ \A i \in 1 .. Len(Tail(q)) : Tail(q)[i] = q[i + 1]
         /\ Head(q) = q[1]
         /\ Elements(q) = {Head(q)} \cup Elements(Tail(q))
<1>1. /\ Head(q) \in S /\ Tail(q) \in Seq(S)
      /\ Len(q) = Len(Tail(q)) + 1 /\ Len(Tail(q)) \in Nat
      /\ \A i \in 1 .. Len(Tail(q)) : Tail(q)[i] = q[i + 1]
      /\ Head(q) = q[1]
      /\ DOMAIN q = 1 .. Len(q) /\ DOMAIN Tail(q) = 1 .. Len(Tail(q))
  OBVIOUS
<1>2. ASSUME NEW i \in DOMAIN q PROVE q[i] \in {Head(q)} \cup Elements(Tail(q))
  <2>1. CASE i = 1
    BY <1>1, <2>1
  <2>2. CASE i # 1
    <3>1. i - 1 \in 1 .. Len(Tail(q)) /\ q[i] = Tail(q)[i - 1]
      BY <1>1, <2>2
    <3>. QED
      BY <1>1, <3>1 DEF Elements
  <2>. QED
    BY <2>1, <2>2
<1>3. ASSUME NEW i \in DOMAIN Tail(q) PROVE Tail(q)[i] \in Elements(q)
  <2>1. i + 1 \in DOMAIN q /\ Tail(q)[i] = q[i + 1]
    BY <1>1
  <2>. QED
    BY <2>1 DEF Elements
<1>4. Head(q) \in Elements(q)
  <2>1. 1 \in DOMAIN q
    BY <1>1
  <2>. QED
    BY <1>1, <2>1 DEF Elements
<1>. QED
  BY <1>1, <1>2, <1>3, <1>4 DEF Elements

LEMMA ElementsAppend ==
  ASSUME NEW S, NEW q \in Seq(S), NEW x \in S
  PROVE  /\ Append(q, x) \in Seq(S)
         /\ Len(q) \in Nat /\ Len(Append(q, x)) = Len(q) + 1
         /\ Append(q, x)[Len(q) + 1] = x
         /\ \A i \in 1 .. Len(q) : Append(q, x)[i] = q[i]
         /\ Elements(Append(q, x)) = Elements(q) \cup {x}
<1>1. /\ Append(q, x) \in Seq(S)
      /\ Len(q) \in Nat /\ Len(Append(q, x)) = Len(q) + 1
      /\ Append(q, x)[Len(q) + 1] = x
      /\ \A i \in 1 .. Len(q) : Append(q, x)[i] = q[i]
      /\ DOMAIN q = 1 .. Len(q) /\ DOMAIN Append(q, x) = 1 .. Len(q) + 1
  OBVIOUS
<1>2. ASSUME NEW i \in DOMAIN Append(q, x) PROVE Append(q, x)[i] \in Elements(q) \cup {x}
  <2>1. CASE i = Len(q) + 1
    BY <1>1, <2>1
  <2>2. CASE i # Len(q) + 1
    <3>1. i \in DOMAIN q /\ Append(q, x)[i] = q[i]
      BY <1>1, <2>2
    <3>. QED
      BY <3>1 DEF Elements
  <2>. QED
    BY <2>1, <2>2
<1>3. ASSUME NEW i \in DOMAIN q PROVE q[i] \in Elements(Append(q, x))
  <2>1. i \in DOMAIN Append(q, x) /\ Append(q, x)[i] = q[i]
    BY <1>1
  <2>. QED
    BY <2>1 DEF Elements
<1>4. x \in Elements(Append(q, x))
  <2>1. Len(q) + 1 \in DOMAIN Append(q, x)
    BY <1>1
  <2>. QED
    BY <1>1, <2>1 DEF Elements
<1>. QED
  BY <1>1, <1>2, <1>3, <1>4 DEF Elements

LEMMA ElementsFew ==
  /\ Elements(<<>>) = {} /\ Len(<<>>) = 0
  /\ \A x : Elements(<<x>>) = {x} /\ Len(<<x>>) = 1
BY DEF Elements

(* The buffers camera_init queues.                                         *)
LEMMA Granted ==
  ASSUME NEW n \in 1 .. ReqBufs
  PROVE  /\ [i \in 1 .. n |-> i - 1] \in Seq(Bufs)
         /\ Len([i \in 1 .. n |-> i - 1]) = n
         /\ Elements([i \in 1 .. n |-> i - 1]) = 0 .. n - 1
         /\ Cardinality(0 .. n - 1) = n
<1>. DEFINE q == [i \in 1 .. n |-> i - 1]
<1>1. n \in Nat /\ \A i \in 1 .. n : i - 1 \in Bufs
  BY VideoAssumption DEF Bufs
<1>2. q \in Seq(Bufs) /\ Len(q) = n /\ DOMAIN q = 1 .. n
  BY <1>1
<1>3. \A b \in 0 .. n - 1 : b + 1 \in 1 .. n /\ q[b + 1] = b
  BY <1>1
<1>4. Elements(q) = 0 .. n - 1
  <2>1. \A i \in 1 .. n : q[i] \in 0 .. n - 1
    BY <1>1
  <2>2. Elements(q) \subseteq 0 .. n - 1
    BY <1>2, <2>1 DEF Elements
  <2>3. 0 .. n - 1 \subseteq Elements(q)
    BY <1>2, <1>3 DEF Elements
  <2>. QED
    BY <2>2, <2>3
<1>5. Cardinality(0 .. n - 1) = n
  BY <1>1, FS_Interval
<1>. QED
  BY <1>2, <1>4, <1>5

LEMMA HoldingIs ==
  /\ cam \in Dequeued => Holding = <<index>>
  /\ cam \notin Dequeued => Holding = <<>>
BY DEF Holding, Dequeued

-----------------------------------------------------------------------------
(* Types.  A dequeued buffer is one the driver has granted, jpg points to  *)
(* a picture where the threads use it, and no picture too many is          *)
(* discarded.                                                              *)
LEMMA TypedInit == Init => TypeOK /\ Buffers /\ Allocated
<1> SUFFICES ASSUME Init PROVE TypeOK /\ Buffers /\ Allocated
  OBVIOUS
<1>1. 0 \in Frames /\ 0 \in Bufs /\ 0 \in 0 .. MaxRequests /\ 0 \in 0 .. Discards
  BY VideoAssumption DEF Frames, Bufs
<1>2. TypeOK
  BY <1>1 DEF Init, TypeOK
<1>. QED
  BY <1>2 DEF Init, Buffers, Allocated

LEMMA IndexGranted ==
  ASSUME TypeOK, Buffers, cam \in Dequeued
  PROVE  index \in DOMAIN content /\ content[index] \in Frames
<1>1. cam # "init" /\ Holding = <<index>>
  BY HoldingIs DEF Dequeued
<1>2. index \in Elements(Holding)
  BY <1>1, ElementsFew
<1>. QED
  BY <1>1, <1>2 DEF Buffers, TypeOK

LEMMA TypedStep == TypeOK /\ Buffers /\ Allocated /\ Counted /\ [Next]_vars => TypeOK'
<1> SUFFICES ASSUME TypeOK, Buffers, Allocated, Counted, [Next]_vars PROVE TypeOK'
  OBVIOUS
<1> USE DEF TypeOK, CamGoes, SrvGoes, driverVars, clientVars, camVars, srvVars
<1>1. CASE Fill
  <2>1. frame + 1 \in Frames
    BY <1>1, VideoAssumption DEF Fill, Frames
  <2>2. Head(incoming) \in Bufs /\ Tail(incoming) \in Seq(Bufs)
    BY <1>1, ElementsHead DEF Fill
  <2>3. incoming' \in Seq(Bufs) /\ outgoing' \in Seq(Bufs)
    BY <1>1, <2>2, ElementsAppend DEF Fill
  <2>4. DOMAIN content' = DOMAIN content /\ \A b \in DOMAIN content : content'[b] \in Frames
    BY <1>1, <2>1 DEF Fill
  <2>. QED
    BY <1>1, <2>1, <2>3, <2>4 DEF Fill
<1>2. ASSUME NEW c \in Clients, Connect(c) PROVE TypeOK'
  BY <1>2 DEF Connect
<1>3. ASSUME NEW c \in Clients, Ask(c) PROVE TypeOK'
  <2>1. asks' \in [Clients -> 0 .. MaxRequests]
    <3>1. asks[c] + 1 \in 0 .. MaxRequests
      BY <1>3, VideoAssumption DEF Ask
    <3>. QED
      BY <1>3, <3>1 DEF Ask
  <2>. QED
    BY <1>3, <2>1 DEF Ask
<1>4. ASSUME NEW c \in Clients, HangUp(c) PROVE TypeOK'
  BY <1>4 DEF HangUp
<1>5. ASSUME NEW c \in Clients, Accept(c) PROVE TypeOK'
  BY <1>5 DEF Accept
<1>6. CASE CamInit
  <2>1. PICK granted \in 1 .. ReqBufs :
          /\ content' = [b \in 0 .. granted - 1 |-> 0]
          /\ incoming' = [i \in 1 .. granted |-> i - 1]
    BY <1>6 DEF CamInit
  <2>2. incoming' \in Seq(Bufs)
    BY <2>1, Granted
  <2>3. DOMAIN content' \subseteq Bufs /\ \A b \in DOMAIN content' : content'[b] \in Frames
    BY <2>1, VideoAssumption DEF Bufs, Frames
  <2>. QED
    BY <1>6, <2>2, <2>3 DEF CamInit
<1>7. CASE CamMalloc
  <2>1. jpg' \in Pictures
    BY <1>7, VideoAssumption DEF CamMalloc, Pictures, Frames
  <2>. QED
    BY <1>7, <2>1 DEF CamMalloc
<1>8. CASE Dqbuf
  <2>1. Head(outgoing) \in Bufs /\ Tail(outgoing) \in Seq(Bufs)
    BY <1>8, ElementsHead DEF Dqbuf
  <2>. QED
    BY <1>8, <2>1 DEF Dqbuf
<1>9. CASE Discard
  <2>1. discarded + 1 \in 0 .. Discards
    BY <1>9, VideoAssumption DEF Discard, Counted
  <2>2. Append(incoming, index) \in Seq(Bufs)
    BY ElementsAppend
  <2>. QED
    BY <1>9, <2>1, <2>2 DEF Discard
<1>10. CASE Eqbuf
  <2>1. Append(incoming, index) \in Seq(Bufs)
    BY ElementsAppend
  <2>. QED
    BY <1>10, <2>1 DEF Eqbuf
<1>11. CASE Convert
  <2>1. content[index] \in Frames
    BY <1>11, IndexGranted DEF Convert, Dequeued
  <2>. QED
    BY <1>11, <2>1 DEF Convert
<1>12. CASE CamLock
  BY <1>12 DEF CamLock
<1>13. CASE EncodeHead \/ EncodeTail \/ SetLen
  <2>1. jpg \in Pictures
    BY <1>13 DEF EncodeHead, EncodeTail, SetLen, Allocated
  <2>2. jpg' \in Pictures
    BY <1>13, <2>1 DEF EncodeHead, EncodeTail, SetLen, Pictures
  <2>. QED
    BY <1>13, <2>2 DEF EncodeHead, EncodeTail, SetLen
<1>14. CASE CamFails \/ SrvInitFails \/ CopyCrashes \/ WriteKills
  BY <1>14 DEF CamFails, SrvInitFails, CopyCrashes, WriteKills
<1>15. CASE SrvInit \/ WriteHeader \/ WriteBody
  BY <1>15 DEF SrvInit, WriteHeader, WriteBody
<1>16. CASE Call
  BY <1>16 DEF Call
<1>17. CASE Read
  <2>1. asked' \in Frames
    BY <1>17, VideoAssumption DEF Read, Pictures, Frames
  <2>. QED
    BY <1>17, <2>1 DEF Read
<1>18. CASE SrvLock
  BY <1>18 DEF SrvLock
<1>19. CASE Copy \/ CopyRest
  <2>1. jpg \in Pictures
    BY <1>19 DEF Copy, CopyRest, Allocated
  <2>2. jpg.head \in Frames /\ jpg.tail \in Frames /\ jpg.len \in Frames
    BY <2>1 DEF Pictures
  <2>. QED
    BY <1>19, <2>2 DEF Copy, CopyRest
<1>20. CASE UNCHANGED vars
  BY <1>20 DEF vars
<1>. QED
  BY <1>1, <1>2, <1>3, <1>4, <1>5, <1>6, <1>7, <1>8, <1>9, <1>10, <1>11, <1>12, <1>13,
     <1>14, <1>15, <1>16, <1>17, <1>18, <1>19, <1>20
  DEF Next, CameraThread, CopyUnderLock, Writes

-----------------------------------------------------------------------------
(* The buffers.                                                            *)
LEMMA BuffersStep == TypeOK /\ Buffers /\ [Next]_vars => Buffers'
<1> SUFFICES ASSUME TypeOK, Buffers, [Next]_vars PROVE Buffers'
  OBVIOUS
<1>0. incoming \in Seq(Bufs) /\ outgoing \in Seq(Bufs) /\ index \in Bufs
  BY DEF TypeOK
<1>1. CASE Fill
  <2>1. /\ incoming # <<>> /\ incoming' = Tail(incoming)
        /\ outgoing' = Append(outgoing, Head(incoming))
        /\ DOMAIN content' = DOMAIN content /\ cam' = cam /\ Holding' = Holding
    BY <1>1 DEF Fill, camVars, Holding
  <2>2. Head(incoming) \in Bufs
    BY <1>0, <2>1, ElementsHead
  <2>3. /\ Len(incoming) = Len(incoming') + 1 /\ Len(incoming') \in Nat
        /\ Elements(incoming) = {Head(incoming)} \cup Elements(incoming')
    BY <1>0, <2>1, ElementsHead
  <2>4. /\ Len(outgoing') = Len(outgoing) + 1 /\ Len(outgoing) \in Nat
        /\ Elements(outgoing') = Elements(outgoing) \cup {Head(incoming)}
    BY <1>0, <2>1, <2>2, ElementsAppend
  <2>5. Len(Holding) \in Nat
    BY HoldingIs, ElementsFew
  <2>6. /\ Len(incoming) + Len(outgoing) + Len(Holding) = Cardinality(DOMAIN content)
        /\ Elements(incoming) \cup Elements(outgoing) \cup Elements(Holding) = DOMAIN content
        /\ cam # "init"
    BY <2>1 DEF Buffers
  <2>7. Len(incoming') + Len(outgoing') + Len(Holding') = Cardinality(DOMAIN content')
    BY <2>1, <2>3, <2>4, <2>5, <2>6
  <2>8. Elements(incoming') \cup Elements(outgoing') \cup Elements(Holding') = DOMAIN content'
    BY <2>1, <2>3, <2>4, <2>6
  <2>. QED
    BY <2>1, <2>6, <2>7, <2>8 DEF Buffers
<1>2. CASE CamInit
  <2>1. PICK granted \in 1 .. ReqBufs :
          /\ content' = [b \in 0 .. granted - 1 |-> 0]
          /\ incoming' = [i \in 1 .. granted |-> i - 1]
    BY <1>2 DEF CamInit
  <2>2. outgoing' = <<>> /\ Holding' = <<>> /\ cam' = "malloc"
    BY <1>2 DEF CamInit, CamGoes, Buffers, Holding
  <2>3. /\ Len(incoming') = granted /\ Elements(incoming') = 0 .. granted - 1
        /\ Cardinality(DOMAIN content') = granted /\ granted \in Nat
    BY <2>1, Granted
  <2>. QED
    BY <2>1, <2>2, <2>3, ElementsFew DEF Buffers
<1>3. CASE Dqbuf
  <2>1. /\ outgoing # <<>> /\ outgoing' = Tail(outgoing) /\ index' = Head(outgoing)
        /\ UNCHANGED <<incoming, content>> /\ cam = "dqbuf" /\ cam' \in Dequeued /\ cam' # "init"
    BY <1>3 DEF Dqbuf, CamGoes, Dequeued
  <2>2. Holding = <<>> /\ Holding' = <<index'>>
    BY <2>1 DEF Holding, Dequeued
  <2>3. /\ Len(outgoing) = Len(outgoing') + 1 /\ Len(outgoing') \in Nat /\ Len(incoming) \in Nat
        /\ Elements(outgoing) = {index'} \cup Elements(outgoing')
    BY <1>0, <2>1, ElementsHead
  <2>4. /\ Len(incoming) + Len(outgoing) + Len(Holding) = Cardinality(DOMAIN content)
        /\ Elements(incoming) \cup Elements(outgoing) \cup Elements(Holding) = DOMAIN content
    BY <2>1 DEF Buffers
  <2>5. /\ Len(Holding) = 0 /\ Len(Holding') = 1
        /\ Elements(Holding) = {} /\ Elements(Holding') = {index'}
    BY <2>2, ElementsFew
  <2>6. Len(incoming') + Len(outgoing') + Len(Holding') = Cardinality(DOMAIN content')
    BY <2>1, <2>3, <2>4, <2>5
  <2>7. Elements(incoming') \cup Elements(outgoing') \cup Elements(Holding') = DOMAIN content'
    BY <2>1, <2>3, <2>4, <2>5
  <2>. QED
    BY <2>1, <2>6, <2>7 DEF Buffers
<1>4. CASE Discard \/ Eqbuf
  <2>1. /\ incoming' = Append(incoming, index) /\ UNCHANGED <<outgoing, content, index>>
        /\ cam \in Dequeued /\ cam # "init" /\ cam' = "dqbuf"
    BY <1>4 DEF Discard, Eqbuf, CamGoes, Dequeued
  <2>2. Holding = <<index>> /\ Holding' = <<>>
    BY <2>1 DEF Holding, Dequeued
  <2>3. /\ Len(incoming') = Len(incoming) + 1 /\ Len(incoming) \in Nat /\ Len(outgoing) \in Nat
        /\ Elements(incoming') = Elements(incoming) \cup {index}
    BY <1>0, <2>1, ElementsAppend
  <2>4. /\ Len(incoming) + Len(outgoing) + Len(Holding) = Cardinality(DOMAIN content)
        /\ Elements(incoming) \cup Elements(outgoing) \cup Elements(Holding) = DOMAIN content
    BY <2>1 DEF Buffers
  <2>5. /\ Len(Holding) = 1 /\ Len(Holding') = 0
        /\ Elements(Holding) = {index} /\ Elements(Holding') = {}
    BY <2>2, ElementsFew
  <2>6. Len(incoming') + Len(outgoing') + Len(Holding') = Cardinality(DOMAIN content')
    BY <2>1, <2>3, <2>4, <2>5
  <2>7. Elements(incoming') \cup Elements(outgoing') \cup Elements(Holding') = DOMAIN content'
    BY <2>1, <2>3, <2>4, <2>5
  <2>. QED
    BY <2>1, <2>6, <2>7 DEF Buffers
<1>5. CASE CamMalloc
  BY <1>5 DEF CamMalloc, CamGoes, Buffers, Holding, driverVars
<1>6. CASE Convert \/ CamLock \/ EncodeHead \/ EncodeTail \/ SetLen
  <2>1. UNCHANGED <<incoming, outgoing, content, index>> /\ cam \in Dequeued /\ cam' \in Dequeued
    BY <1>6 DEF Convert, CamLock, EncodeHead, EncodeTail, SetLen, CamGoes, driverVars, Dequeued
  <2>2. Holding' = Holding
    BY <2>1 DEF Holding, Dequeued
  <2>. QED
    BY <2>1, <2>2 DEF Buffers, Dequeued
<1>7. CASE UNCHANGED <<incoming, outgoing, content, index, cam>>
  BY <1>7 DEF Buffers, Holding
<1>. QED
  BY <1>1, <1>2, <1>3, <1>4, <1>5, <1>6, <1>7
  DEF Next, CameraThread, CopyUnderLock, Writes, Connect, Ask, HangUp, Accept, CamFails, SrvInit,
      SrvInitFails, Call, Read, SrvLock, CopyCrashes, Copy, CopyRest, WriteHeader, WriteBody,
      WriteKills, driverVars, camVars, vars

LEMMA ElementsCount ==
  ASSUME NEW S, NEW q \in Seq(S)
  PROVE  /\ IsFiniteSet(Elements(q)) /\ Cardinality(Elements(q)) \in Nat
         /\ Len(q) \in Nat /\ Cardinality(Elements(q)) <= Len(q)
<1>1. Len(q) \in Nat /\ DOMAIN q = 1 .. Len(q) /\ q \in [1 .. Len(q) -> Elements(q)]
  BY DEF Elements
<1>2. q \in Surjection(1 .. Len(q), Elements(q))
  BY <1>1 DEF Surjection, Elements
<1>3. IsFiniteSet(1 .. Len(q)) /\ Cardinality(1 .. Len(q)) = Len(q)
  BY <1>1, FS_Interval
<1>4. IsFiniteSet(Elements(q)) /\ Cardinality(Elements(q)) <= Cardinality(1 .. Len(q))
  BY <1>2, <1>3, FS_Surjection
<1>. QED
  BY <1>1, <1>3, <1>4, FS_CardinalityType

(* As many places as buffers and every buffer in a place: the one that is  *)
(* filled next is in no other.                                             *)
LEMMA NextToFill ==
  ASSUME TypeOK, Buffers, incoming # <<>>
  PROVE  Head(incoming) \notin Elements(outgoing) \cup Elements(Holding)
<1>. DEFINE h == Head(incoming)
            A == Elements(Tail(incoming))
            B == Elements(outgoing)
            C == Elements(Holding)
<1>1. incoming \in Seq(Bufs) /\ outgoing \in Seq(Bufs) /\ Holding \in Seq(Bufs)
  <2>1. incoming \in Seq(Bufs) /\ outgoing \in Seq(Bufs) /\ index \in Bufs
    BY DEF TypeOK
  <2>2. Holding \in Seq(Bufs)
    <3>1. <<index>> \in Seq(Bufs) /\ <<>> \in Seq(Bufs)
      BY <2>1
    <3>. QED
      BY <3>1, HoldingIs
  <2>. QED
    BY <2>1, <2>2
<1>2. /\ Len(incoming) = Len(Tail(incoming)) + 1 /\ Tail(incoming) \in Seq(Bufs)
      /\ Elements(incoming) = {h} \cup A
  BY <1>1, ElementsHead
<1>3. /\ Len(incoming) + Len(outgoing) + Len(Holding) = Cardinality(DOMAIN content)
      /\ Elements(incoming) \cup B \cup C = DOMAIN content
  BY DEF Buffers
<1>4. /\ IsFiniteSet(A) /\ Cardinality(A) \in Nat /\ Cardinality(A) <= Len(Tail(incoming))
      /\ Len(Tail(incoming)) \in Nat
  BY <1>2, ElementsCount
<1>5. /\ IsFiniteSet(B) /\ Cardinality(B) \in Nat /\ Cardinality(B) <= Len(outgoing)
      /\ Len(outgoing) \in Nat
  BY <1>1, ElementsCount
<1>6. /\ IsFiniteSet(C) /\ Cardinality(C) \in Nat /\ Cardinality(C) <= Len(Holding)
      /\ Len(Holding) \in Nat
  BY <1>1, ElementsCount
<1>. HIDE DEF A, B, C, h
<1>7. /\ IsFiniteSet(A \cup B) /\ Cardinality(A \cup B) \in Nat
      /\ Cardinality(A \cup B) <= Cardinality(A) + Cardinality(B)
  <2>1. IsFiniteSet(A \cap B) /\ Cardinality(A \cap B) \in Nat
    BY <1>4, FS_Intersection, FS_CardinalityType
  <2>2. Cardinality(A \cup B) = Cardinality(A) + Cardinality(B) - Cardinality(A \cap B)
    BY <1>4, <1>5, FS_Union
  <2>3. IsFiniteSet(A \cup B) /\ Cardinality(A \cup B) \in Nat
    BY <1>4, <1>5, FS_Union, FS_CardinalityType
  <2>. QED
    BY <1>4, <1>5, <2>1, <2>2, <2>3
<1>8. /\ Cardinality((A \cup B) \cup C) \in Nat
      /\ Cardinality((A \cup B) \cup C) <= Cardinality(A \cup B) + Cardinality(C)
  <2>1. IsFiniteSet((A \cup B) \cap C) /\ Cardinality((A \cup B) \cap C) \in Nat
    BY <1>7, FS_Intersection, FS_CardinalityType
  <2>2. Cardinality((A \cup B) \cup C)
          = Cardinality(A \cup B) + Cardinality(C) - Cardinality((A \cup B) \cap C)
    BY <1>6, <1>7, FS_Union
  <2>3. Cardinality((A \cup B) \cup C) \in Nat
    BY <1>6, <1>7, FS_Union, FS_CardinalityType
  <2>. QED
    BY <1>6, <1>7, <2>1, <2>2, <2>3
<1>9. ASSUME h \in B \cup C PROVE FALSE
  <2>1. DOMAIN content = (A \cup B) \cup C
    BY <1>2, <1>3, <1>9
  <2>. QED
    BY <1>2, <1>3, <1>4, <1>5, <1>6, <1>7, <1>8, <2>1
<1>. QED
  BY <1>9 DEF h, B, C
-----------------------------------------------------------------------------
(* The pointers, the counter and the mutex.                                *)
LEMMA Encoding ==
  ASSUME TypeOK, Allocated, EncodeHead \/ EncodeTail \/ SetLen
  PROVE  /\ jpg \in Pictures /\ jpg # Null
         /\ jpg' \in Pictures /\ jpg' # Null
<1>1. jpg \in Pictures /\ jpg # Null
  BY DEF TypeOK, Allocated, EncodeHead, EncodeTail, SetLen, CamGoes
<1>2. rgb \in Frames
  BY DEF TypeOK
<1>3. jpg' \in Pictures
  BY <1>1, <1>2 DEF EncodeHead, EncodeTail, SetLen, Pictures
<1>. QED
  BY <1>1, <1>3, VideoAssumption

LEMMA AllocatedStep == TypeOK /\ Allocated /\ [Next]_vars => Allocated'
<1> SUFFICES ASSUME TypeOK, Allocated, [Next]_vars PROVE Allocated'
  OBVIOUS
<1> USE DEF CamGoes, SrvGoes, driverVars, clientVars, camVars, srvVars
<1>1. CASE CamMalloc
  <2>1. jpg' \in Pictures
    BY <1>1, VideoAssumption DEF CamMalloc, Pictures, Frames
  <2>2. jpg' # Null
    BY <2>1, VideoAssumption
  <2>. QED
    BY <1>1, <2>2 DEF CamMalloc, Allocated
<1>2. CASE EncodeHead \/ EncodeTail \/ SetLen
  <2>1. jpg' # Null
    BY <1>2, Encoding
  <2>2. cam' \notin {"init", "malloc"} /\ UNCHANGED <<jpgArg, srv>>
    BY <1>2 DEF EncodeHead, EncodeTail, SetLen
  <2>. QED
    BY <2>1, <2>2 DEF Allocated
<1>3. CASE CamInit \/ Dqbuf \/ Discard \/ Eqbuf \/ Convert \/ CamLock
  BY <1>3 DEF CamInit, Dqbuf, Discard, Eqbuf, Convert, CamLock, Allocated
<1>4. CASE Call
  BY <1>4 DEF Call, Allocated
<1>5. CASE Copy
  BY <1>5 DEF Copy, Allocated
<1>6. CASE SrvInit \/ Read \/ SrvLock \/ CopyRest \/ WriteHeader \/ WriteBody
  BY <1>6 DEF SrvInit, Read, SrvLock, CopyRest, WriteHeader, WriteBody, Allocated
<1>7. ASSUME NEW c \in Clients, Accept(c) PROVE Allocated'
  BY <1>7 DEF Accept, Allocated
<1>8. CASE UNCHANGED <<jpg, jpgArg, cam, srv>>
  BY <1>8 DEF Allocated
<1>. QED
  BY <1>1, <1>2, <1>3, <1>4, <1>5, <1>6, <1>7, <1>8
  DEF Next, CameraThread, CopyUnderLock, Writes, Fill, Connect, Ask, HangUp, CamFails,
      SrvInitFails, CopyCrashes, WriteKills, vars

LEMMA CountedInit == Init => Counted
<1> SUFFICES ASSUME Init PROVE Counted
  OBVIOUS
<1>1. Taken = 0
  <2>1. frame = 0 /\ Len(outgoing) = 0
    BY ElementsFew DEF Init
  <2>. QED
    BY <2>1 DEF Taken
<1>2. discarded = 0 /\ cam \notin Dequeued /\ Discards \in Nat
  BY VideoAssumption DEF Init, Dequeued
<1>. QED
  BY <1>1, <1>2 DEF Counted, Dequeued

LEMMA CountedStep == TypeOK /\ Counted /\ [Next]_vars => Counted'
<1> SUFFICES ASSUME TypeOK, Counted, [Next]_vars PROVE Counted'
  OBVIOUS
<1> USE DEF CamGoes, SrvGoes, driverVars, clientVars, camVars, srvVars
<1>0. /\ frame \in Nat /\ Len(outgoing) \in Nat /\ discarded \in 0 .. Discards /\ Discards \in Nat
      /\ incoming \in Seq(Bufs) /\ outgoing \in Seq(Bufs) /\ Taken \in Int
  BY VideoAssumption DEF TypeOK, Frames, Taken
<1>1. CASE Fill
  <2>1. Head(incoming) \in Bufs
    BY <1>0, <1>1, ElementsHead DEF Fill
  <2>2. Len(outgoing') = Len(outgoing) + 1
    BY <1>0, <1>1, <2>1, ElementsAppend DEF Fill
  <2>3. Taken' = Taken /\ UNCHANGED <<cam, discarded>>
    BY <1>0, <1>1, <2>2 DEF Fill, Taken
  <2>. QED
    BY <2>3 DEF Counted
<1>2. CASE Dqbuf
  <2>1. Len(outgoing) = Len(outgoing') + 1 /\ Len(outgoing') \in Nat
    BY <1>0, <1>2, ElementsHead DEF Dqbuf
  <2>2. Taken' = Taken + 1 /\ cam = "dqbuf" /\ discarded' = discarded
        /\ cam' = IF discarded < Discards THEN "discard" ELSE "convert"
    BY <1>0, <1>2, <2>1 DEF Dqbuf, Taken
  <2>3. CASE discarded < Discards
    BY <1>0, <2>2, <2>3 DEF Counted, Dequeued
  <2>4. CASE discarded = Discards
    BY <1>0, <2>2, <2>4 DEF Counted, Dequeued
  <2>. QED
    BY <1>0, <2>3, <2>4
<1>3. CASE Discard
  <2>1. Taken' = Taken /\ cam = "discard" /\ cam' = "dqbuf" /\ discarded' = discarded + 1
    BY <1>3 DEF Discard, Taken
  <2>. QED
    BY <1>0, <2>1 DEF Counted, Dequeued
<1>4. CASE Eqbuf \/ Convert \/ CamLock \/ EncodeHead \/ EncodeTail \/ SetLen
  <2>1. /\ Taken' = Taken /\ discarded' = discarded
        /\ cam \in Dequeued \ {"discard"} /\ cam' # "discard"
    BY <1>4 DEF Eqbuf, Convert, CamLock, EncodeHead, EncodeTail, SetLen, Taken, Dequeued
  <2>2. discarded = Discards /\ Taken > Discards
    BY <2>1 DEF Counted
  <2>. QED
    BY <1>0, <2>1, <2>2 DEF Counted
<1>5. CASE CamInit \/ CamMalloc
  <2>1. /\ Taken' = Taken /\ discarded' = discarded
        /\ cam \notin Dequeued /\ cam' \notin Dequeued
    BY <1>5 DEF CamInit, CamMalloc, Taken, Dequeued
  <2>. QED
    BY <1>0, <2>1 DEF Counted, Dequeued
<1>6. CASE UNCHANGED <<frame, outgoing, cam, discarded>>
  BY <1>6 DEF Counted, Taken
<1>. QED
  BY <1>1, <1>2, <1>3, <1>4, <1>5, <1>6
  DEF Next, CameraThread, CopyUnderLock, Writes, Connect, Ask, HangUp, Accept, CamFails, SrvInit,
      SrvInitFails, Call, Read, SrvLock, CopyCrashes, Copy, CopyRest, WriteHeader, WriteBody,
      WriteKills, vars

LEMMA ExclusionInit == Init => Exclusion
BY DEF Init, Exclusion

LEMMA ExclusionStep == Exclusion /\ [Next]_vars => Exclusion'
<1> SUFFICES ASSUME Exclusion, [Next]_vars PROVE Exclusion'
  OBVIOUS
<1> USE DEF CamGoes, SrvGoes, driverVars, clientVars, camVars, srvVars, Exclusion
<1>1. CASE CameraThread
  BY <1>1 DEF CameraThread, CamInit, CamMalloc, Dqbuf, Discard, Eqbuf, Convert, CamLock,
     EncodeHead, EncodeTail, SetLen
<1>2. CASE SrvInit \/ Call \/ Read \/ SrvLock
  BY <1>2 DEF SrvInit, Call, Read, SrvLock
<1>3. CASE Copy \/ CopyRest \/ WriteHeader \/ WriteBody
  BY <1>3 DEF Copy, CopyRest, WriteHeader, WriteBody
<1>4. ASSUME NEW c \in Clients, Accept(c) PROVE Exclusion'
  BY <1>4 DEF Accept
<1>5. CASE UNCHANGED <<mutex, cam, srv>>
  BY <1>5
<1>. QED
  BY <1>1, <1>2, <1>3, <1>4, <1>5
  DEF Next, CopyUnderLock, Writes, Fill, Connect, Ask, HangUp, CamFails, SrvInitFails,
      CopyCrashes, WriteKills, vars
-----------------------------------------------------------------------------
(* The pictures.                                                           *)
LEMMA OrderedInit == Init => Ordered
<1> SUFFICES ASSUME Init PROVE Ordered
  OBVIOUS
<1>1. Len(outgoing) = 0 /\ cam \notin Dequeued /\ cam \notin Converted
  BY ElementsFew DEF Init, Dequeued, Converted
<1>. QED
  BY <1>1 DEF Ordered

LEMMA OrderedStep == TypeOK /\ Buffers /\ Ordered /\ [Next]_vars => Ordered'
<1> SUFFICES ASSUME TypeOK, Buffers, Ordered, [Next]_vars PROVE Ordered'
  OBVIOUS
<1> USE DEF CamGoes, SrvGoes, driverVars, clientVars, camVars, srvVars
<1>0. /\ frame \in Nat /\ Len(outgoing) \in Nat /\ Taken \in Int
      /\ incoming \in Seq(Bufs) /\ outgoing \in Seq(Bufs) /\ index \in Bufs
  BY VideoAssumption DEF TypeOK, Frames, Taken
<1>1. CASE Fill
  <2>. DEFINE h == Head(incoming)
  <2>1. incoming # <<>> /\ frame' = frame + 1 /\ content' = [content EXCEPT ![h] = frame + 1]
        /\ outgoing' = Append(outgoing, h) /\ UNCHANGED <<cam, index, rgb>>
    BY <1>1 DEF Fill
  <2>2. h \in Bufs /\ h \in Elements(incoming)
    BY <1>0, <2>1, ElementsHead
  <2>3. h \notin Elements(outgoing) /\ h \notin Elements(Holding)
    BY <2>1, NextToFill
  <2>4. h \in DOMAIN content
    BY <2>1, <2>2 DEF Buffers
  <2>5. /\ Len(outgoing') = Len(outgoing) + 1 /\ outgoing'[Len(outgoing) + 1] = h
        /\ \A i \in 1 .. Len(outgoing) : outgoing'[i] = outgoing[i]
    BY <1>0, <2>1, <2>2, ElementsAppend
  <2>. HIDE DEF h
  <2>6. Taken' = Taken
    BY <1>0, <2>1, <2>5 DEF Taken
  <2>7. content'[h] = frame + 1 /\ \A b : b # h => content'[b] = content[b]
    BY <2>1, <2>4
  <2>8. ASSUME NEW i \in 1 .. Len(outgoing') PROVE content'[outgoing'[i]] = Taken' + i
    <3>1. CASE i = Len(outgoing) + 1
      BY <1>0, <2>5, <2>6, <2>7, <3>1 DEF Taken
    <3>2. CASE i \in 1 .. Len(outgoing)
      <4>1. outgoing[i] # h
        <5>1. i \in DOMAIN outgoing
          BY <1>0, <3>2
        <5>. QED
          BY <2>3, <5>1 DEF Elements
      <4>2. content'[outgoing'[i]] = content[outgoing[i]]
        BY <2>5, <2>7, <3>2, <4>1
      <4>. QED
        BY <2>6, <3>2, <4>2 DEF Ordered
    <3>. QED
      BY <1>0, <2>5, <3>1, <3>2
  <2>9. cam' \in Dequeued => content'[index'] = Taken'
    <3>1. SUFFICES ASSUME cam \in Dequeued PROVE content'[index] = Taken
      BY <2>1, <2>6
    <3>2. index # h
      BY <2>3, <3>1, HoldingIs, ElementsFew
    <3>. QED
      BY <2>7, <3>1, <3>2 DEF Ordered
  <2>10. cam' \in Converted => rgb' = Taken'
    BY <2>1, <2>6 DEF Ordered
  <2>. QED
    BY <2>8, <2>9, <2>10 DEF Ordered
<1>2. CASE Dqbuf
  <2>1. /\ outgoing # <<>> /\ outgoing' = Tail(outgoing) /\ index' = Head(outgoing)
        /\ UNCHANGED <<frame, content>> /\ cam' \notin Converted
    BY <1>2 DEF Dqbuf, Converted
  <2>2. /\ Len(outgoing) = Len(outgoing') + 1 /\ Len(outgoing') \in Nat
        /\ \A i \in 1 .. Len(outgoing') : outgoing'[i] = outgoing[i + 1]
        /\ index' = outgoing[1]
    BY <1>0, <2>1, ElementsHead
  <2>3. Taken' = Taken + 1
    BY <1>0, <2>1, <2>2 DEF Taken
  <2>4. ASSUME NEW i \in 1 .. Len(outgoing') PROVE content'[outgoing'[i]] = Taken' + i
    <3>1. i + 1 \in 1 .. Len(outgoing)
      BY <2>2
    <3>2. content[outgoing[i + 1]] = Taken + (i + 1)
      BY <3>1 DEF Ordered
    <3>. QED
      BY <1>0, <2>1, <2>2, <2>3, <3>2
  <2>5. content'[index'] = Taken'
    <3>1. 1 \in 1 .. Len(outgoing)
      BY <2>2
    <3>2. content[outgoing[1]] = Taken + 1
      BY <3>1 DEF Ordered
    <3>. QED
      BY <2>1, <2>2, <2>3, <3>2
  <2>. QED
    BY <2>1, <2>4, <2>5 DEF Ordered
<1>3. CASE Convert
  <2>1. UNCHANGED <<frame, outgoing, content, index>> /\ cam = "convert" /\ rgb' = content[index]
    BY <1>3 DEF Convert
  <2>2. content[index] = Taken /\ Taken' = Taken
    BY <2>1 DEF Ordered, Dequeued, Taken
  <2>. QED
    BY <2>1, <2>2 DEF Ordered
<1>4. CASE Discard \/ Eqbuf \/ CamLock \/ EncodeHead \/ EncodeTail \/ SetLen
  <2>1. /\ UNCHANGED <<frame, outgoing, content, index, rgb>>
        /\ cam' \in Dequeued => cam \in Dequeued
        /\ cam' \in Converted => cam \in Converted
    BY <1>4 DEF Discard, Eqbuf, CamLock, EncodeHead, EncodeTail, SetLen, Dequeued, Converted
  <2>. QED
    BY <2>1 DEF Ordered, Taken
<1>5. CASE CamInit
  <2>1. outgoing = <<>> /\ outgoing' = <<>> /\ cam' = "malloc"
    BY <1>5 DEF CamInit, Buffers
  <2>2. Len(outgoing') = 0 /\ cam' \notin Dequeued /\ cam' \notin Converted
    BY <2>1, ElementsFew DEF Dequeued, Converted
  <2>. QED
    BY <2>2 DEF Ordered
<1>6. CASE CamMalloc
  <2>1. /\ UNCHANGED <<frame, outgoing, content, index, rgb>>
        /\ cam' \notin Dequeued /\ cam' \notin Converted
    BY <1>6 DEF CamMalloc, Dequeued, Converted
  <2>. QED
    BY <2>1 DEF Ordered, Taken
<1>7. CASE UNCHANGED <<frame, outgoing, content, cam, index, rgb>>
  BY <1>7 DEF Ordered, Taken
<1>. QED
  BY <1>1, <1>2, <1>3, <1>4, <1>5, <1>6, <1>7
  DEF Next, CameraThread, CopyUnderLock, Writes, Connect, Ask, HangUp, Accept, CamFails, SrvInit,
      SrvInitFails, Call, Read, SrvLock, CopyCrashes, Copy, CopyRest, WriteHeader, WriteBody,
      WriteKills, vars
LEMMA PublicInit == Init => Public
BY DEF Init, Public

LEMMA PublicStep ==
  TypeOK /\ Allocated /\ Counted /\ Ordered /\ Exclusion /\ Public /\ [Next]_vars => Public'
<1> SUFFICES ASSUME TypeOK, Allocated, Counted, Ordered, Exclusion, Public, [Next]_vars
             PROVE  Public'
  OBVIOUS
<1> USE DEF CamGoes, SrvGoes, driverVars, clientVars, camVars, srvVars
<1>0. /\ frame \in Nat /\ Len(outgoing) \in Nat /\ Taken \in Int /\ Discards \in Nat
      /\ incoming \in Seq(Bufs) /\ outgoing \in Seq(Bufs) /\ rgb \in Frames
  BY VideoAssumption DEF TypeOK, Frames, Taken
<1>01. jpg # Null => jpg \in Pictures /\ jpg.len \in Nat
  BY VideoAssumption DEF TypeOK, Pictures, Frames
<1>1. CASE Fill
  <2>1. Head(incoming) \in Bufs
    BY <1>0, <1>1, ElementsHead DEF Fill
  <2>2. Len(outgoing') = Len(outgoing) + 1
    BY <1>0, <1>1, <2>1, ElementsAppend DEF Fill
  <2>3. Taken' = Taken /\ UNCHANGED <<jpg, mutex, cam, rgb>>
    BY <1>0, <1>1, <2>2 DEF Fill, Taken
  <2>. QED
    BY <2>3 DEF Public
<1>2. CASE Dqbuf
  <2>1. Len(outgoing) = Len(outgoing') + 1 /\ Len(outgoing') \in Nat
    BY <1>0, <1>2, ElementsHead DEF Dqbuf
  <2>2. /\ Taken' = Taken + 1 /\ UNCHANGED <<jpg, mutex, rgb>>
        /\ cam = "dqbuf" /\ cam' \in {"discard", "convert"}
    BY <1>0, <1>2, <2>1 DEF Dqbuf, Taken
  <2>. QED
    BY <1>0, <1>01, <2>2 DEF Public
<1>3. CASE CamMalloc
  <2>1. /\ jpg' = [head |-> 0, tail |-> 0, len |-> 0] /\ Taken' = Taken
        /\ cam = "malloc" /\ cam' = "dqbuf"
    BY <1>3 DEF CamMalloc, Taken
  <2>2. Taken >= 0
    <3>1. discarded \in Nat /\ (discarded < Discards \/ discarded = Discards)
      BY VideoAssumption DEF TypeOK
    <3>. QED
      BY <1>0, <2>1, <3>1 DEF Counted, Dequeued
  <2>. QED
    BY <2>1, <2>2 DEF Public
<1>4. CASE CamInit \/ Discard \/ Eqbuf \/ Convert \/ CamLock
  <2>1. /\ Taken' = Taken /\ jpg' = jpg /\ cam' \notin {"tail", "len"}
        /\ mutex' # "cam" => mutex # "cam"
        /\ cam' \in {"convert", "lock", "head", "tail", "len"} => cam \in {"convert", "lock"}
    BY <1>4 DEF CamInit, Discard, Eqbuf, Convert, CamLock, Taken
  <2>. QED
    BY <2>1 DEF Public
<1>5. CASE EncodeHead
  <2>1. jpg \in Pictures /\ jpg # Null
    BY <1>5, Encoding
  <2>2. /\ cam = "head" /\ cam' = "tail" /\ mutex = "cam" /\ Taken' = Taken
        /\ jpg' = [jpg EXCEPT !.head = rgb] /\ UNCHANGED <<mutex, rgb>>
    BY <1>5 DEF EncodeHead, Exclusion, Taken
  <2>3. jpg'.head = rgb /\ jpg'.len = jpg.len
    BY <2>1, <2>2 DEF Pictures
  <2>. QED
    BY <2>1, <2>2, <2>3 DEF Public
<1>6. CASE EncodeTail
  <2>1. jpg \in Pictures /\ jpg # Null
    BY <1>6, Encoding
  <2>2. /\ cam = "tail" /\ cam' = "len" /\ mutex = "cam" /\ Taken' = Taken
        /\ jpg' = [jpg EXCEPT !.tail = rgb] /\ UNCHANGED <<mutex, rgb>>
    BY <1>6 DEF EncodeTail, Exclusion, Taken
  <2>3. jpg'.head = jpg.head /\ jpg'.tail = rgb /\ jpg'.len = jpg.len
    BY <2>1, <2>2 DEF Pictures
  <2>. QED
    BY <2>1, <2>2, <2>3 DEF Public
<1>7. CASE SetLen
  <2>1. jpg \in Pictures /\ jpg # Null
    BY <1>7, Encoding
  <2>2. /\ cam = "len" /\ cam' = "eqbuf" /\ Taken' = Taken
        /\ jpg' = [jpg EXCEPT !.len = rgb] /\ rgb' = rgb
    BY <1>7 DEF SetLen, Taken
  <2>3. jpg'.head = jpg.head /\ jpg'.tail = jpg.tail /\ jpg'.len = rgb
    BY <2>1, <2>2 DEF Pictures
  <2>4. jpg.head = rgb /\ jpg.tail = rgb
    BY <2>1, <2>2 DEF Public
  <2>5. rgb = Taken /\ Taken > Discards
    BY <2>2 DEF Ordered, Counted, Converted, Dequeued
  <2>. QED
    BY <1>0, <2>2, <2>3, <2>4, <2>5 DEF Public
<1>8. CASE SrvLock \/ CopyRest
  <2>1. mutex # "cam" /\ UNCHANGED <<frame, outgoing, jpg, cam, rgb>>
    BY <1>8 DEF SrvLock, CopyRest, Exclusion
  <2>. QED
    BY <2>1 DEF Public, Taken
<1>9. CASE UNCHANGED <<frame, outgoing, jpg, mutex, cam, rgb>>
  BY <1>9 DEF Public, Taken
<1>. QED
  BY <1>1, <1>2, <1>3, <1>4, <1>5, <1>6, <1>7, <1>8, <1>9
  DEF Next, CameraThread, CopyUnderLock, Writes, Connect, Ask, HangUp, Accept, CamFails, SrvInit,
      SrvInitFails, Call, Read, CopyCrashes, Copy, WriteHeader, WriteBody, WriteKills, vars

(* What is public only gets newer.                                         *)
LEMMA PublishedGrows ==
  ASSUME TypeOK, Allocated, Ordered, Public, [Next]_vars
  PROVE  /\ Published \in Nat /\ Published' \in Nat /\ Published <= Published'
         /\ Published' # Published => SetLen
<1> USE DEF CamGoes, SrvGoes, driverVars, clientVars, camVars, srvVars
<1>1. Published \in Nat /\ Taken \in Int
  BY VideoAssumption DEF TypeOK, Pictures, Frames, Published, Taken
<1>2. CASE CamMalloc
  <2>1. jpg = Null /\ jpg' = [head |-> 0, tail |-> 0, len |-> 0]
    BY <1>2 DEF CamMalloc, Allocated
  <2>2. Published = 0 /\ Published' = 0
    BY <2>1 DEF Published
  <2>. QED
    BY <2>2
<1>3. CASE EncodeHead \/ EncodeTail
  <2>1. jpg \in Pictures /\ jpg # Null /\ jpg' # Null
    BY <1>3, Encoding
  <2>2. jpg'.len = jpg.len
    BY <1>3, <2>1 DEF EncodeHead, EncodeTail, Pictures
  <2>. QED
    BY <1>1, <2>1, <2>2 DEF Published
<1>4. CASE SetLen
  <2>1. jpg \in Pictures /\ jpg # Null /\ jpg' # Null
    BY <1>4, Encoding
  <2>2. jpg'.len = rgb
    BY <1>4, <2>1 DEF SetLen, Pictures
  <2>3. rgb = Taken /\ jpg.len < Taken /\ rgb \in Nat
    BY <1>4, <2>1, VideoAssumption DEF SetLen, Ordered, Public, Converted, TypeOK, Frames
  <2>. QED
    BY <1>1, <1>4, <2>1, <2>2, <2>3 DEF Published
<1>5. CASE UNCHANGED jpg
  BY <1>1, <1>5 DEF Published
<1>. QED
  BY <1>2, <1>3, <1>4, <1>5
  DEF Next, CameraThread, CopyUnderLock, Writes, Fill, Connect, Ask, HangUp, Accept, CamInit,
      Dqbuf, Discard, Eqbuf, Convert, CamLock, CamFails, SrvInit,
      SrvInitFails, Call, Read, SrvLock, CopyCrashes, Copy, CopyRest, WriteHeader, WriteBody,
      WriteKills, vars

LEMMA CopyingInit == Init => Copying
BY DEF Init, Copying

LEMMA CopyingStep ==
  TypeOK /\ Allocated /\ Ordered /\ Exclusion /\ Public /\ Copying /\ [Next]_vars => Copying'
<1> SUFFICES ASSUME TypeOK, Allocated, Ordered, Exclusion, Public, Copying, [Next]_vars
             PROVE  Copying'
  OBVIOUS
<1> USE DEF CamGoes, SrvGoes, driverVars, clientVars, camVars, srvVars
<1>0. Published \in Nat /\ Published' \in Nat /\ Published <= Published' /\ asked \in Nat
  BY PublishedGrows, VideoAssumption DEF TypeOK, Frames
<1>1. CASE CameraThread
  <2>1. UNCHANGED <<srv, asked, piclen, buf>>
    BY <1>1 DEF CameraThread, CamInit, CamMalloc, Dqbuf, Discard, Eqbuf, Convert, CamLock,
       EncodeHead, EncodeTail, SetLen
  <2>2. srv' \in {"lock", "copy", "copy2"} => asked' <= Published'
    BY <1>0, <2>1 DEF Copying
  <2>3. srv' = "copy2" => jpg' = jpg
    <3>1. SUFFICES ASSUME srv = "copy2" PROVE jpg' = jpg
      BY <2>1
    <3>2. cam \notin {"head", "tail", "len"} /\ jpg # Null
      BY <3>1 DEF Exclusion, Allocated
    <3>3. cam # "malloc"
      BY <3>2 DEF Allocated
    <3>. QED
      BY <1>1, <3>2, <3>3 DEF CameraThread, CamInit, CamMalloc, Dqbuf, Discard, Eqbuf, Convert,
         CamLock, EncodeHead, EncodeTail, SetLen
  <2>. QED
    BY <2>1, <2>2, <2>3 DEF Copying
<1>2. CASE Read
  <2>1. srv' = "lock" /\ asked' = Published /\ jpg' = jpg
    BY <1>2 DEF Read, Published
  <2>. QED
    BY <1>0, <2>1 DEF Copying, Published
<1>3. CASE Copy
  <2>1. /\ srv = "copy" /\ srv' = "copy2" /\ piclen' = jpg.len /\ UNCHANGED <<asked, jpg>>
        /\ buf' = [buf EXCEPT !.head = jpg.head]
    BY <1>3 DEF Copy
  <2>2. buf'.head = jpg.head
    BY <2>1 DEF TypeOK
  <2>. QED
    BY <1>0, <2>1, <2>2 DEF Copying, Published
<1>4. CASE SrvLock
  <2>1. srv = "lock" /\ srv' = "copy" /\ UNCHANGED <<asked, jpg>>
    BY <1>4 DEF SrvLock
  <2>. QED
    BY <2>1 DEF Copying, Published
<1>5. CASE SrvInit \/ Call \/ CopyRest \/ WriteHeader \/ WriteBody
  <2>1. srv' \notin {"lock", "copy", "copy2"}
    BY <1>5 DEF SrvInit, Call, CopyRest, WriteHeader, WriteBody
  <2>. QED
    BY <2>1 DEF Copying
<1>6. ASSUME NEW c \in Clients, Accept(c) PROVE Copying'
  BY <1>6 DEF Accept, Copying
<1>7. CASE UNCHANGED <<srv, asked, piclen, buf, jpg>>
  BY <1>7 DEF Copying, Published
<1>. QED
  BY <1>1, <1>2, <1>3, <1>4, <1>5, <1>6, <1>7
  DEF Next, CopyUnderLock, Writes, Fill, Connect, Ask, HangUp, CamFails, SrvInitFails,
      CopyCrashes, WriteKills, vars
-----------------------------------------------------------------------------
(* The refinement.                                                         *)
Pending == IF srv \in {"lock", "copy", "copy2"} THEN asked ELSE -1

Sending == IF srv \in {"header", "body"}
           THEN [head |-> buf.head, tail |-> buf.tail, len |-> piclen]
           ELSE <<>>

LEMMA ServiceInit == Init => Service!Init
BY DEF Init, Service!Init, Service!NoRequest

LEMMA RecordIsNoTuple ==
  ASSUME NEW h, NEW t, NEW l
  PROVE  [head |-> h, tail |-> t, len |-> l] # <<>>
<1>1. DOMAIN [head |-> h, tail |-> t, len |-> l] = {"head", "tail", "len"}
  OBVIOUS
<1>2. DOMAIN <<>> = {}
  OBVIOUS
<1>. QED
  BY <1>1, <1>2

LEMMA ServiceStep ==
  TypeOK /\ Allocated /\ Counted /\ Ordered /\ Exclusion /\ Public /\ Copying /\ [Next]_vars
    => [Service!Next]_(Service!vars)
<1> SUFFICES ASSUME TypeOK, Allocated, Counted, Ordered, Exclusion, Public, Copying, [Next]_vars
             PROVE  Service!Next \/ UNCHANGED <<Published, Pending, Sending>>
  BY DEF Service!vars, Published, Pending, Sending
<1> USE DEF CamGoes, SrvGoes, driverVars, clientVars, camVars, srvVars
<1>0. /\ Published \in Nat /\ Published' \in Nat /\ Published <= Published'
      /\ Published' # Published => SetLen
      /\ asked \in Nat /\ Discards \in Nat
  BY PublishedGrows, VideoAssumption DEF TypeOK, Frames
<1>1. CASE SetLen
  <2>1. UNCHANGED <<srv, asked, buf, piclen>>
    BY <1>1 DEF SetLen
  <2>2. UNCHANGED <<Pending, Sending>>
    BY <2>1 DEF Pending, Sending
  <2>3. jpg \in Pictures /\ jpg # Null /\ jpg' # Null
    BY <1>1, Encoding
  <2>4. Published' = rgb /\ rgb = Taken /\ Taken > Discards
    <3>1. jpg' = [jpg EXCEPT !.len = rgb] /\ cam = "len"
      BY <1>1 DEF SetLen
    <3>2. jpg'.len = rgb
      BY <2>3, <3>1 DEF Pictures
    <3>. QED
      BY <2>3, <3>1, <3>2 DEF Published, Ordered, Counted, Converted, Dequeued
  <2>5. Published' > Published
    BY <1>1, <2>3, <2>4 DEF Published, Public, SetLen
  <2>6. ~(Published' \in 1 .. Discards)
    BY <1>0, <2>4
  <2>7. Service!Publish
    BY <1>0, <2>2, <2>5, <2>6 DEF Service!Publish, Service!Discarded, Published, Pending, Sending
  <2>. QED
    BY <2>7 DEF Service!Next
<1>2. CASE Read
  <2>1. /\ srv = "read" /\ srv' = "lock" /\ asked' = Published /\ Published' = Published
    BY <1>2 DEF Read, Published
  <2>2. /\ Pending = -1 /\ Pending' = Published /\ Sending = <<>> /\ Sending' = <<>>
    BY <2>1 DEF Pending, Sending
  <2>3. Service!Request
    BY <2>1, <2>2 DEF Service!Request, Service!NoRequest, Published, Pending, Sending
  <2>. QED
    BY <2>3 DEF Service!Next
<1>3. CASE CopyRest
  <2>1. /\ srv = "copy2" /\ srv' = "header" /\ UNCHANGED <<asked, piclen, jpg>>
        /\ buf' = [buf EXCEPT !.tail = jpg.tail]
    BY <1>3 DEF CopyRest
  <2>2. /\ jpg # Null /\ mutex # "cam" /\ piclen = jpg.len /\ buf.head = jpg.head
        /\ asked <= Published
    BY <2>1 DEF Allocated, Exclusion, Copying
  <2>3. jpg.head = piclen /\ jpg.tail = piclen /\ Published = piclen /\ Published' = piclen
        /\ (piclen = 0 \/ piclen > Discards)
    BY <2>1, <2>2 DEF Public, Published
  <2>4. buf'.head = piclen /\ buf'.tail = piclen
    BY <2>1, <2>2, <2>3 DEF TypeOK
  <2>5. Pending = asked /\ Pending' = -1
    BY <2>1 DEF Pending
  <2>6. Sending' = [head |-> piclen, tail |-> piclen, len |-> piclen]
    BY <2>1, <2>4 DEF Sending
  <2>7. piclen \in asked .. Published /\ ~(piclen \in 1 .. Discards) /\ asked # -1
    BY <1>0, <2>2, <2>3
  <2>8. Service!Answer
    BY <2>3, <2>5, <2>6, <2>7
    DEF Service!Answer, Service!NoRequest, Service!Discarded, Service!Whole, Published, Pending,
        Sending
  <2>. QED
    BY <2>8 DEF Service!Next
<1>4. CASE WriteHeader \/ WriteBody
  <2>1. UNCHANGED <<asked, piclen, buf, jpg>> /\ srv \in {"header", "body"}
        /\ srv' \in {"call", "body"}
    BY <1>4 DEF WriteHeader, WriteBody
  <2>2. UNCHANGED <<Published, Pending>>
    BY <2>1 DEF Published, Pending
  <2>3. CASE srv' = "body"
    <3>1. Sending' = Sending
      BY <2>1, <2>3 DEF Sending
    <3>. QED
      BY <2>2, <3>1
  <2>4. CASE srv' = "call"
    <3>1. Sending' = <<>> /\ Sending # <<>>
      BY <2>1, <2>4, RecordIsNoTuple DEF Sending
    <3>2. Service!Sent
      BY <2>2, <3>1 DEF Service!Sent, Published, Pending, Sending
    <3>. QED
      BY <3>2 DEF Service!Next
  <2>. QED
    BY <2>1, <2>3, <2>4
<1>5. CASE SrvInit \/ Call \/ SrvLock \/ Copy
  <2>1. /\ UNCHANGED <<asked, jpg>>
        /\ srv \notin {"header", "body"} /\ srv' \notin {"header", "body"}
        /\ srv \in {"lock", "copy", "copy2"} <=> srv' \in {"lock", "copy", "copy2"}
    BY <1>5 DEF SrvInit, Call, SrvLock, Copy
  <2>2. Published' = Published /\ Sending' = <<>> /\ Sending = <<>>
    BY <2>1 DEF Published, Sending
  <2>3. Pending' = Pending
    BY <2>1 DEF Pending
  <2>. QED
    BY <2>2, <2>3
<1>6. ASSUME NEW c \in Clients, Accept(c) PROVE UNCHANGED <<Published, Pending, Sending>>
  BY <1>6 DEF Accept, Published, Pending, Sending
<1>7. CASE UNCHANGED <<srv, asked, buf, piclen>> /\ ~SetLen
  <2>1. Published' = Published
    BY <1>0, <1>7
  <2>. QED
    BY <1>7, <2>1 DEF Pending, Sending
<1>. QED
  BY <1>1, <1>2, <1>3, <1>4, <1>5, <1>6, <1>7
  DEF Next, CameraThread, CopyUnderLock, Writes, Fill, Connect, Ask, HangUp, CamInit,
      CamMalloc, Dqbuf, Discard, Eqbuf, Convert, CamLock, EncodeHead, EncodeTail, CamFails,
      SrvInitFails, CopyCrashes, WriteKills, vars

-----------------------------------------------------------------------------
(* BuffersConserved from Buffers.                                          *)
LEMMA ElementsConcat ==
  ASSUME NEW S, NEW p \in Seq(S), NEW q \in Seq(S)
  PROVE  /\ Len(p \o q) = Len(p) + Len(q)
         /\ Elements(p \o q) = Elements(p) \cup Elements(q)
<1>1. /\ p \o q \in Seq(S)
      /\ Len(p) \in Nat /\ Len(q) \in Nat /\ Len(p \o q) = Len(p) + Len(q)
      /\ DOMAIN p = 1 .. Len(p) /\ DOMAIN q = 1 .. Len(q)
      /\ DOMAIN (p \o q) = 1 .. Len(p) + Len(q)
      /\ \A i \in 1 .. Len(p) : (p \o q)[i] = p[i]
      /\ \A i \in 1 .. Len(q) : (p \o q)[Len(p) + i] = q[i]
  OBVIOUS
<1>2. ASSUME NEW i \in DOMAIN (p \o q) PROVE (p \o q)[i] \in Elements(p) \cup Elements(q)
  <2>1. CASE i \in 1 .. Len(p)
    BY <1>1, <2>1 DEF Elements
  <2>2. CASE i \notin 1 .. Len(p)
    <3>1. i - Len(p) \in 1 .. Len(q) /\ i = Len(p) + (i - Len(p))
      BY <1>1, <2>2
    <3>2. (p \o q)[i] = q[i - Len(p)]
      BY <1>1, <3>1
    <3>. QED
      BY <1>1, <3>1, <3>2 DEF Elements
  <2>. QED
    BY <2>1, <2>2
<1>3. ASSUME NEW i \in DOMAIN p PROVE p[i] \in Elements(p \o q)
  <2>1. i \in DOMAIN (p \o q) /\ (p \o q)[i] = p[i]
    BY <1>1
  <2>. QED
    BY <2>1 DEF Elements
<1>4. ASSUME NEW i \in DOMAIN q PROVE q[i] \in Elements(p \o q)
  <2>1. Len(p) + i \in DOMAIN (p \o q) /\ (p \o q)[Len(p) + i] = q[i]
    BY <1>1
  <2>. QED
    BY <2>1 DEF Elements
<1>5. Elements(p \o q) \subseteq Elements(p) \cup Elements(q)
  BY <1>2 DEF Elements
<1>6. Elements(p) \subseteq Elements(p \o q) /\ Elements(q) \subseteq Elements(p \o q)
  BY <1>3, <1>4 DEF Elements
<1>. QED
  BY <1>1, <1>5, <1>6

LEMMA Conserved == TypeOK /\ Buffers => BuffersConserved
<1> SUFFICES ASSUME TypeOK, Buffers, cam # "init" PROVE BuffersConserved
  BY DEF BuffersConserved
<1>1. incoming \in Seq(Bufs) /\ outgoing \in Seq(Bufs) /\ Holding \in Seq(Bufs)
  <2>1. incoming \in Seq(Bufs) /\ outgoing \in Seq(Bufs) /\ index \in Bufs
    BY DEF TypeOK
  <2>2. <<index>> \in Seq(Bufs) /\ <<>> \in Seq(Bufs)
    BY <2>1
  <2>. QED
    BY <2>1, <2>2, HoldingIs
<1>. DEFINE queued == incoming \o outgoing
            all == queued \o Holding
<1>2. /\ Len(queued) = Len(incoming) + Len(outgoing)
      /\ Elements(queued) = Elements(incoming) \cup Elements(outgoing)
  BY <1>1, ElementsConcat
<1>02. queued \in Seq(Bufs)
  BY <1>1
<1>. HIDE DEF queued
<1>3. /\ Len(all) = Len(queued) + Len(Holding)
      /\ Elements(all) = Elements(queued) \cup Elements(Holding)
  BY <1>1, <1>02, ElementsConcat
<1>4. Len(all) = Cardinality(DOMAIN content) /\ Elements(all) = DOMAIN content
  BY <1>2, <1>3 DEF Buffers
<1>. QED
  BY <1>4 DEF BuffersConserved, Elements, queued

-----------------------------------------------------------------------------
VideoInv ==
  /\ TypeOK /\ Buffers /\ Allocated /\ Counted
  /\ Ordered /\ Exclusion /\ Public /\ Copying

LEMMA InvInit == Init => VideoInv
BY TypedInit, CountedInit, OrderedInit, ExclusionInit, PublicInit, CopyingInit DEF VideoInv

LEMMA InvStep == VideoInv /\ [Next]_vars => VideoInv'
BY TypedStep, BuffersStep, AllocatedStep, CountedStep, OrderedStep, ExclusionStep, PublicStep,
   CopyingStep DEF VideoInv

LEMMA Invariant == Spec => []VideoInv
BY InvInit, InvStep, PTL DEF Spec

(* The variables keep their types: the buffer that the camera thread reads *)
(* is one the driver has granted, jpg is not NULL where it is written      *)
(* through, and no more pictures are discarded than main.c asks for        *)
(* (main.c, 81-127).                                                       *)
THEOREM TypeCorrect == Spec => []TypeOK
<1>1. VideoInv => TypeOK
  BY DEF VideoInv
<1>. QED
  BY <1>1, Invariant, PTL

(* Whatever number of buffers the driver grants, each is at all times with *)
(* the driver, waiting to be dequeued or with the camera thread, and in    *)
(* one of these places only (main.c, 104-127; camera.c, 158-212).          *)
THEOREM BuffersKept == Spec => []BuffersConserved
<1>1. VideoInv => BuffersConserved
  BY Conserved DEF VideoInv
<1>. QED
  BY <1>1, Invariant, PTL

(* The picture the camera thread has taken a buffer for stays in it until  *)
(* the buffer is queued again, and the pictures are handled one by one in  *)
(* the order they were taken (main.c, 88-127; camera.c, 181-212).          *)
THEOREM PicturesInOrder == Spec => []Ordered
<1>1. VideoInv => Ordered
  BY DEF VideoInv
<1>. QED
  BY <1>1, Invariant, PTL

(* Each thread is in its critical section exactly while it holds the mutex *)
(* (main.c, 121-123; srv.c, 68-79).                                        *)
THEOREM MutexHeld == Spec => []Exclusion
<1>1. VideoInv => Exclusion
  BY DEF VideoInv
<1>. QED
  BY <1>1, Invariant, PTL

(* Each request is answered at most once, with one whole picture, no older *)
(* than the request and none of those discarded, whatever the camera       *)
(* thread writes meanwhile (main.c, 88-127; srv.c, 67-95).                 *)
THEOREM Implements == Spec => ImplementsPictureService
<1>1. Spec => Service!Init
  BY ServiceInit DEF Spec
<1>2. VideoInv /\ [Next]_vars => [Service!Next]_(Service!vars)
  BY ServiceStep DEF VideoInv
<1>. QED
  BY <1>1, <1>2, Invariant, PTL DEF Spec, ImplementsPictureService, Service!Spec

=============================================================================
