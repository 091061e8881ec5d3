---------------------------- MODULE DeviceProofs ----------------------------
(***************************************************************************)
(* Proofs about Device, for a table of any length, any interval and width  *)
(* of the clock, and any number of presses and faults: types, the punctual *)
(* report, the switches and the temperature.                               *)
(***************************************************************************)
EXTENDS Device, TLAPS

LEMMA ZeroOnClock == 0 \in 0 .. Wrap - 1
BY DeviceAssumption

LEMMA TypedInit == Init => TypeOK
<1> SUFFICES ASSUME Init PROVE TypeOK
  OBVIOUS
<1>1. desired \in [Fields -> 0 .. 2]
  BY DEF Init, Nothing
<1>2. deltas \in Seq(Messages)
  BY DEF Init
<1>3. /\ running \in BOOLEAN /\ lamp \in BOOLEAN
      /\ now \in 0 .. Wrap - 1 /\ prev \in 0 .. Wrap - 1 /\ since \in Nat
  BY ZeroOnClock DEF Init
<1>4. presses \in 0 .. MaxPresses /\ faults \in 0 .. MaxFaults
  BY DeviceAssumption DEF Init
<1>5. num \in 0 .. MaxTemp /\ asked \in 0 .. MaxTemp
  BY DeviceAssumption DEF Init
<1>. QED
  BY <1>1, <1>2, <1>3, <1>4, <1>5 DEF Init, TypeOK

LEMMA QueueParts ==
  ASSUME NEW S, NEW q \in Seq(S), q # <<>>
  PROVE  /\ Head(q) \in S /\ Tail(q) \in Seq(S)
         /\ Len(q) \in Nat \ {0} /\ DOMAIN q = 1 .. Len(q) /\ Head(q) = q[1]
         /\ Len(Tail(q)) = Len(q) - 1 /\ DOMAIN Tail(q) = 1 .. Len(q) - 1
         /\ \A i \in 1 .. Len(q) - 1 : Tail(q)[i] = q[i + 1]
OBVIOUS

LEMMA QueueGrown ==
  ASSUME NEW S, NEW q \in Seq(S), NEW m \in S
  PROVE  /\ Append(q, m) \in Seq(S) /\ Len(q) \in Nat
         /\ DOMAIN q = 1 .. Len(q) /\ DOMAIN Append(q, m) = 1 .. Len(q) + 1
         /\ Len(Append(q, m)) = Len(q) + 1
         /\ Append(q, m)[Len(q) + 1] = m
         /\ \A i \in 1 .. Len(q) : Append(q, m)[i] = q[i]
OBVIOUS

(* Remainders.                                                             *)
LEMMA ModRange ==
  ASSUME NEW w \in Nat \ {0}, NEW x \in Int PROVE x % w \in 0 .. w - 1
BY SMT

LEMMA ModSum ==
  ASSUME NEW w \in Nat \ {0}, NEW a \in 0 .. w - 1, NEW b \in 0 .. w
  PROVE  (a + b) % w = IF a + b < w THEN a + b ELSE a + b - w
BY SMT

LEMMA ModDifference ==
  ASSUME NEW w \in Nat \ {0}, NEW a \in 0 .. w - 1, NEW b \in 0 .. w - 1
  PROVE  (a - b) % w = IF a < b THEN a - b + w ELSE a - b
BY SMT

LEMMA NextInTable ==
  ASSUME NEW t \in 0 .. MaxTemp
  PROVE  Less(t) \in 0 .. MaxTemp /\ More(t) \in 0 .. MaxTemp
BY DeviceAssumption DEF Less, More

(* What the callback does to num stays in the table, whatever the delta.   *)
LEMMA TempInTable ==
  ASSUME TypeOK, NEW doc \in [Fields -> 0 .. 2]
  PROVE  AfterPower(doc) \in 0 .. MaxTemp /\ AfterTemp(doc) \in 0 .. MaxTemp
<1>1. AfterPower(doc) \in 0 .. MaxTemp
  BY DeviceAssumption DEF TypeOK, AfterPower
<1>. QED
  BY <1>1, NextInTable DEF AfterTemp

LEMMA LoopTyped ==
  ASSUME TypeOK, Iteration
  PROVE  now' \in 0 .. Wrap - 1 /\ prev' \in 0 .. Wrap - 1 /\ since' \in Nat
<1>1. PICK d \in 1 .. MaxLoop : /\ now' = (now + d) % Wrap
                                /\ since' = (IF Due THEN 0 ELSE since) + d
  BY DEF Iteration
<1>2. Wrap \in Nat \ {0} /\ now + d \in Int
  BY DeviceAssumption DEF TypeOK
<1>3. now' \in 0 .. Wrap - 1
  BY <1>1, <1>2, ModRange
<1>. QED
  BY <1>1, <1>3, DeviceAssumption DEF Iteration, TypeOK

LEMMA LostFields == TypeOK => Lost \subseteq Fields
<1> SUFFICES ASSUME TypeOK, NEW i \in DOMAIN deltas
             PROVE  Missed(deltas[i].own) \subseteq Fields
  BY DEF Lost
<1>1. deltas[i] \in Messages
  BY DEF TypeOK
<1>2. deltas[i].own \in Fields
  BY <1>1 DEF Messages
<1>. QED
  BY <1>2 DEF Missed, Fields

LEMMA TypedStep == TypeOK /\ [Next]_vars => TypeOK'
<1> SUFFICES ASSUME TypeOK, [Next]_vars PROVE TypeOK'
  OBVIOUS
<1> USE DeviceAssumption DEF hubVars, clockVars, homeVars
<1>1. ASSUME NEW f \in Fields, NEW v \in {1, 2}, Press(f, v) PROVE TypeOK'
  <2>1. desired' \in [Fields -> 0 .. 2]
    BY <1>1 DEF Press, TypeOK
  <2>2. asked' \in 0 .. MaxTemp
    <3>1. Less(asked) \in 0 .. MaxTemp /\ More(asked) \in 0 .. MaxTemp /\ asked \in 0 .. MaxTemp
      BY NextInTable DEF TypeOK
    <3>2. asked' = Asks(f, v)
      BY <1>1 DEF Press
    <3>. QED
      BY <3>1, <3>2 DEF Asks
  <2>3. deltas' \in Seq(Messages)
    <3>1. CASE sub = "yes"
      <4>1. PICK again \in SUBSET (Fields \ {f}) :
              deltas' = Append(deltas, [own |-> f, doc |->
                 [g \in Fields |-> IF g \in again \cup {f} THEN desired'[g] ELSE 0]])
        BY <1>1, <3>1 DEF Press
      <4>2. [g \in Fields |-> IF g \in again \cup {f} THEN desired'[g] ELSE 0]
              \in [Fields -> 0 .. 2]
        BY <2>1
      <4>. QED
        BY <4>1, <4>2 DEF TypeOK, Messages
    <3>2. CASE sub # "yes"
      BY <1>1, <3>2 DEF Press, TypeOK, Messages
    <3>. QED
      BY <3>1, <3>2
  <2>4. spoiled' \subseteq Fields
    BY <1>1 DEF Press, TypeOK, Missed, Fields
  <2>. QED
    BY <1>1, <2>1, <2>2, <2>3, <2>4 DEF Press, TypeOK, Messages
<1>2. CASE SubscriptionArrives
  BY <1>2 DEF SubscriptionArrives, TypeOK
<1>3. Lost \subseteq Fields
  BY LostFields
<1>4. CASE LinkBreaks
  BY <1>3, <1>4 DEF LinkBreaks, TypeOK
<1>5. CASE Restart
  <2>1. spoiled' \subseteq Fields
    BY <1>3, <1>5 DEF Restart, TypeOK, Fields
  <2>2. deltas' \in Seq(Messages)
    BY <1>5 DEF Restart
  <2>3. now' \in 0 .. Wrap - 1 /\ prev' \in 0 .. Wrap - 1
    BY <1>5, ZeroOnClock DEF Restart
  <2>4. num' \in 0 .. MaxTemp /\ since' \in Nat /\ faults' \in 0 .. MaxFaults
    BY <1>5 DEF Restart, TypeOK
  <2>5. running' \in BOOLEAN /\ lamp' \in BOOLEAN
    BY <1>5 DEF Restart
  <2>. QED
    BY <1>5, <2>1, <2>2, <2>3, <2>4, <2>5 DEF Restart, TypeOK
<1>6. CASE Setup
  BY <1>6 DEF Setup, TypeOK
<1>7. CASE Iterate
  <2>1. Iteration
    BY <1>7 DEF Iterate, Connect, Idle, KeepAliveFails, Callback
  <2>2. now' \in 0 .. Wrap - 1 /\ prev' \in 0 .. Wrap - 1 /\ since' \in Nat
    BY <2>1, LoopTyped
  <2>3. CASE Connect
    BY <2>2, <2>3 DEF Connect, TypeOK
  <2>4. CASE Idle
    BY <2>2, <2>4 DEF Idle, TypeOK
  <2>5. CASE KeepAliveFails
    BY <2>2, <2>5 DEF KeepAliveFails, TypeOK
  <2>6. CASE Callback
    <3>1. Head(deltas) \in Messages /\ deltas' \in Seq(Messages)
      BY <2>6, QueueParts DEF Callback, TypeOK, Messages
    <3>2. /\ num' \in 0 .. MaxTemp
          /\ lamp' \in BOOLEAN
          /\ power' \in 0 .. 2
          /\ air' \in 0 .. MaxTemp \cup {Unset}
      BY <2>6, <3>1, TempInTable DEF Callback, Obey, TypeOK, Fields, Messages
    <3>3. spoiled' \subseteq Fields
      BY <2>6 DEF Callback, Spoils, TypeOK, Fields
    <3>. QED
      BY <2>2, <2>6, <3>1, <3>2, <3>3 DEF Callback, TypeOK, Messages
  <2>. QED
    BY <1>7, <2>3, <2>4, <2>5, <2>6 DEF Iterate
<1>8. CASE UNCHANGED vars
  BY <1>8 DEF vars, TypeOK
<1>. QED
  BY <1>1, <1>2, <1>4, <1>5, <1>6, <1>7, <1>8 DEF Next

(* Every variable keeps its type: num stays in the table of temperatures   *)
(* for any sequence of deltas.                                             *)
THEOREM TypeCorrect == Spec => []TypeOK
BY TypedInit, TypedStep, PTL DEF Spec

-----------------------------------------------------------------------------
(* The clock: prev is 0 until setup() is done, and since is the distance   *)
(* from prev to now, forward and around, and shorter than once around.     *)
ClockInv ==
  /\ ~running => prev = 0
  /\ since < Wrap
  /\ since = now - prev \/ since = now - prev + Wrap

LEMMA DueWhenSince ==
  ASSUME TypeOK, ClockInv
  PROVE  Due <=> since > Interval
<1>1. /\ Wrap \in Nat \ {0} /\ Interval \in Nat /\ since \in Nat
      /\ now \in 0 .. Wrap - 1 /\ prev \in 0 .. Wrap - 1
  BY DeviceAssumption DEF TypeOK
<1>2. since < Wrap
  BY DEF ClockInv
<1>3. (now - prev) % Wrap = IF now < prev THEN now - prev + Wrap ELSE now - prev
  BY <1>1, ModDifference
<1>4. (now - prev) % Wrap = since
  BY <1>1, <1>2, <1>3 DEF ClockInv
<1>. QED
  BY <1>4 DEF Due

LEMMA LoopOnTime ==
  ASSUME TypeOK, ClockInv, Iteration, UNCHANGED running
  PROVE  /\ ClockInv'
         /\ prev' # prev => since > Interval
         /\ since' > since => since' <= Interval + MaxLoop
<1>1. PICK d \in 1 .. MaxLoop : /\ now' = (now + d) % Wrap
                                /\ since' = (IF Due THEN 0 ELSE since) + d
  BY DEF Iteration
<1>2. prev' = IF Due THEN now ELSE prev
  BY DEF Iteration
<1>3. Due <=> since > Interval
  BY DueWhenSince
<1>4. /\ Wrap \in Nat \ {0} /\ Interval \in Nat /\ MaxLoop \in Nat
      /\ Interval + MaxLoop < Wrap
      /\ now \in 0 .. Wrap - 1 /\ prev \in 0 .. Wrap - 1 /\ since \in Nat
  BY DeviceAssumption DEF TypeOK
<1>5. now' = IF now + d < Wrap THEN now + d ELSE now + d - Wrap
  <2>1. d \in 0 .. Wrap
    BY <1>4
  <2>. QED
    BY <1>1, <1>4, <2>1, ModSum
<1>6. running'
  BY DEF Iteration
<1>7. CASE Due
  BY <1>1, <1>2, <1>3, <1>4, <1>5, <1>6, <1>7 DEF ClockInv
<1>8. CASE ~Due
  BY <1>1, <1>2, <1>3, <1>4, <1>5, <1>6, <1>8 DEF ClockInv
<1>. QED
  BY <1>7, <1>8

LEMMA ClockStep ==
  TypeOK /\ ClockInv /\ [Next]_vars =>
    /\ ClockInv'
    /\ running /\ running' =>
         /\ prev' # prev => since > Interval
         /\ since' > since => since' <= Interval + MaxLoop
<1> SUFFICES ASSUME TypeOK, ClockInv, [Next]_vars
             PROVE  /\ ClockInv'
                    /\ running /\ running' =>
                         /\ prev' # prev => since > Interval
                         /\ since' > since => since' <= Interval + MaxLoop
  OBVIOUS
<1>1. CASE Iteration /\ UNCHANGED running
  BY <1>1, LoopOnTime
<1>2. CASE Restart
  <2>1. ~running' /\ now' = 0 /\ prev' = 0 /\ since' = 0
    BY <1>2 DEF Restart
  <2>2. 0 < Wrap
    BY DeviceAssumption
  <2>. QED
    BY <2>1, <2>2 DEF ClockInv
<1>3. CASE Setup
  <2>1. PICK t \in 0 .. Wrap - 1 : now' = t /\ since' = t
    BY <1>3 DEF Setup
  <2>2. prev' = prev /\ ~running
    BY <1>3 DEF Setup
  <2>3. prev = 0
    BY <2>2 DEF ClockInv
  <2>. QED
    BY <2>1, <2>2, <2>3, DeviceAssumption DEF ClockInv
<1>4. CASE UNCHANGED <<clockVars, running>>
  <2>1. since \in Nat
    BY DEF TypeOK
  <2>. QED
    BY <1>4, <2>1 DEF clockVars, ClockInv
<1>. QED
  BY <1>1, <1>2, <1>3, <1>4 DEF Next, Press, SubscriptionArrives, LinkBreaks, Iterate,
     Connect, Idle, KeepAliveFails, Callback, clockVars, vars

(* Reports come after the interval and, whatever time setup() has taken,   *)
(* the wait grows at most one iteration beyond it, with a clock of any     *)
(* width that is wider than the two together.                              *)
THEOREM Punctual == Spec => ReportsOnTime
<1>1. Init => ClockInv
  BY DeviceAssumption DEF Init, ClockInv
<1>. QED
  BY <1>1, TypeCorrect, ClockStep, PTL DEF Spec, ReportsOnTime

-----------------------------------------------------------------------------
(* Deltas are under way only to a device that has subscribed, so that none *)
(* is older than a change of the desired values.                           *)
Subscribed ==
  /\ sub = "yes" => link = "up"
  /\ deltas # <<>> => sub = "yes"

(* Each delta carries the field that was written, and the latest that may  *)
(* carry a field carries what is desired of it.                            *)
Latest ==
  \A i \in DOMAIN deltas :
    /\ deltas[i].doc[deltas[i].own] # 0
    /\ \A f \in Fields :
         deltas[i].doc[f] # 0 /\ (\A j \in DOMAIN deltas : j > i => deltas[j].own # f)
           => deltas[i].doc[f] = desired[f]

NoneOwns(f) == \A i \in DOMAIN deltas : deltas[i].own # f

Obeyed ==
  /\ NoneOwns("ledswitch") /\ "ledswitch" \notin spoiled
       => (lamp <=> desired["ledswitch"] = 1)
  /\ NoneOwns("airpower") /\ "airpower" \notin spoiled
       => power = desired["airpower"]

LEMMA SubscribedStep == Subscribed /\ [Next]_vars => Subscribed'
<1> SUFFICES ASSUME Subscribed, [Next]_vars PROVE Subscribed'
  OBVIOUS
<1>1. ASSUME NEW f \in Fields, NEW v \in {1, 2}, Press(f, v) PROVE Subscribed'
  BY <1>1 DEF Press, Subscribed
<1>2. CASE SubscriptionArrives
  BY <1>2 DEF SubscriptionArrives, Subscribed
<1>3. CASE LinkBreaks
  BY <1>3 DEF LinkBreaks, Subscribed
<1>4. CASE Restart
  BY <1>4 DEF Restart, Subscribed
<1>5. CASE Setup
  BY <1>5 DEF Setup, Subscribed
<1>6. CASE Connect
  BY <1>6 DEF Connect, Subscribed
<1>7. CASE Idle
  BY <1>7 DEF Idle, Subscribed
<1>8. CASE KeepAliveFails
  BY <1>8 DEF KeepAliveFails, Subscribed
<1>9. CASE Callback
  BY <1>9 DEF Callback, Subscribed
<1>10. CASE UNCHANGED vars
  BY <1>10 DEF vars, Subscribed
<1>. QED
  BY <1>1, <1>2, <1>3, <1>4, <1>5, <1>6, <1>7, <1>8, <1>9, <1>10 DEF Next, Iterate

(* A press appends one delta, which carries what it has written and, of    *)
(* the other fields, what is desired or nothing; or, without subscription, *)
(* none.                                                                   *)
LEMMA PressSends ==
  ASSUME TypeOK, Subscribed, NEW f \in Fields, NEW v \in {1, 2}, Press(f, v)
  PROVE  /\ desired' = [desired EXCEPT ![f] = v] /\ desired'[f] = v
         /\ \A g \in Fields \ {f} : desired'[g] = desired[g]
         /\ \/ /\ sub = "yes" /\ UNCHANGED spoiled
               /\ \E doc \in [Fields -> 0 .. 2] :
                    /\ deltas' = Append(deltas, [own |-> f, doc |-> doc])
                    /\ [own |-> f, doc |-> doc] \in Messages
                    /\ doc[f] = v
                    /\ \A g \in Fields : doc[g] # 0 => doc[g] = desired'[g]
            \/ /\ deltas = <<>> /\ deltas' = <<>>
               /\ spoiled' = spoiled \cup Missed(f)
<1>1. desired' = [desired EXCEPT ![f] = v] /\ desired' \in [Fields -> 0 .. 2]
  BY DEF Press, TypeOK
<1>2. desired'[f] = v /\ \A g \in Fields \ {f} : desired'[g] = desired[g]
  BY <1>1 DEF TypeOK
<1>3. CASE sub = "yes"
  <2>1. PICK again \in SUBSET (Fields \ {f}) :
          deltas' = Append(deltas, [own |-> f, doc |->
             [g \in Fields |-> IF g \in again \cup {f} THEN desired'[g] ELSE 0]])
    BY <1>3 DEF Press
  <2>. DEFINE doc == [g \in Fields |-> IF g \in again \cup {f} THEN desired'[g] ELSE 0]
  <2>2. doc \in [Fields -> 0 .. 2] /\ doc[f] = v
    BY <1>1, <1>2
  <2>3. \A g \in Fields : doc[g] # 0 => doc[g] = desired'[g]
    OBVIOUS
  <2>4. UNCHANGED spoiled
    BY <1>3 DEF Press
  <2>5. [own |-> f, doc |-> doc] \in Messages
    BY <2>2 DEF Messages
  <2>. HIDE DEF doc
  <2>. QED
    BY <1>1, <1>2, <1>3, <2>1, <2>2, <2>3, <2>4, <2>5 DEF doc
<1>4. CASE sub # "yes"
  BY <1>1, <1>2, <1>4 DEF Press, Subscribed
<1>. QED
  BY <1>3, <1>4

LEMMA LatestStep == TypeOK /\ Subscribed /\ Latest /\ [Next]_vars => Latest'
<1> SUFFICES ASSUME TypeOK, Subscribed, Latest, [Next]_vars PROVE Latest'
  OBVIOUS
<1>1. ASSUME NEW f \in Fields, NEW v \in {1, 2}, Press(f, v) PROVE Latest'
  <2>1. CASE deltas' = <<>>
    BY <2>1 DEF Latest
  <2>2. CASE deltas' # <<>>
    <3>1. PICK doc \in [Fields -> 0 .. 2] :
            /\ deltas' = Append(deltas, [own |-> f, doc |-> doc])
            /\ [own |-> f, doc |-> doc] \in Messages
            /\ doc[f] = v
            /\ \A g \in Fields : doc[g] # 0 => doc[g] = desired'[g]
      BY <1>1, <2>2, PressSends
    <3>2. \A g \in Fields \ {f} : desired'[g] = desired[g]
      BY <1>1, PressSends
    <3>. DEFINE n == Len(deltas)
    <3>3. /\ n \in Nat /\ DOMAIN deltas = 1 .. n /\ DOMAIN deltas' = 1 .. n + 1
          /\ deltas'[n + 1] = [own |-> f, doc |-> doc]
          /\ \A i \in 1 .. n : deltas'[i] = deltas[i]
      BY <3>1, QueueGrown DEF TypeOK
    <3>. HIDE DEF n
    <3>4. ASSUME NEW i \in 1 .. n PROVE
            /\ deltas'[i].doc[deltas'[i].own] # 0
            /\ \A g \in Fields :
                 deltas'[i].doc[g] # 0 /\ (\A j \in 1 .. n + 1 : j > i => deltas'[j].own # g)
                   => deltas'[i].doc[g] = desired'[g]
      <4>1. deltas'[i] = deltas[i] /\ i \in DOMAIN deltas
        BY <3>3
      <4>2. ASSUME NEW g \in Fields, deltas'[i].doc[g] # 0,
                   \A j \in 1 .. n + 1 : j > i => deltas'[j].own # g
            PROVE  deltas'[i].doc[g] = desired'[g]
        <5>1. g # f
          BY <3>3, <4>2
        <5>2. \A j \in DOMAIN deltas : j > i => deltas[j].own # g
          BY <3>3, <4>2
        <5>. QED
          BY <3>2, <4>1, <4>2, <5>1, <5>2 DEF Latest
      <4>. QED
        BY <4>1, <4>2 DEF Latest
    <3>5. /\ deltas'[n + 1].doc[deltas'[n + 1].own] # 0
          /\ \A g \in Fields : deltas'[n + 1].doc[g] # 0 => deltas'[n + 1].doc[g] = desired'[g]
      BY <3>1, <3>3
    <3>6. ASSUME NEW i \in DOMAIN deltas' PROVE
            /\ deltas'[i].doc[deltas'[i].own] # 0
            /\ \A g \in Fields :
                 deltas'[i].doc[g] # 0 /\ (\A j \in DOMAIN deltas' : j > i => deltas'[j].own # g)
                   => deltas'[i].doc[g] = desired'[g]
      <4>1. i \in 1 .. n \/ i = n + 1
        BY <3>3
      <4>2. CASE i \in 1 .. n
        BY <3>3, <3>4, <4>2
      <4>3. CASE i = n + 1
        BY <3>5, <4>3
      <4>. QED
        BY <4>1, <4>2, <4>3
    <3>. QED
      BY <3>6 DEF Latest
  <2>. QED
    BY <2>1, <2>2
<1>2. CASE LinkBreaks \/ Restart
  BY <1>2 DEF LinkBreaks, Restart, Latest
<1>3. CASE Callback
  <2>1. /\ deltas' = Tail(deltas) /\ deltas # <<>> /\ UNCHANGED desired
    BY <1>3 DEF Callback, hubVars
  <2>. DEFINE n == Len(deltas)
  <2>2. /\ n \in Nat \ {0} /\ DOMAIN deltas = 1 .. n /\ DOMAIN deltas' = 1 .. n - 1
        /\ \A i \in 1 .. n - 1 : deltas'[i] = deltas[i + 1]
    BY <2>1, QueueParts DEF TypeOK
  <2>. HIDE DEF n
  <2>3. ASSUME NEW i \in 1 .. n - 1, NEW g \in Fields,
               \A j \in 1 .. n - 1 : j > i => deltas'[j].own # g
        PROVE  \A j \in DOMAIN deltas : j > i + 1 => deltas[j].own # g
    <3>. SUFFICES ASSUME NEW j \in 1 .. n, j > i + 1 PROVE deltas[j].own # g
      BY <2>2
    <3>1. j - 1 \in 1 .. n - 1 /\ j - 1 > i /\ (j - 1) + 1 = j
      BY <2>2
    <3>. QED
      BY <2>2, <2>3, <3>1
  <2>4. ASSUME NEW i \in DOMAIN deltas' PROVE
          /\ deltas'[i].doc[deltas'[i].own] # 0
          /\ \A g \in Fields :
               deltas'[i].doc[g] # 0 /\ (\A j \in DOMAIN deltas' : j > i => deltas'[j].own # g)
                 => deltas'[i].doc[g] = desired'[g]
    <3>. i \in 1 .. n - 1
      BY <2>2
    <3>1. i + 1 \in DOMAIN deltas /\ deltas'[i] = deltas[i + 1]
      BY <2>2
    <3>2. /\ deltas[i + 1].doc[deltas[i + 1].own] # 0
          /\ \A g \in Fields :
               deltas[i + 1].doc[g] # 0 /\ (\A j \in DOMAIN deltas : j > i + 1 => deltas[j].own # g)
                 => deltas[i + 1].doc[g] = desired[g]
      BY <3>1 DEF Latest
    <3>3. ASSUME NEW g \in Fields, deltas'[i].doc[g] # 0,
                 \A j \in DOMAIN deltas' : j > i => deltas'[j].own # g
          PROVE  deltas'[i].doc[g] = desired'[g]
      <4>1. \A j \in DOMAIN deltas : j > i + 1 => deltas[j].own # g
        BY <2>2, <2>3, <3>3
      <4>. QED
        BY <2>1, <3>1, <3>2, <3>3, <4>1
    <3>. QED
      BY <3>1, <3>2, <3>3
  <2>. QED
    BY <2>4 DEF Latest
<1>4. CASE UNCHANGED <<desired, deltas>>
  BY <1>4 DEF Latest
<1>. QED
  BY <1>1, <1>2, <1>3, <1>4 DEF Next, SubscriptionArrives, Setup, Iterate, Connect, Idle,
     KeepAliveFails, hubVars, vars

Switches == {"ledswitch", "airpower"}

(* What is lost with the connection leaves its mark.                       *)
LEMMA LostIsMarked ==
  ASSUME TypeOK, NEW f \in Fields, f \notin Lost
  PROVE  NoneOwns(f)
<1> SUFFICES ASSUME NEW i \in DOMAIN deltas, deltas[i].own = f PROVE FALSE
  BY DEF NoneOwns
<1>1. f \in Missed(deltas[i].own)
  BY DEF Missed
<1>. QED
  BY <1>1 DEF Lost

(* A press of another button changes nothing for a switch.                 *)
LEMMA PressElsewhere ==
  ASSUME TypeOK, Subscribed, NEW f \in Fields, NEW v \in {1, 2}, Press(f, v),
         NEW g \in Fields, NoneOwns(g)', g \notin spoiled'
  PROVE  NoneOwns(g) /\ g \notin spoiled /\ desired'[g] = desired[g] /\ g # f
<1>1. CASE deltas' = <<>>
  <2>1. deltas = <<>> /\ spoiled' = spoiled \cup Missed(f)
    <3>1. ASSUME NEW m \in Messages PROVE Append(deltas, m) # <<>>
      BY QueueGrown DEF TypeOK
    <3>. QED
      BY <1>1, <3>1, PressSends
  <2>2. f \in Missed(f)
    BY DEF Missed
  <2>. QED
    BY <2>1, <2>2, PressSends DEF NoneOwns
<1>2. CASE deltas' # <<>>
  <2>1. PICK doc \in [Fields -> 0 .. 2] :
          /\ deltas' = Append(deltas, [own |-> f, doc |-> doc])
          /\ [own |-> f, doc |-> doc] \in Messages
    BY <1>2, PressSends
  <2>2. UNCHANGED spoiled
    BY <1>2, PressSends
  <2>3. /\ Len(deltas) + 1 \in DOMAIN deltas'
        /\ deltas'[Len(deltas) + 1] = [own |-> f, doc |-> doc]
        /\ \A i \in DOMAIN deltas : i \in DOMAIN deltas' /\ deltas'[i] = deltas[i]
    BY <2>1, QueueGrown DEF TypeOK
  <2>4. g # f
    BY <2>3 DEF NoneOwns
  <2>. QED
    BY <2>2, <2>3, <2>4, PressSends DEF NoneOwns
<1>. QED
  BY <1>1, <1>2

LEMMA ObeyedStep ==
  TypeOK /\ Subscribed /\ Latest /\ Obeyed /\ [Next]_vars => Obeyed'
<1> SUFFICES ASSUME TypeOK, Subscribed, Latest, Obeyed, [Next]_vars PROVE Obeyed'
  OBVIOUS
<1>. Switches \subseteq Fields /\ "ledswitch" \in Switches /\ "airpower" \in Switches
  BY DEF Switches, Fields
<1>1. ASSUME NEW f \in Fields, NEW v \in {1, 2}, Press(f, v) PROVE Obeyed'
  <2>1. \A g \in Switches : NoneOwns(g)' /\ g \notin spoiled' =>
          NoneOwns(g) /\ g \notin spoiled /\ desired'[g] = desired[g]
    BY <1>1, PressElsewhere
  <2>2. UNCHANGED <<lamp, power>>
    BY <1>1 DEF Press, homeVars
  <2>. QED
    BY <2>1, <2>2 DEF Obeyed
<1>2. CASE LinkBreaks
  <2>1. \A g \in Switches : g \notin spoiled' => NoneOwns(g) /\ g \notin spoiled
    BY <1>2, LostIsMarked DEF LinkBreaks
  <2>2. UNCHANGED <<desired, lamp, power>>
    BY <1>2 DEF LinkBreaks, hubVars, homeVars
  <2>. QED
    BY <2>1, <2>2 DEF Obeyed
<1>3. CASE Restart
  <2>1. \A g \in Switches : g \notin spoiled' => NoneOwns(g) /\ g \notin spoiled
    BY <1>3, LostIsMarked DEF Restart
  <2>2. UNCHANGED <<desired, power>> /\ "ledswitch" \in spoiled'
    BY <1>3 DEF Restart, hubVars
  <2>. QED
    BY <2>1, <2>2 DEF Obeyed
<1>4. CASE Callback
  <2>. DEFINE d == Head(deltas)
              n == Len(deltas)
  <2>1. /\ deltas' = Tail(deltas) /\ deltas # <<>> /\ UNCHANGED desired
        /\ Obey(d.doc) /\ spoiled' = Spoils(d)
    BY <1>4 DEF Callback, hubVars
  <2>2. /\ d \in Messages /\ n \in Nat \ {0} /\ d = deltas[1]
        /\ DOMAIN deltas = 1 .. n /\ DOMAIN deltas' = 1 .. n - 1
        /\ \A i \in 1 .. n - 1 : deltas'[i] = deltas[i + 1]
    BY <2>1, QueueParts DEF TypeOK
  <2>. HIDE DEF d, n
  <2>3. d.own \in Fields /\ d.doc \in [Fields -> 0 .. 2] /\ d.doc[d.own] # 0
    BY <2>2 DEF Messages, Latest
  <2>4. ASSUME NEW g \in Switches, NoneOwns(g)', g \notin spoiled'
        PROVE  \/ d.doc[g] # 0 /\ d.doc[g] = desired[g]
               \/ d.doc[g] = 0 /\ NoneOwns(g) /\ g \notin spoiled
    <3>1. \A j \in 2 .. n : j - 1 \in 1 .. n - 1 /\ (j - 1) + 1 = j
      BY <2>2
    <3>2. \A j \in 2 .. n : deltas[j].own # g
      BY <2>2, <2>4, <3>1 DEF NoneOwns
    <3>3. CASE d.doc[g] # 0
      <4>1. 1 \in DOMAIN deltas /\ \A j \in DOMAIN deltas : j > 1 => deltas[j].own # g
        BY <2>2, <3>2
      <4>. QED
        BY <2>2, <3>3, <4>1 DEF Latest
    <3>4. CASE d.doc[g] = 0
      <4>1. deltas[1].own # g
        BY <2>2, <2>3, <3>4
      <4>2. NoneOwns(g)
        BY <2>2, <3>2, <4>1 DEF NoneOwns
      <4>3. g \notin spoiled
        <5>1. g # "airtemp"
          BY DEF Switches
        <5>. QED
          BY <2>1, <2>4, <3>4, <5>1 DEF Spoils
      <4>. QED
        BY <3>4, <4>2, <4>3
    <3>. QED
      BY <2>3, <3>3, <3>4
  <2>5. /\ lamp' = IF d.doc["ledswitch"] = 0 THEN lamp ELSE d.doc["ledswitch"] = 1
        /\ power' = IF d.doc["airpower"] = 0 THEN power ELSE d.doc["airpower"]
    BY <2>1 DEF Obey
  <2>6. NoneOwns("ledswitch")' /\ "ledswitch" \notin spoiled'
          => (lamp' <=> desired["ledswitch"] = 1)
    BY <2>4, <2>5 DEF Obeyed
  <2>7. NoneOwns("airpower")' /\ "airpower" \notin spoiled'
          => power' = desired["airpower"]
    BY <2>4, <2>5 DEF Obeyed
  <2>. QED
    BY <2>1, <2>6, <2>7 DEF Obeyed
<1>5. CASE UNCHANGED <<desired, deltas, spoiled, lamp, power>>
  BY <1>5 DEF Obeyed, NoneOwns
<1>. QED
  BY <1>1, <1>2, <1>3, <1>4, <1>5 DEF Next, SubscriptionArrives, Setup, Iterate, Connect,
     Idle, KeepAliveFails, hubVars, homeVars, vars

SwitchInv == Subscribed /\ Latest /\ Obeyed

LEMMA SwitchInvInit == Init => SwitchInv
<1> SUFFICES ASSUME Init PROVE SwitchInv
  OBVIOUS
<1>1. Subscribed /\ Latest
  BY DEF Init, Subscribed, Latest
<1>2. desired["ledswitch"] = 0 /\ desired["airpower"] = 0
  BY DEF Init, Nothing, Fields
<1>3. lamp = FALSE /\ power = 0
  BY DEF Init
<1>. QED
  BY <1>1, <1>2, <1>3 DEF SwitchInv, Obeyed

LEMMA SwitchInvStep == TypeOK /\ SwitchInv /\ [Next]_vars => SwitchInv'
BY SubscribedStep, LatestStep, ObeyedStep DEF SwitchInv

(* Lamp and power are as the phone has asked last, for any number of       *)
(* presses and faults, and whatever the deltas repeat.                     *)
THEOREM SwitchesObeyed == Spec => []SwitchesAsAsked
<1>1. TypeOK /\ SwitchInv => SwitchesAsAsked
  <2> SUFFICES ASSUME TypeOK, SwitchInv PROVE SwitchesAsAsked
    OBVIOUS
  <2>1. \A f \in Fields : ~Carries(f) => NoneOwns(f)
    BY DEF SwitchInv, Latest, Carries, NoneOwns
  <2>2. "ledswitch" \in Fields /\ "airpower" \in Fields
    BY DEF Fields
  <2>. QED
    BY <2>1, <2>2 DEF SwitchInv, Obeyed, SwitchesAsAsked
<1>. QED
  BY <1>1, TypeCorrect, SwitchInvInit, SwitchInvStep, PTL DEF Spec

-----------------------------------------------------------------------------
(* What a delta does to the temperature when it repeats no command.        *)
Moves(d, t) ==
  IF d.own = "airpower" /\ d.doc["airpower"] = 1 THEN 0
  ELSE IF d.own = "airtemp" /\ d.doc["airtemp"] = 1 THEN Less(t)
  ELSE IF d.own = "airtemp" /\ d.doc["airtemp"] = 2 THEN More(t)
  ELSE t

(* The deltas under way lead, one after the other, to the temperature      *)
(* asked for; p[i] is the temperature after i of them.                     *)
Leads(p, ds, goal) ==
  /\ p[Len(ds)] = goal
  /\ \A i \in 1 .. Len(ds) : p[i] = Moves(ds[i], p[i - 1])
  /\ \A i \in 0 .. Len(ds) :
       (\A j \in DOMAIN ds : j > i => ds[j].own = "ledswitch") => p[i] = goal

PathInv ==
  /\ \E p \in [0 .. Len(deltas) -> 0 .. MaxTemp] :
       Leads(p, deltas, asked) /\ ("airtemp" \notin spoiled => p[0] = num)
  /\ "airtemp" \notin spoiled => air \in {num, Unset}

LEMMA PathInvInit == Init => PathInv
<1> SUFFICES ASSUME Init PROVE PathInv
  OBVIOUS
<1>. DEFINE p == [i \in 0 .. 0 |-> 0]
<1>1. Len(deltas) = 0 /\ deltas = <<>> /\ num = 0 /\ asked = 0 /\ air = Unset
  BY DEF Init
<1>2. p \in [0 .. Len(deltas) -> 0 .. MaxTemp]
  BY <1>1, DeviceAssumption
<1>3. Leads(p, deltas, asked) /\ p[0] = num
  BY <1>1 DEF Leads
<1>. QED
  BY <1>1, <1>2, <1>3 DEF PathInv

(* Where nothing is under way, one temperature is the whole path.          *)
LEMMA PathOfNone ==
  ASSUME asked' \in 0 .. MaxTemp, deltas' = <<>>,
         "airtemp" \notin spoiled' => num' = asked' /\ air' \in {num', Unset}
  PROVE  PathInv'
<1>. DEFINE p == [i \in 0 .. 0 |-> asked']
<1>1. Len(deltas') = 0
  OBVIOUS
<1>2. p \in [0 .. Len(deltas') -> 0 .. MaxTemp]
  BY <1>1
<1>3. Leads(p, deltas', asked') /\ p[0] = asked'
  BY <1>1 DEF Leads
<1>. QED
  BY <1>2, <1>3 DEF PathInv

(* With none but the lamp's deltas under way the path stays where it is.   *)
LEMMA PathFlat ==
  ASSUME TypeOK, PathInv, NoneOwns("airtemp"), NoneOwns("airpower"), "airtemp" \notin spoiled
  PROVE  num = asked
<1>1. PICK p \in [0 .. Len(deltas) -> 0 .. MaxTemp] :
        Leads(p, deltas, asked) /\ ("airtemp" \notin spoiled => p[0] = num)
  BY DEF PathInv
<1>2. \A j \in DOMAIN deltas : deltas[j].own = "ledswitch"
  <2>1. \A j \in DOMAIN deltas : deltas[j] \in Messages
    BY DEF TypeOK
  <2>2. \A j \in DOMAIN deltas : deltas[j].own \in Fields
    BY <2>1 DEF Messages
  <2>. QED
    BY <2>2 DEF NoneOwns, Fields
<1>3. 0 \in 0 .. Len(deltas)
  BY DEF TypeOK
<1>. QED
  BY <1>1, <1>2, <1>3 DEF Leads

LEMMA PressPath ==
  ASSUME TypeOK, asked' \in 0 .. MaxTemp, Subscribed, PathInv,
         NEW f \in Fields, NEW v \in {1, 2}, Press(f, v)
  PROVE  PathInv'
<1>1. PICK p \in [0 .. Len(deltas) -> 0 .. MaxTemp] :
        Leads(p, deltas, asked) /\ ("airtemp" \notin spoiled => p[0] = num)
  BY DEF PathInv
<1>2. asked' = Asks(f, v) /\ UNCHANGED <<num, air>>
  BY DEF Press, homeVars
<1>3. CASE deltas' = <<>>
  <2>1. deltas = <<>> /\ spoiled' = spoiled \cup Missed(f)
    <3>1. deltas \in Seq(Messages)
      BY DEF TypeOK
    <3>2. ASSUME NEW m \in Messages PROVE Append(deltas, m) # <<>>
      BY <3>1, QueueGrown
    <3>. QED
      BY <1>3, <3>2, PressSends
  <2>2. ASSUME "airtemp" \notin spoiled' PROVE num' = asked' /\ air' \in {num', Unset}
    <3>1. "airtemp" \notin spoiled /\ f = "ledswitch"
      BY <2>1, <2>2 DEF Missed, Fields
    <3>2. asked' = asked
      BY <1>2, <3>1 DEF Asks
    <3>3. num = asked
      BY <2>1, <3>1, PathFlat DEF NoneOwns
    <3>. QED
      BY <1>2, <3>1, <3>2, <3>3 DEF PathInv
  <2>. QED
    BY <1>3, <2>2, PathOfNone
<1>4. CASE deltas' # <<>>
  <2>1. PICK doc \in [Fields -> 0 .. 2] :
          /\ deltas' = Append(deltas, [own |-> f, doc |-> doc])
          /\ [own |-> f, doc |-> doc] \in Messages
          /\ doc[f] = v
          /\ \A g \in Fields : doc[g] # 0 => doc[g] = desired'[g]
    BY <1>4, PressSends, Zenon
  <2>2. UNCHANGED spoiled
    BY <1>4, PressSends
  <2>. DEFINE n == Len(deltas)
              q == [i \in 0 .. n + 1 |-> IF i = n + 1 THEN asked' ELSE p[i]]
  <2>3. /\ n \in Nat /\ DOMAIN deltas = 1 .. n /\ DOMAIN deltas' = 1 .. n + 1
        /\ Len(deltas') = n + 1
        /\ deltas'[n + 1] = [own |-> f, doc |-> doc]
        /\ \A i \in 1 .. n : deltas'[i] = deltas[i]
    <3>1. deltas \in Seq(Messages)
      BY DEF TypeOK
    <3>. QED
      BY <2>1, <3>1, QueueGrown
  <2>4. /\ p[n] = asked
        /\ \A i \in 1 .. n : p[i] = Moves(deltas[i], p[i - 1])
        /\ \A i \in 0 .. n :
             (\A j \in DOMAIN deltas : j > i => deltas[j].own = "ledswitch") => p[i] = asked
        /\ "airtemp" \notin spoiled => p[0] = num
    BY <1>1 DEF Leads
  <2>5. p \in [0 .. n -> 0 .. MaxTemp]
    BY <1>1
  <2>. HIDE DEF n
  <2>6. q \in [0 .. Len(deltas') -> 0 .. MaxTemp]
    BY <2>3, <2>5
  <2>7. /\ q[n + 1] = asked' /\ \A i \in 0 .. n : q[i] = p[i]
    BY <2>3
  <2>. HIDE DEF q
  <2>8. asked' = Moves(deltas'[n + 1], asked)
    BY <1>2, <2>1, <2>3 DEF Moves, Asks
  <2>9. \A i \in 1 .. Len(deltas') : q[i] = Moves(deltas'[i], q[i - 1])
    <3>1. ASSUME NEW i \in 1 .. n PROVE q[i] = Moves(deltas'[i], q[i - 1])
      <4>1. i \in 0 .. n /\ i - 1 \in 0 .. n
        BY <2>3
      <4>. QED
        BY <2>3, <2>4, <2>7, <4>1
    <3>2. q[n + 1] = Moves(deltas'[n + 1], q[(n + 1) - 1])
      <4>1. (n + 1) - 1 = n /\ n \in 0 .. n
        BY <2>3
      <4>. QED
        BY <2>4, <2>7, <2>8, <4>1
    <3>. QED
      BY <2>3, <3>1, <3>2
  <2>10. ASSUME NEW i \in 0 .. Len(deltas'),
                \A j \in DOMAIN deltas' : j > i => deltas'[j].own = "ledswitch"
         PROVE  q[i] = asked'
    <3>1. CASE i = n + 1
      BY <2>7, <3>1
    <3>2. CASE i # n + 1
      <4>1. i \in 0 .. n
        BY <2>3, <3>2
      <4>2. f = "ledswitch"
        <5>1. n + 1 \in DOMAIN deltas' /\ n + 1 > i
          BY <2>3, <4>1
        <5>. QED
          BY <2>3, <2>10, <5>1
      <4>3. asked' = asked
        BY <1>2, <4>2 DEF Asks
      <4>4. \A j \in DOMAIN deltas : j > i => deltas[j].own = "ledswitch"
        BY <2>3, <2>10
      <4>. QED
        BY <2>4, <2>7, <4>1, <4>3, <4>4
    <3>. QED
      BY <3>1, <3>2
  <2>11. "airtemp" \notin spoiled' => q[0] = num'
    BY <1>2, <2>2, <2>3, <2>4, <2>7
  <2>12. Leads(q, deltas', asked')
    BY <2>3, <2>7, <2>9, <2>10 DEF Leads
  <2>. QED
    BY <1>2, <2>2, <2>6, <2>11, <2>12 DEF PathInv
<1>. QED
  BY <1>3, <1>4

(* The device obeys a delta that repeats no command as the phone means it. *)
LEMMA MovesNum ==
  ASSUME TypeOK, NEW d \in Messages, ~Repeats(d)
  PROVE  AfterTemp(d.doc) = Moves(d, num)
<1>1. d.own \in Fields /\ \A g \in Fields : d.doc[g] \in 0 .. 2
  BY DEF Messages
<1>2. "airtemp" \in Fields /\ "airpower" \in Fields
  BY DEF Fields
<1>3. CASE d.own = "airtemp"
  BY <1>1, <1>2, <1>3 DEF Repeats, AfterTemp, AfterPower, Moves
<1>4. CASE d.own # "airtemp"
  BY <1>1, <1>2, <1>4 DEF Repeats, AfterTemp, AfterPower, Moves
<1>. QED
  BY <1>3, <1>4

LEMMA CallbackPath ==
  ASSUME TypeOK, PathInv, Callback
  PROVE  PathInv'
<1>1. PICK p \in [0 .. Len(deltas) -> 0 .. MaxTemp] :
        Leads(p, deltas, asked) /\ ("airtemp" \notin spoiled => p[0] = num)
  BY DEF PathInv
<1>. DEFINE d == Head(deltas)
            n == Len(deltas)
            q == [i \in 0 .. n - 1 |-> p[i + 1]]
<1>2. /\ deltas' = Tail(deltas) /\ deltas # <<>> /\ UNCHANGED asked
      /\ Obey(d.doc) /\ spoiled' = Spoils(d)
  BY DEF Callback
<1>3. /\ d \in Messages /\ n \in Nat \ {0} /\ d = deltas[1]
      /\ DOMAIN deltas = 1 .. n /\ DOMAIN deltas' = 1 .. n - 1 /\ Len(deltas') = n - 1
      /\ \A i \in 1 .. n - 1 : deltas'[i] = deltas[i + 1]
  BY <1>2, QueueParts DEF TypeOK
<1>4. /\ p[n] = asked
      /\ \A i \in 1 .. n : p[i] = Moves(deltas[i], p[i - 1])
      /\ \A i \in 0 .. n :
           (\A j \in DOMAIN deltas : j > i => deltas[j].own = "ledswitch") => p[i] = asked
      /\ "airtemp" \notin spoiled => p[0] = num
  BY <1>1 DEF Leads
<1>5. p \in [0 .. n -> 0 .. MaxTemp]
  BY <1>1
<1>. HIDE DEF d, n
<1>6. \A i \in 0 .. n - 1 : i + 1 \in 0 .. n
  BY <1>3
<1>7. q \in [0 .. Len(deltas') -> 0 .. MaxTemp]
  BY <1>3, <1>5, <1>6
<1>8. \A i \in 0 .. n - 1 : q[i] = p[i + 1]
  OBVIOUS
<1>. HIDE DEF q
<1>9. q[n - 1] = asked
  <2>1. n - 1 \in 0 .. n - 1 /\ (n - 1) + 1 = n
    BY <1>3
  <2>. QED
    BY <1>4, <1>8, <2>1
<1>10. ASSUME NEW i \in 1 .. n - 1 PROVE q[i] = Moves(deltas'[i], q[i - 1])
  <2>1. /\ i \in 0 .. n - 1 /\ i - 1 \in 0 .. n - 1 /\ i + 1 \in 1 .. n
        /\ (i - 1) + 1 = i /\ (i + 1) - 1 = i
    BY <1>3
  <2>2. q[i] = p[i + 1] /\ q[i - 1] = p[i]
    BY <1>8, <2>1
  <2>3. p[i + 1] = Moves(deltas[i + 1], p[i])
    BY <1>4, <2>1
  <2>. QED
    BY <1>3, <2>2, <2>3
<1>11. ASSUME NEW i \in 0 .. n - 1,
              \A j \in DOMAIN deltas' : j > i => deltas'[j].own = "ledswitch"
       PROVE  q[i] = asked
  <2>1. ASSUME NEW j \in DOMAIN deltas, j > i + 1 PROVE deltas[j].own = "ledswitch"
    <3>1. j - 1 \in 1 .. n - 1 /\ j - 1 > i /\ (j - 1) + 1 = j
      BY <1>3, <2>1
    <3>. QED
      BY <1>3, <1>11, <3>1
  <2>2. q[i] = p[i + 1] /\ i + 1 \in 0 .. n
    BY <1>6, <1>8
  <2>3. \A j \in DOMAIN deltas : j > i + 1 => deltas[j].own = "ledswitch"
    BY <2>1
  <2>4. p[i + 1] = asked
    <3>1. \A k \in 0 .. n :
            (\A j \in DOMAIN deltas : j > k => deltas[j].own = "ledswitch") => p[k] = asked
      BY <1>4
    <3>. QED
      BY <2>2, <2>3, <3>1, Zenon
  <2>. QED
    BY <2>2, <2>4
<1>12. ASSUME "airtemp" \notin spoiled' PROVE q[0] = num' /\ air' \in {num', Unset}
  <2>1. /\ ~Repeats(d)
        /\ ("airtemp" \notin spoiled \/ (d.own = "airpower" /\ d.doc["airpower"] = 1))
    <3>1. "airtemp" \notin Spoils(d)
      BY <1>2, <1>12
    <3>2. "airtemp" \notin {g \in {"ledswitch", "airpower"} : d.doc[g] # 0}
      OBVIOUS
    <3>. QED
      BY <3>1, <3>2 DEF Spoils
  <2>2. num' = Moves(d, num)
    BY <1>2, <1>3, <2>1, MovesNum DEF Obey
  <2>3. q[0] = Moves(d, p[0])
    <3>1. 0 \in 0 .. n - 1 /\ 1 \in 1 .. n
      BY <1>3
    <3>. QED
      BY <1>3, <1>4, <1>8, <3>1
  <2>4. q[0] = num'
    BY <1>4, <2>1, <2>2, <2>3 DEF Moves
  <2>5. air' \in {num', Unset}
    <3>1. num' = AfterTemp(d.doc) /\ air' = IF SendsTemp(d.doc) THEN num' ELSE air
      BY <1>2 DEF Obey
    <3>2. CASE SendsTemp(d.doc)
      BY <3>1, <3>2
    <3>3. CASE ~SendsTemp(d.doc)
      BY <2>1, <3>1, <3>3 DEF SendsTemp, AfterPower, PathInv
    <3>. QED
      BY <3>2, <3>3
  <2>. QED
    BY <2>4, <2>5
<1>13. Leads(q, deltas', asked')
  BY <1>2, <1>3, <1>9, <1>10, <1>11 DEF Leads
<1>. QED
  BY <1>7, <1>12, <1>13 DEF PathInv

LEMMA PathInvStep ==
  TypeOK /\ TypeOK' /\ Subscribed /\ PathInv /\ [Next]_vars => PathInv'
<1> SUFFICES ASSUME TypeOK, asked' \in 0 .. MaxTemp, Subscribed, PathInv, [Next]_vars
             PROVE  PathInv'
  BY DEF TypeOK
<1>1. ASSUME NEW f \in Fields, NEW v \in {1, 2}, Press(f, v) PROVE PathInv'
  BY <1>1, PressPath
<1>2. CASE LinkBreaks
  <2>1. /\ deltas' = <<>> /\ spoiled' = spoiled \cup Lost
        /\ UNCHANGED <<num, air, asked>>
    BY <1>2 DEF LinkBreaks, homeVars
  <2>2. ASSUME "airtemp" \notin spoiled' PROVE num = asked /\ air \in {num, Unset}
    <3>1. "airtemp" \notin Lost /\ "airtemp" \notin spoiled
      BY <2>1, <2>2
    <3>2. NoneOwns("airtemp") /\ NoneOwns("airpower")
      BY <3>1 DEF Lost, Missed, NoneOwns
    <3>. QED
      BY <3>1, <3>2, PathFlat DEF PathInv
  <2>. QED
    BY <2>1, <2>2, PathOfNone
<1>3. CASE Restart
  <2>1. deltas' = <<>> /\ "airtemp" \in spoiled'
    BY <1>3 DEF Restart
  <2>. QED
    BY <2>1, PathOfNone
<1>4. CASE Callback
  BY <1>4, CallbackPath
<1>5. CASE UNCHANGED <<deltas, asked, spoiled, num, air>>
  BY <1>5 DEF PathInv, Leads
<1>. QED
  BY <1>1, <1>2, <1>3, <1>4, <1>5 DEF Next, SubscriptionArrives, Setup, Iterate, Connect,
     Idle, KeepAliveFails, homeVars, vars

(* The temperature is where the presses have put it, in a table of any     *)
(* length: once nothing is under way the path has no steps left.           *)
THEOREM TemperatureObeyed == Spec => []TemperatureAsAsked
<1>1. TypeOK /\ PathInv => TemperatureAsAsked
  <2> SUFFICES ASSUME TypeOK, PathInv, deltas = <<>>, "airtemp" \notin spoiled
               PROVE  num = asked /\ air \in {num, Unset}
    BY DEF TemperatureAsAsked
  <2>1. NoneOwns("airtemp") /\ NoneOwns("airpower")
    BY DEF NoneOwns
  <2>. QED
    BY <2>1, PathFlat DEF PathInv
<1>2. SwitchInv => Subscribed
  BY DEF SwitchInv
<1>. QED
  BY <1>1, <1>2, TypeCorrect, SwitchInvInit, SwitchInvStep, PathInvInit, PathInvStep,
     PTL DEF Spec

=============================================================================
