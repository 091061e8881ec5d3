------------------------------- MODULE Device -------------------------------
(***************************************************************************)
(* baiduiot/baiduiot.ino, the device that switches a lamp and steers an    *)
(* air conditioner by infrared, with the buttons of the phone application  *)
(* that command it.  Between them is the device shadow of the IoT hub,     *)
(* which is external: an update of "desired" that the phone publishes is   *)
(* kept there, and a delta is sent to the device if it has subscribed.     *)
(* The device never reports what it has been told, so that every value     *)
(* once desired stays different from the reported state; a delta carries   *)
(* the field just written and may carry any other of these again.          *)
(* The device has no clean-up: it reconnects in loop() and knows nothing   *)
(* of the deltas that were sent while it was away, and a restart forgets   *)
(* num, the temperature, which the air conditioner keeps.                  *)
(***************************************************************************)
EXTENDS Integers, Sequences

CONSTANTS
  MaxTemp,      \* the last index of the table temp (13)
  Interval,     \* the time between two reports (30000)
  Wrap,         \* millis() is a number modulo this (2^32)
  MaxLoop,      \* bound: the longest time from one report test to the next
  MaxPresses,   \* bound: commands the phone publishes
  MaxFaults     \* bound: broken connections and restarts of the device

ASSUME DeviceAssumption ==
  /\ MaxTemp \in Nat /\ Interval \in Nat /\ MaxLoop \in Nat \ {0}
  /\ Wrap \in Nat /\ Interval + MaxLoop < Wrap
  /\ MaxPresses \in Nat /\ MaxFaults \in Nat

Fields == {"ledswitch", "airpower", "airtemp"}
Nothing == [g \in Fields |-> 0]   \* no field of a delta: JSON null is 0
Unset == -1                       \* no temperature has been sent yet

VARIABLES
  \* the phone and the hub
  presses,   \* commands published
  desired,   \* the shadow's desired values, 0 before the first
  deltas,    \* on their way to the device: the field written, and the fields
  sub,       \* the device's subscription: "no", "sent" or "yes"
  \* the device
  link,      \* its MQTT connection: "up", "dead" (not noticed yet) or "down"
  running,   \* setup() has found the WiFi and loop() is called
  num, lamp,
  now, prev, \* millis(), and prev
  \* the air conditioner
  power,     \* the last power command, 0 before the first
  air,       \* the index of the last temperature code, or Unset
  \* history
  asked,     \* where the presses have put the temperature
  spoiled,   \* fields of which the device has missed or repeated a command
  since,     \* time since the last report, or since the start, modulo Wrap
  faults

hubVars == <<presses, desired>>
clockVars == <<now, prev, since>>
homeVars == <<num, lamp, power, air>>
vars == <<hubVars, deltas, sub, link, running, homeVars, clockVars, asked, spoiled, faults>>

Messages == [own : Fields, doc : [Fields -> 0 .. 2]]

TypeOK ==
  /\ presses \in 0 .. MaxPresses
  /\ desired \in [Fields -> 0 .. 2]
  /\ deltas \in Seq(Messages)
  /\ sub \in {"no", "sent", "yes"}
  /\ link \in {"up", "dead", "down"}
  /\ running \in BOOLEAN
  /\ num \in 0 .. MaxTemp /\ lamp \in BOOLEAN
  /\ now \in 0 .. Wrap - 1 /\ prev \in 0 .. Wrap - 1
  /\ power \in 0 .. 2 /\ air \in 0 .. MaxTemp \cup {Unset}
  /\ asked \in 0 .. MaxTemp
  /\ spoiled \subseteq Fields
  /\ since \in Nat
  /\ faults \in 0 .. MaxFaults

Init ==
  /\ presses = 0 /\ desired = Nothing
  /\ deltas = <<>> /\ sub = "no" /\ link = "down"
  /\ running = FALSE /\ num = 0 /\ lamp = FALSE
  /\ now = 0 /\ prev = 0 /\ since = 0
  /\ power = 0 /\ air = Unset
  /\ asked = 0 /\ spoiled = {} /\ faults = 0

-----------------------------------------------------------------------------
Less(i) == IF i > 0 THEN i - 1 ELSE i
More(i) == IF i < MaxTemp THEN i + 1 ELSE i

(* The temperature the presses ask for.                                    *)
Asks(f, v) ==
  CASE f = "airpower" /\ v = 1 -> 0
    [] f = "airtemp" /\ v = 1 -> Less(asked)
    [] f = "airtemp" /\ v = 2 -> More(asked)
    [] OTHER -> asked

(* What is amiss when a command on f does not reach the device.            *)
Missed(f) == IF f = "airpower" THEN {f, "airtemp"} ELSE {f}

(* openlight, closelight, openair, closeair, addtemp and jiantemp publish  *)
(* one desired value.  (When m_client is not connected publish returns -1  *)
(* and a message box says so.)                                             *)
Press(f, v) ==
  /\ presses < MaxPresses
  /\ presses' = presses + 1
  /\ desired' = [desired EXCEPT ![f] = v]
  /\ asked' = Asks(f, v)
  /\ IF sub = "yes"
     THEN /\ \E again \in SUBSET (Fields \ {f}) :
               deltas' = Append(deltas, [own |-> f, doc |->
                 [g \in Fields |-> IF g \in again \cup {f} THEN desired'[g] ELSE 0]])
          /\ UNCHANGED spoiled
     ELSE spoiled' = spoiled \cup Missed(f) /\ UNCHANGED deltas
  /\ UNCHANGED <<sub, link, running, homeVars, clockVars, faults>>

-----------------------------------------------------------------------------
(* The network.                                                            *)

SubscriptionArrives ==
  /\ sub = "sent" /\ link = "up"
  /\ sub' = "yes"
  /\ UNCHANGED <<hubVars, deltas, link, running, homeVars, clockVars, asked, spoiled,
                 faults>>

Lost == UNION {Missed(deltas[i].own) : i \in DOMAIN deltas}

(* The session is a clean one: what was under way is lost with it.         *)
LinkBreaks ==
  /\ link = "up" /\ faults < MaxFaults
  /\ link' = "dead" /\ sub' = "no"
  /\ deltas' = <<>> /\ spoiled' = spoiled \cup Lost
  /\ faults' = faults + 1
  /\ UNCHANGED <<hubVars, running, homeVars, clockVars, asked>>

-----------------------------------------------------------------------------
(* The device.                                                             *)

(* A reset: num is zero again, the lamp off; the air conditioner goes on.  *)
Restart ==
  /\ faults < MaxFaults /\ faults' = faults + 1
  /\ running' = FALSE /\ num' = 0 /\ lamp' = FALSE
  /\ now' = 0 /\ prev' = 0 /\ since' = 0
  /\ link' = "down" /\ sub' = "no" /\ deltas' = <<>>
  /\ spoiled' = spoiled \cup Lost \cup {"ledswitch", "airtemp"}
  /\ UNCHANGED <<hubVars, power, air, asked>>

(* It waits for the WiFi as long as it takes; millis() is running.         *)
Setup ==
  /\ ~running
  /\ running' = TRUE
  /\ \E t \in 0 .. Wrap - 1 : now' = t /\ since' = t
  /\ UNCHANGED <<hubVars, deltas, sub, link, homeVars, prev, asked, spoiled, faults>>

(* Mutant: the usual mistake with a clock that wraps around. *)
DueBySum == now > prev + Interval

(* millis() - prev > 30000, in 32 bits without a sign.                     *)
Due == (now - prev) % Wrap > Interval

(* An iteration of loop(): the connection is looked after, mqtt.loop()     *)
(* reads a message, and the report is sent if it is due (and is lost       *)
(* without a connection).  Each action below is one, and takes some time.  *)
Iteration ==
  /\ running
  /\ prev' = IF Due THEN now ELSE prev
  /\ \E d \in 1 .. MaxLoop :
       /\ now' = (now + d) % Wrap
       /\ since' = (IF Due THEN 0 ELSE since) + d

(* Mutant: it subscribes only the first time. *)
ConnectOnly ==
  /\ Iteration
  /\ link = "down"
  /\ link' = "up" /\ sub' = IF faults = 0 THEN "sent" ELSE "no"
  /\ UNCHANGED <<hubVars, deltas, running, homeVars, asked, spoiled, faults>>

(* connect and subscribe; the result of neither is looked at.              *)
Connect ==
  /\ Iteration
  /\ link = "down"
  /\ link' = "up" /\ sub' = "sent"
  /\ UNCHANGED <<hubVars, deltas, running, homeVars, asked, spoiled, faults>>

(* Nothing to read, or connect has failed ...                              *)
Idle ==
  /\ Iteration
  /\ UNCHANGED <<hubVars, deltas, sub, link, running, homeVars, asked, spoiled,
                 faults>>

(* ... or the ping of mqtt.loop() has not been answered.                   *)
KeepAliveFails ==
  /\ Iteration
  /\ link = "dead" /\ link' = "down"
  /\ UNCHANGED <<hubVars, deltas, sub, running, homeVars, asked, spoiled, faults>>

(* Mutant: power-on leaves num alone. *)
AfterPowerKept(doc) == num

(* The branches of mqtt_callback for airpower and airtemp, in their order. *)
AfterPower(doc) == IF doc["airpower"] = 1 THEN 0 ELSE num

(* Mutant: num <= 13 in the test of the other branch, too. *)
AfterTempBeyond(doc) ==
  CASE doc["airtemp"] = 1 -> Less(AfterPower(doc))
    [] doc["airtemp"] = 2 /\ AfterPower(doc) <= MaxTemp -> AfterPower(doc) + 1
    [] OTHER -> AfterPower(doc)

AfterTemp(doc) ==
  CASE doc["airtemp"] = 1 -> Less(AfterPower(doc))
    [] doc["airtemp"] = 2 -> More(AfterPower(doc))
    [] OTHER -> AfterPower(doc)

SendsTemp(doc) == doc["airpower"] = 1 \/ AfterTemp(doc) # AfterPower(doc)

(* A command that is repeated moves the temperature again.                 *)
Repeats(d) ==
  \/ d.own # "airtemp" /\ d.doc["airtemp"] # 0
  \/ d.own # "airpower" /\ d.doc["airpower"] = 1

Spoils(d) ==
  LET told == {g \in {"ledswitch", "airpower"} : d.doc[g] # 0}
      reset == IF d.own = "airpower" /\ d.doc["airpower"] = 1 THEN {"airtemp"} ELSE {}
  IN (spoiled \ (told \cup reset)) \cup (IF Repeats(d) THEN {"airtemp"} ELSE {})

(* Mutant: the first test of the lamp has no "else if (ledswitch==0);". *)
ObeyAbsent(doc) ==
  /\ lamp' = (doc["ledswitch"] = 1)
  /\ power' = IF doc["airpower"] = 0 THEN power ELSE doc["airpower"]
  /\ num' = AfterTemp(doc)
  /\ air' = IF SendsTemp(doc) THEN AfterTemp(doc) ELSE air

Obey(doc) ==
  /\ lamp' = IF doc["ledswitch"] = 0 THEN lamp ELSE doc["ledswitch"] = 1
  /\ power' = IF doc["airpower"] = 0 THEN power ELSE doc["airpower"]
  /\ num' = AfterTemp(doc)
  /\ air' = IF SendsTemp(doc) THEN AfterTemp(doc) ELSE air

Callback ==
  /\ Iteration
  /\ link = "up" /\ deltas # <<>>
  /\ Obey(Head(deltas).doc)
  /\ spoiled' = Spoils(Head(deltas))
  /\ deltas' = Tail(deltas)
  /\ UNCHANGED <<hubVars, sub, link, running, asked, faults>>

-----------------------------------------------------------------------------
Iterate == Connect \/ Idle \/ KeepAliveFails \/ Callback

Next ==
  \/ \E f \in Fields, v \in {1, 2} : Press(f, v)
  \/ SubscriptionArrives \/ LinkBreaks
  \/ Restart \/ Setup \/ Iterate

Spec == Init /\ [][Next]_vars

(***************************************************************************)
(* Fairness: the device runs, and what the network can do again and again  *)
(* it does: a connection is accepted, a subscription and a delta arrive, a *)
(* dead connection is noticed.  Faults are bounded (MaxFaults).            *)
(***************************************************************************)
FairSpec ==
  /\ Spec
  /\ WF_vars(Setup) /\ WF_vars(Iterate) /\ WF_vars(SubscriptionArrives)
  /\ SF_vars(Connect) /\ SF_vars(KeepAliveFails) /\ SF_vars(Callback)

-----------------------------------------------------------------------------
Carries(f) == \E i \in DOMAIN deltas : deltas[i].doc[f] # 0

(***************************************************************************)
(* The lamp and the power of the air conditioner are as the phone last     *)
(* asked, once no delta about them is under way, unless the last one was   *)
(* lost or the device has restarted: whatever else the deltas carried, and *)
(* however often (baiduiot.ino, lines 52-78).                              *)
(***************************************************************************)
SwitchesAsAsked ==
  /\ ~Carries("ledswitch") /\ "ledswitch" \notin spoiled
       => (lamp <=> desired["ledswitch"] = 1)
  /\ ~Carries("airpower") /\ "airpower" \notin spoiled
       => power = desired["airpower"]

(***************************************************************************)
(* The temperature is where the presses have put it, the ends of the table *)
(* included, and num is the temperature last sent, unless since the last   *)
(* power-on a step was lost or repeated or the device has restarted        *)
(* (baiduiot.ino, lines 64-103).                                           *)
(***************************************************************************)
TemperatureAsAsked ==
  deltas = <<>> /\ "airtemp" \notin spoiled => num = asked /\ air \in {num, Unset}

(***************************************************************************)
(* Two reports are more than the interval apart, and not more than one     *)
(* iteration of the loop longer, also when millis() wraps around between   *)
(* them.  The first comes more than the interval after the start; when     *)
(* setup() has taken longer than that, the first iteration sends it        *)
(* (baiduiot.ino, lines 136-138).                                          *)
(***************************************************************************)
ReportsOnTime ==
  [][running /\ running' =>
       /\ prev' # prev => since > Interval
       /\ since' > since => since' <= Interval + MaxLoop]_vars

(***************************************************************************)
(* A device that has lost its connection or has restarted listens to the   *)
(* shadow again, and every delta sent to it is obeyed or lost with the     *)
(* connection (baiduiot.ino, lines 128-135).                               *)
(***************************************************************************)
ListensAgain ==
  /\ sub = "no" ~> sub = "yes"
  /\ deltas # <<>> ~> deltas = <<>>

=============================================================================
