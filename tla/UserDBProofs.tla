----------------------------- MODULE UserDBProofs -----------------------------
(***************************************************************************)
(* Proofs about UserDB, for any number of workers, users and passwords.    *)
(***************************************************************************)
EXTENDS UserDB, TLAPS

(* A worker has a request exactly while it serves one.                     *)
Serving ==
  \A w \in Workers :
    /\ pc[w] = "idle" => request[w] = None
    /\ pc[w] # "idle" => request[w] \in Requests

(* Two workers in the same critical stretch know of each other.            *)
MeetingsSeen ==
  \A w, x \in Workers :
    w # x /\ ((Sending(w) /\ Sending(x)) \/ (Freeing(w) /\ Freeing(x))) => x \in met[w]

(* How far a worker that has met nobody has got with msg1, and with the    *)
(* error text.                                                             *)
Message(w) ==
  /\ pc[w] \notin {"return", "idle"} => wire[w] = Blank
  /\ met[w] = {} =>
       /\ pc[w] = "strcpy" => msg1 = Blank
       /\ pc[w] = "strcpy2" => msg1 = [text |-> reply[w].text, account |-> None]
       /\ pc[w] = "send" => msg1 = reply[w]
       /\ wire[w] # Blank => wire[w] = reply[w]

OwnMessage == \A w \in Workers : Message(w)

OwnError ==
  /\ \A w \in Workers : Freeing(w) /\ met[w] = {} => zErrMsg \notin freed
  /\ crash = "freed text" => \E w \in Workers : met[w] # {}

-----------------------------------------------------------------------------
LEMMA Meets ==
  ASSUME TypeOK, NEW w \in Workers, NEW S \in SUBSET Workers, Meet(w, S)
  PROVE  /\ met' \in [Workers -> SUBSET Workers]
         /\ \A u \in Workers : met[u] \subseteq met'[u]
         /\ \A x \in S \ {w} : x \in met'[w] /\ w \in met'[x]
BY DEF TypeOK, Meet

LEMMA TypedInit == Init => TypeOK /\ Serving
BY DEF Init, TypeOK, Serving, Messages, Texts, Blank, PCs

LEMMA TypedStep == TypeOK /\ Serving /\ [Next]_vars => TypeOK'
<1> SUFFICES ASSUME TypeOK, Serving, [Next]_vars PROVE TypeOK'
  OBVIOUS
<1> USE DEF Goes
<1>1. Blank \in Messages
  BY DEF Blank, Messages, Texts
<1>2. ASSUME NEW w \in Workers, NEW r \in Requests, Call(w, r) PROVE TypeOK'
  BY <1>1, <1>2 DEF Call, TypeOK, PCs
<1>3. ASSUME NEW w \in Workers, Insert(w) PROVE TypeOK'
  <2>1. request[w].user \in Users /\ request[w].pwd \in Pwds
    BY <1>3 DEF Insert, Serving, Requests
  <2>2. table' \in [Users -> Pwds \cup {None}]
    BY <1>3, <2>1 DEF Insert, TypeOK
  <2>3. met' \in [Workers -> SUBSET Workers]
    BY <1>3, Meets DEF Insert
  <2>4. /\ led' \in [Workers -> {SQLITE_OK, SQLITE_CONSTRAINT}]
        /\ zErrMsg' \in Workers \cup {None} /\ freed' \subseteq Workers
    BY <1>3 DEF Insert, TypeOK
  <2>. QED
    BY <1>3, <2>2, <2>3, <2>4 DEF Insert, TypeOK, PCs
<1>4. ASSUME NEW w \in Workers, PrintError(w) \/ PrintFreed(w) \/ FreeError(w) \/ FreeTwice(w)
      PROVE  TypeOK'
  BY <1>4 DEF PrintError, PrintFreed, FreeError, FreeTwice, TypeOK, PCs
<1>5. ASSUME NEW w \in Workers, AnswerRegister(w) \/ Select(w) PROVE TypeOK'
  <2>1. request[w].user \in Users
    BY <1>5 DEF AnswerRegister, Select, Serving, Requests
  <2>2. \E m \in Messages : reply' = [reply EXCEPT ![w] = m]
    <3>1. CASE AnswerRegister(w)
      <4>. DEFINE m == [text |-> IF led[w] < 0 THEN "register error" ELSE "register ok",
                        account |-> request[w].user]
      <4>1. m \in Messages
        BY <2>1 DEF Messages, Texts
      <4>2. reply' = [reply EXCEPT ![w] = m]
        BY <3>1 DEF AnswerRegister
      <4>. QED
        BY <4>1, <4>2
    <3>2. CASE Select(w)
      <4>1. /\ [text |-> "login ok", account |-> request[w].user] \in Messages
            /\ [text |-> "login error", account |-> None] \in Messages
        BY <2>1 DEF Messages, Texts
      <4>. QED
        BY <3>2, <4>1 DEF Select
    <3>. QED
      BY <1>5, <3>1, <3>2
  <2>3. reply' \in [Workers -> Messages]
    BY <2>2 DEF TypeOK
  <2>4. /\ UNCHANGED <<table, request, led, msg1, zErrMsg, freed, wire, met, crash>>
        /\ pc' \in [Workers -> PCs]
    BY <1>5 DEF AnswerRegister, Select, TypeOK, PCs
  <2>. QED
    BY <2>3, <2>4 DEF TypeOK
<1>6. ASSUME NEW w \in Workers, SelectCrashes(w) PROVE TypeOK'
  BY <1>6 DEF SelectCrashes, TypeOK, PCs
<1>7. ASSUME NEW w \in Workers, Memset(w) PROVE TypeOK'
  <2>1. met' \in [Workers -> SUBSET Workers]
    BY <1>7, Meets DEF Memset
  <2>. QED
    BY <1>1, <1>7, <2>1 DEF Memset, TypeOK, PCs
<1>8. ASSUME NEW w \in Workers, Strcpy(w) \/ Strcpy2(w) PROVE TypeOK'
  <2>1. reply[w] \in Messages /\ msg1 \in Messages
    BY DEF TypeOK
  <2>2. msg1' \in Messages
    <3>1. CASE Strcpy(w)
      BY <2>1, <3>1 DEF Strcpy, Messages
    <3>2. CASE Strcpy2(w)
      BY <2>1, <3>2 DEF Strcpy2, Messages
    <3>. QED
      BY <1>8, <3>1, <3>2
  <2>3. CASE Strcpy(w)
    BY <2>2, <2>3 DEF Strcpy, TypeOK, PCs
  <2>4. CASE Strcpy2(w)
    BY <2>2, <2>4 DEF Strcpy2, TypeOK, PCs
  <2>. QED
    BY <1>8, <2>3, <2>4
<1>9. ASSUME NEW w \in Workers, Send(w) \/ SendFails(w) \/ Return(w) PROVE TypeOK'
  <2>1. CASE Send(w)
    BY <2>1 DEF Send, TypeOK, PCs
  <2>2. CASE SendFails(w)
    BY <2>2 DEF SendFails, TypeOK, PCs
  <2>3. CASE Return(w)
    BY <2>3 DEF Return, TypeOK, PCs
  <2>. QED
    BY <1>9, <2>1, <2>2, <2>3
<1>10. CASE UNCHANGED vars
  BY <1>10 DEF vars, TypeOK
<1>. QED
  BY <1>2, <1>3, <1>4, <1>5, <1>6, <1>7, <1>8, <1>9, <1>10 DEF Next, SendMessage

LEMMA ServingStep == TypeOK /\ Serving /\ [Next]_vars => Serving'
<1> SUFFICES ASSUME TypeOK, Serving, [Next]_vars PROVE Serving'
  OBVIOUS
<1> USE DEF Goes, TypeOK
<1>1. ASSUME NEW w \in Workers, NEW r \in Requests, Call(w, r) PROVE Serving'
  BY <1>1 DEF Call, Serving
<1>2. ASSUME NEW w \in Workers, Return(w) PROVE Serving'
  BY <1>2 DEF Return, Serving
<1>3. ASSUME NEW w \in Workers,
             Insert(w) \/ PrintError(w) \/ PrintFreed(w) \/ FreeError(w) \/ FreeTwice(w)
               \/ AnswerRegister(w) \/ Select(w) \/ SelectCrashes(w) \/ SendMessage(w)
      PROVE  Serving'
  <2>1. /\ request' = request /\ pc[w] # "idle"
        /\ \E to \in PCs \ {"idle"} : pc' = [pc EXCEPT ![w] = to]
    BY <1>3 DEF Insert, PrintError, PrintFreed, FreeError, FreeTwice, AnswerRegister, Select,
       SelectCrashes, SendMessage,
       Memset, Strcpy, Strcpy2, Send, SendFails, PCs
  <2>. QED
    BY <2>1 DEF Serving
<1>4. CASE UNCHANGED vars
  BY <1>4 DEF vars, Serving
<1>. QED
  BY <1>1, <1>2, <1>3, <1>4 DEF Next
-----------------------------------------------------------------------------
(* The shared members.                                                     *)
LEMMA MeetingsInit == Init => MeetingsSeen /\ OwnMessage /\ OwnError
BY DBAssumption DEF Init, MeetingsSeen, OwnMessage, Message, OwnError, Sending, Freeing

(* The steps that leave met and crash alone, and enter no critical stretch.*)
Quiet(w) ==
  \/ PrintError(w) \/ FreeError(w) \/ AnswerRegister(w) \/ Select(w)
  \/ Strcpy(w) \/ Strcpy2(w) \/ Send(w) \/ SendFails(w) \/ Return(w)

LEMMA MeetingsStep == TypeOK /\ MeetingsSeen /\ [Next]_vars => MeetingsSeen'
<1> SUFFICES ASSUME TypeOK, MeetingsSeen, [Next]_vars PROVE MeetingsSeen'
  OBVIOUS
<1> USE DEF Goes, Sending, Freeing
<1>0. pc \in [Workers -> PCs] /\ met \in [Workers -> SUBSET Workers]
  BY DEF TypeOK
<1>1. ASSUME NEW w \in Workers, NEW r \in Requests, Call(w, r) PROVE MeetingsSeen'
  BY <1>0, <1>1 DEF Call, MeetingsSeen
<1>2. ASSUME NEW w \in Workers, Insert(w) PROVE MeetingsSeen'
  <2>. DEFINE S == {x \in Workers : Freeing(x)}
  <2>1. Meet(w, S) /\ S \in SUBSET Workers /\ pc' = [pc EXCEPT ![w] = "print"]
    BY <1>2 DEF Insert
  <2>2. /\ \A u \in Workers : met[u] \subseteq met'[u]
        /\ \A x \in S \ {w} : x \in met'[w] /\ w \in met'[x]
    BY <2>1, Meets
  <2>. QED
    BY <1>0, <2>1, <2>2 DEF MeetingsSeen
<1>3. ASSUME NEW w \in Workers, Memset(w) PROVE MeetingsSeen'
  <2>. DEFINE S == {x \in Workers : Sending(x)}
  <2>1. Meet(w, S) /\ S \in SUBSET Workers /\ pc' = [pc EXCEPT ![w] = "strcpy"]
    BY <1>3 DEF Memset
  <2>2. /\ \A u \in Workers : met[u] \subseteq met'[u]
        /\ \A x \in S \ {w} : x \in met'[w] /\ w \in met'[x]
    BY <2>1, Meets
  <2>. QED
    BY <1>0, <2>1, <2>2 DEF MeetingsSeen
<1>4. ASSUME NEW w \in Workers, Quiet(w) \/ PrintFreed(w) \/ FreeTwice(w) \/ SelectCrashes(w)
      PROVE  MeetingsSeen'
  <2>1. met' = met
    BY <1>4 DEF Quiet, PrintError, PrintFreed, FreeError, FreeTwice, AnswerRegister, Select,
       SelectCrashes, Strcpy,
       Strcpy2, Send, SendFails, Return
  <2>2. \A x \in Workers : (Sending(x)' => Sending(x)) /\ (Freeing(x)' => Freeing(x))
    BY <1>0, <1>4 DEF Quiet, PrintError, PrintFreed, FreeError, FreeTwice, AnswerRegister,
       Select, SelectCrashes, Strcpy,
       Strcpy2, Send, SendFails, Return
  <2>. QED
    BY <2>1, <2>2 DEF MeetingsSeen
<1>5. CASE UNCHANGED vars
  BY <1>5 DEF vars, MeetingsSeen
<1>. QED
  BY <1>1, <1>2, <1>3, <1>4, <1>5 DEF Next, SendMessage, Quiet

LEMMA OwnMessageStep ==
  TypeOK /\ MeetingsSeen /\ OwnMessage /\ [Next]_vars => OwnMessage'
<1> SUFFICES ASSUME TypeOK, MeetingsSeen, OwnMessage, [Next]_vars,
                    NEW v \in Workers
             PROVE  Message(v)'
  BY DEF OwnMessage
<1> USE DEF Goes, Sending
<1>0. /\ pc \in [Workers -> PCs] /\ met \in [Workers -> SUBSET Workers]
      /\ wire \in [Workers -> Messages] /\ reply \in [Workers -> Messages] /\ msg1 \in Messages
  BY DEF TypeOK
<1>1. ASSUME NEW w \in Workers, NEW r \in Requests, Call(w, r) PROVE Message(v)'
  <2>1. CASE v = w
    BY <1>0, <1>1, <2>1 DEF Call, Message
  <2>2. CASE v # w
    <3>1. /\ pc'[v] = pc[v] /\ wire'[v] = wire[v] /\ met'[v] = met[v] /\ reply'[v] = reply[v]
          /\ msg1' = msg1
      BY <1>0, <1>1, <2>2 DEF Call
    <3>. QED
      BY <3>1 DEF Message, OwnMessage
  <2>. QED
    BY <2>1, <2>2
<1>2. ASSUME NEW w \in Workers, Insert(w) PROVE Message(v)'
  <2>1. /\ pc' = [pc EXCEPT ![w] = "print"] /\ pc[w] = "called"
        /\ wire' = wire /\ reply' = reply /\ msg1' = msg1
    BY <1>2 DEF Insert
  <2>2. met[v] \subseteq met'[v]
    BY <1>2, Meets DEF Insert
  <2>3. met'[v] = {} => met[v] = {}
    BY <2>2
  <2>. QED
    BY <1>0, <2>1, <2>3 DEF Message, OwnMessage
<1>3. ASSUME NEW w \in Workers,
             PrintError(w) \/ PrintFreed(w) \/ FreeError(w) \/ FreeTwice(w) \/ SelectCrashes(w)
      PROVE  Message(v)'
  <2>1. /\ wire' = wire /\ reply' = reply /\ msg1' = msg1 /\ met' = met
        /\ pc[w] \in {"print", "free", "called"}
        /\ \E to \in {"free", "answer", "called"} : pc' = [pc EXCEPT ![w] = to]
    BY <1>3 DEF PrintError, PrintFreed, FreeError, FreeTwice, SelectCrashes
  <2>. QED
    BY <1>0, <2>1 DEF Message, OwnMessage
<1>4. ASSUME NEW w \in Workers, AnswerRegister(w) \/ Select(w) PROVE Message(v)'
  <2>1. /\ pc' = [pc EXCEPT ![w] = "memset"] /\ pc[w] \in {"answer", "called"}
        /\ UNCHANGED <<wire, msg1, met>> /\ \A x \in Workers \ {w} : reply'[x] = reply[x]
    BY <1>0, <1>4 DEF AnswerRegister, Select
  <2>. QED
    BY <1>0, <2>1 DEF Message, OwnMessage
<1>5. ASSUME NEW w \in Workers, Memset(w) PROVE Message(v)'
  <2>. DEFINE S == {x \in Workers : Sending(x)}
  <2>1. /\ pc' = [pc EXCEPT ![w] = "strcpy"] /\ pc[w] = "memset"
        /\ wire' = wire /\ reply' = reply /\ msg1' = Blank /\ Meet(w, S) /\ S \in SUBSET Workers
    BY <1>5 DEF Memset
  <2>2. /\ met[v] \subseteq met'[v]
        /\ v # w /\ Sending(v) => w \in met'[v]
    BY <2>1, Meets
  <2>3. met'[v] = {} => met[v] = {} /\ (v = w \/ ~Sending(v))
    BY <2>2
  <2>. QED
    BY <1>0, <2>1, <2>3 DEF Message, OwnMessage
<1>6. ASSUME NEW w \in Workers, Strcpy(w) \/ Strcpy2(w) PROVE Message(v)'
  <2>1. /\ Sending(w) /\ UNCHANGED <<wire, reply, met>>
        /\ pc[w] \in {"strcpy", "strcpy2"}
        /\ \E to \in {"strcpy2", "send"} : pc' = [pc EXCEPT ![w] = to]
    BY <1>6 DEF Strcpy, Strcpy2
  <2>2. CASE v = w
    <3>1. CASE Strcpy(w)
      <4>1. pc[w] = "strcpy" /\ pc'[w] = "strcpy2" /\ msg1' = [msg1 EXCEPT !.text = reply[w].text]
        BY <1>0, <3>1 DEF Strcpy
      <4>2. met[w] = {} => msg1' = [text |-> reply[w].text, account |-> None]
        BY <4>1 DEF OwnMessage, Message, Blank
      <4>. QED
        BY <2>1, <2>2, <4>1, <4>2 DEF OwnMessage, Message
    <3>2. CASE Strcpy2(w)
      <4>1. /\ pc[w] = "strcpy2" /\ pc'[w] = "send"
            /\ msg1' = [msg1 EXCEPT !.account = reply[w].account]
        BY <1>0, <3>2 DEF Strcpy2
      <4>2. reply[w] = [text |-> reply[w].text, account |-> reply[w].account]
        BY <1>0 DEF Messages
      <4>3. met[w] = {} => msg1' = [text |-> reply[w].text, account |-> reply[w].account]
        BY <4>1 DEF OwnMessage, Message
      <4>. QED
        BY <2>1, <2>2, <4>1, <4>2, <4>3 DEF OwnMessage, Message
    <3>. QED
      BY <1>6, <3>1, <3>2
  <2>3. CASE v # w
    <3>1. met[v] = {} => ~Sending(v)
      <4>1. Sending(w)
        BY <2>1
      <4>2. Sending(v) /\ Sending(w) => w \in met[v]
        BY <2>3 DEF MeetingsSeen, Freeing
      <4>. QED
        BY <4>1, <4>2
    <3>. QED
      BY <1>0, <2>1, <2>3, <3>1 DEF OwnMessage, Message
  <2>. QED
    BY <2>2, <2>3
<1>7. ASSUME NEW w \in Workers, Send(w) PROVE Message(v)'
  <2>1. /\ pc[w] = "send" /\ pc' = [pc EXCEPT ![w] = "return"]
        /\ wire' = [wire EXCEPT ![w] = msg1] /\ UNCHANGED <<reply, msg1, met>>
    BY <1>7 DEF Send
  <2>. QED
    BY <1>0, <2>1 DEF OwnMessage, Message
<1>8. ASSUME NEW w \in Workers, SendFails(w) \/ Return(w) PROVE Message(v)'
  <2>1. /\ UNCHANGED <<wire, reply, msg1, met>>
        /\ \E to \in {"return", "idle"} : pc' = [pc EXCEPT ![w] = to]
    BY <1>8 DEF SendFails, Return
  <2>. QED
    BY <1>0, <2>1 DEF OwnMessage, Message
<1>9. CASE UNCHANGED vars
  BY <1>9 DEF vars, OwnMessage, Message
<1>. QED
  BY <1>1, <1>2, <1>3, <1>4, <1>5, <1>6, <1>7, <1>8, <1>9 DEF Next, SendMessage

LEMMA OwnErrorStep ==
  TypeOK /\ MeetingsSeen /\ OwnError /\ [Next]_vars => OwnError'
<1> SUFFICES ASSUME TypeOK, MeetingsSeen, OwnError, [Next]_vars PROVE OwnError'
  OBVIOUS
<1> USE DEF Goes, Freeing
<1>0. /\ pc \in [Workers -> PCs] /\ met \in [Workers -> SUBSET Workers] /\ freed \subseteq Workers
      /\ None \notin Workers
  BY DBAssumption DEF TypeOK
<1>1. ASSUME NEW w \in Workers, Insert(w) PROVE OwnError'
  <2>. DEFINE S == {x \in Workers : Freeing(x)}
  <2>1. /\ pc' = [pc EXCEPT ![w] = "print"] /\ crash = "no" /\ crash' = "no"
        /\ zErrMsg' \notin freed' /\ Meet(w, S) /\ S \in SUBSET Workers
    BY <1>0, <1>1 DEF Insert
  <2>. QED
    BY <2>1 DEF OwnError
<1>2. ASSUME NEW w \in Workers, FreeError(w) PROVE OwnError'
  <2>1. /\ pc[w] = "free" /\ pc' = [pc EXCEPT ![w] = "answer"] /\ crash = "no" /\ crash' = "no"
        /\ met' = met
    BY <1>2 DEF FreeError
  <2>2. ASSUME NEW v \in Workers, Freeing(v)' PROVE met'[v] # {}
    <3>1. v # w /\ Freeing(v) /\ Freeing(w)
      BY <1>0, <2>1, <2>2
    <3>. QED
      BY <2>1, <3>1 DEF MeetingsSeen
  <2>. QED
    BY <2>1, <2>2 DEF OwnError
<1>3. ASSUME NEW w \in Workers, PrintFreed(w) \/ FreeTwice(w) PROVE OwnError'
  <2>1. /\ Freeing(w) /\ zErrMsg \in freed /\ UNCHANGED <<zErrMsg, freed, met>>
        /\ \E to \in {"free", "answer"} : pc' = [pc EXCEPT ![w] = to]
    BY <1>3 DEF PrintFreed, FreeTwice
  <2>2. met'[w] # {}
    BY <2>1 DEF OwnError
  <2>. QED
    BY <1>0, <2>1, <2>2 DEF OwnError
<1>4. ASSUME NEW w \in Workers, NEW r \in Requests, Call(w, r) PROVE OwnError'
  <2>1. /\ pc' = [pc EXCEPT ![w] = "called"] /\ crash = "no" /\ crash' = "no"
        /\ UNCHANGED <<zErrMsg, freed>> /\ met' = [met EXCEPT ![w] = {}]
    BY <1>4 DEF Call
  <2>. QED
    BY <1>0, <2>1 DEF OwnError
<1>5. ASSUME NEW w \in Workers, Memset(w) PROVE OwnError'
  <2>1. /\ pc' = [pc EXCEPT ![w] = "strcpy"] /\ crash = "no" /\ crash' = "no"
        /\ UNCHANGED <<zErrMsg, freed>>
    BY <1>5 DEF Memset
  <2>2. \A u \in Workers : met[u] \subseteq met'[u]
    BY <1>5, Meets DEF Memset
  <2>3. \A u \in Workers : met'[u] = {} => met[u] = {}
    BY <2>2
  <2>. QED
    BY <1>0, <2>1, <2>3 DEF OwnError
<1>6. ASSUME NEW w \in Workers,
             AnswerRegister(w) \/ Select(w) \/ SelectCrashes(w) \/ Strcpy(w) \/ Strcpy2(w)
               \/ Send(w) \/ SendFails(w) \/ Return(w)
      PROVE  OwnError'
  <2>1. /\ crash = "no" /\ crash' # "freed text" /\ UNCHANGED <<zErrMsg, freed, met>>
        /\ \E to \in PCs \ {"print", "free"} : pc' = [pc EXCEPT ![w] = to]
    BY <1>6 DEF AnswerRegister, Select, SelectCrashes, Strcpy, Strcpy2, Send, SendFails, Return, PCs
  <2>. QED
    BY <1>0, <2>1 DEF OwnError
<1>7. ASSUME NEW w \in Workers, PrintError(w) PROVE OwnError'
  <2>1. /\ pc[w] = "print" /\ pc' = [pc EXCEPT ![w] = "free"]
        /\ UNCHANGED <<zErrMsg, freed, met, crash>>
    BY <1>7 DEF PrintError
  <2>. QED
    BY <1>0, <2>1 DEF OwnError
<1>8. CASE UNCHANGED vars
  BY <1>8 DEF vars, OwnError
<1>. QED
  BY <1>1, <1>2, <1>3, <1>4, <1>5, <1>6, <1>7, <1>8 DEF Next, SendMessage
-----------------------------------------------------------------------------
(* The passwords.                                                          *)
LEMMA PasswordInit == Init => PasswordChecked
BY DEF Init, PasswordChecked

(* A row, once there, stays as it is.                                      *)
LEMMA RowStep ==
  ASSUME TypeOK, [Next]_vars, NEW u \in Users, table[u] # None
  PROVE  table'[u] = table[u]
<1>1. ASSUME NEW w \in Workers, Insert(w) PROVE table'[u] = table[u]
  BY <1>1 DEF Insert, TypeOK
<1>. QED
  BY <1>1 DEF Next, SendMessage, Call, PrintError, PrintFreed, FreeError, FreeTwice,
     AnswerRegister, Select,
     SelectCrashes, Memset, Strcpy, Strcpy2, Send, SendFails, Return, vars

LEMMA PasswordStep == TypeOK /\ Serving /\ PasswordChecked /\ [Next]_vars => PasswordChecked'
<1> SUFFICES ASSUME TypeOK, Serving, PasswordChecked, [Next]_vars,
                    NEW v \in Workers, request'[v] # None,
                    pc'[v] \notin {"called", "print", "free", "answer"},
                    reply'[v].text = "login ok"
             PROVE  table'[request'[v].user] = request'[v].pwd
  BY DEF PasswordChecked
<1> USE DEF Goes
<1>0. /\ pc \in [Workers -> PCs] /\ request \in [Workers -> Requests \cup {None}]
      /\ reply \in [Workers -> Messages]
  BY DEF TypeOK
<1>1. CASE /\ request'[v] = request[v] /\ reply'[v] = reply[v]
           /\ pc[v] \notin {"called", "print", "free", "answer"}
  <2>1. request[v].user \in Users /\ request[v].pwd \in Pwds
    BY <1>0, <1>1 DEF Requests
  <2>2. table[request[v].user] = request[v].pwd
    BY <1>1 DEF PasswordChecked
  <2>3. table[request[v].user] # None
    BY <2>1, <2>2, DBAssumption
  <2>4. table'[request[v].user] = table[request[v].user]
    BY <2>1, <2>3, RowStep
  <2>. QED
    BY <1>1, <2>2, <2>4
<1>2. ASSUME NEW w \in Workers, Select(w) PROVE table'[request'[v].user] = request'[v].pwd
  <2>1. CASE w = v
    BY <1>0, <1>2, <2>1 DEF Select
  <2>2. CASE w # v
    BY <1>0, <1>1, <1>2, <2>2 DEF Select
  <2>. QED
    BY <2>1, <2>2
<1>3. ASSUME NEW w \in Workers, AnswerRegister(w)
      PROVE  table'[request'[v].user] = request'[v].pwd
  <2>1. CASE w = v
    <3>1. reply'[v].text \in {"register ok", "register error"}
      BY <1>0, <1>3, <2>1 DEF AnswerRegister
    <3>. QED
      BY <3>1
  <2>2. CASE w # v
    BY <1>0, <1>1, <1>3, <2>2 DEF AnswerRegister
  <2>. QED
    BY <2>1, <2>2
<1>4. ASSUME NEW w \in Workers, NEW r \in Requests, Call(w, r)
      PROVE  table'[request'[v].user] = request'[v].pwd
  <2>1. CASE w = v
    BY <1>0, <1>4, <2>1 DEF Call
  <2>2. CASE w # v
    BY <1>0, <1>1, <1>4, <2>2 DEF Call
  <2>. QED
    BY <2>1, <2>2
<1>5. ASSUME NEW w \in Workers, Return(w) PROVE table'[request'[v].user] = request'[v].pwd
  BY <1>0, <1>1, <1>5 DEF Return
<1>6. ASSUME NEW w \in Workers,
             Insert(w) \/ PrintError(w) \/ PrintFreed(w) \/ FreeError(w) \/ FreeTwice(w)
               \/ SelectCrashes(w)
      PROVE  table'[request'[v].user] = request'[v].pwd
  <2>1. /\ UNCHANGED <<request, reply>>
        /\ \E to \in {"print", "free", "answer", "called"} : pc' = [pc EXCEPT ![w] = to]
    BY <1>6 DEF Insert, PrintError, PrintFreed, FreeError, FreeTwice, SelectCrashes
  <2>. QED
    BY <1>0, <1>1, <2>1
<1>7. ASSUME NEW w \in Workers, SendMessage(w) PROVE table'[request'[v].user] = request'[v].pwd
  <2>1. /\ UNCHANGED <<request, reply>> /\ pc[w] \in {"memset", "strcpy", "strcpy2", "send"}
        /\ \E to \in PCs : pc' = [pc EXCEPT ![w] = to]
    BY <1>7 DEF SendMessage, Memset, Strcpy, Strcpy2, Send, SendFails, PCs
  <2>. QED
    BY <1>0, <1>1, <2>1
<1>8. CASE UNCHANGED vars
  BY <1>1, <1>8 DEF vars
<1>. QED
  BY <1>2, <1>3, <1>4, <1>5, <1>6, <1>7, <1>8 DEF Next

-----------------------------------------------------------------------------
DBInv == TypeOK /\ Serving /\ MeetingsSeen /\ OwnMessage /\ OwnError /\ PasswordChecked

LEMMA InvInit == Init => DBInv
BY TypedInit, MeetingsInit, PasswordInit DEF DBInv

LEMMA InvStep == DBInv /\ [Next]_vars => DBInv'
BY TypedStep, ServingStep, MeetingsStep, OwnMessageStep, OwnErrorStep, PasswordStep DEF DBInv

LEMMA Invariant == Spec => []DBInv
BY InvInit, InvStep, PTL DEF Spec

(* The variables keep their types, and a worker in user_register or        *)
(* user_login has the request it was called with (db.cpp, 28-180).         *)
THEOREM TypeCorrect == Spec => []TypeOK
<1>1. DBInv => TypeOK
  BY DEF DBInv
<1>. QED
  BY <1>1, Invariant, PTL

(* However many workers share msg1 and zErrMsg, those that never overlap   *)
(* there are not disturbed (db.cpp, 80-85 and 171-180).                    *)
THEOREM Harmless == Spec => []HarmlessUnlessMet
<1>1. DBInv => HarmlessUnlessMet
  BY DEF DBInv, OwnMessage, Message, OwnError, HarmlessUnlessMet
<1>. QED
  BY <1>1, Invariant, PTL

(* "login ok" is composed for the password in the user's row only, and the *)
(* row is still the same when the reply is sent (db.cpp, 78 and 120-158).  *)
THEOREM LoginChecked == Spec => []PasswordChecked
<1>1. DBInv => PasswordChecked
  BY DEF DBInv
<1>. QED
  BY <1>1, Invariant, PTL

(* No operation of the server changes or removes the row of an account     *)
(* (db.cpp, 66-78 and 118-135).                                            *)
THEOREM RowsKept == Spec => [][\A u \in Users : table[u] # None => table'[u] = table[u]]_vars
<1>1. DBInv /\ [Next]_vars => [\A u \in Users : table[u] # None => table'[u] = table[u]]_vars
  BY RowStep DEF DBInv
<1>. QED
  BY <1>1, Invariant, PTL DEF Spec

=============================================================================
