------------------------------- MODULE UserDB -------------------------------
(***************************************************************************)
(* loginserver/db.cpp: the workers of the login server call user_register  *)
(* and user_login on one DB object, whose members msg1 and zErrMsg they    *)
(* share without a lock.  (They share ret as well, which only ever holds a *)
(* value that may be negative or not, see Return.)  SQLite is external:    *)
(* its default, serialized, mode makes each sqlite3_exec or                *)
(* sqlite3_get_table one step.  Other steps of the workers interleave      *)
(* between any two accesses of the members; strcpy fills msg1 in two       *)
(* parts, so that a reply can be torn.                                     *)
(***************************************************************************)
EXTENDS Integers

CONSTANTS
  Workers,    \* the threads of the pool, each with the client it serves
  Users,      \* user names; also stand for the server data of an account
  Pwds,       \* passwords
  None        \* no row, a null pointer, a zeroed part of msg1

ASSUME DBAssumption == None \notin Users \cup Pwds \cup Workers

VARIABLES
  table,      \* the table user1: the password in each user's row, or None
  request,    \* what each worker has been asked
  pc,         \* where each worker is
  led,        \* its local led: what sqlite3_exec returned
  reply,      \* its local sendmsg
  msg1,       \* the shared buffer
  zErrMsg,    \* the shared pointer to an error text, named by its owner
  freed,      \* the error texts that have been freed
  wire,       \* what each client has received
  met,        \* the workers each one has met in a use of msg1 or zErrMsg
  crash       \* why the process died

vars == <<table, request, pc, led, reply, msg1, zErrMsg, freed, wire,
          met, crash>>

SQLITE_OK == 0
SQLITE_CONSTRAINT == 19

Requests == [command : {"register", "login"}, user : Users, pwd : Pwds]
Texts == {"register ok", "register error", "login ok", "login error", None}
Messages == [text : Texts, account : Users \cup {None}]
Blank == [text |-> None, account |-> None]
PCs == {"idle", "called", "print", "free", "answer", "memset", "strcpy",
        "strcpy2", "send", "return"}

(* Inside sendData after its memset; between sqlite3_exec and the free.    *)
Sending(w) == pc[w] \in {"strcpy", "strcpy2", "send"}
Freeing(w) == pc[w] \in {"print", "free"}

TypeOK ==
  /\ table \in [Users -> Pwds \cup {None}]
  /\ request \in [Workers -> Requests \cup {None}]
  /\ pc \in [Workers -> PCs]
  /\ led \in [Workers -> {SQLITE_OK, SQLITE_CONSTRAINT}]
  /\ reply \in [Workers -> Messages]
  /\ msg1 \in Messages
  /\ zErrMsg \in Workers \cup {None}
  /\ freed \subseteq Workers
  /\ wire \in [Workers -> Messages]
  /\ met \in [Workers -> SUBSET Workers]
  /\ crash \in {"no", "unknown user", "freed text"}

Init ==
  /\ table = [u \in Users |-> None]
  /\ request = [w \in Workers |-> None]
  /\ pc = [w \in Workers |-> "idle"]
  /\ led = [w \in Workers |-> SQLITE_OK]
  /\ reply = [w \in Workers |-> Blank]
  /\ msg1 = Blank
  /\ zErrMsg = None
  /\ freed = {}
  /\ wire = [w \in Workers |-> Blank]
  /\ met = [w \in Workers |-> {}]
  /\ crash = "no"

Goes(w, from, to) ==
  /\ crash = "no"
  /\ pc[w] = from
  /\ pc' = [pc EXCEPT ![w] = to]

(* w meets every worker of the set S, and they meet w.                     *)
Meet(w, S) ==
  met' = [u \in Workers |-> IF u = w THEN met[w] \cup (S \ {w})
                            ELSE IF u \in S THEN met[u] \cup {w} ELSE met[u]]

-----------------------------------------------------------------------------
(* process() calls user_register or user_login for the next client.        *)
Call(w, r) ==
  /\ Goes(w, "idle", "called")
  /\ request' = [request EXCEPT ![w] = r]
  /\ reply' = [reply EXCEPT ![w] = Blank]
  /\ wire' = [wire EXCEPT ![w] = Blank]
  /\ met' = [met EXCEPT ![w] = {}]
  /\ UNCHANGED <<table, led, msg1, zErrMsg, freed, crash>>

(* Mutant: INSERT OR REPLACE. *)
InsertOrReplace(w) ==
  /\ Goes(w, "called", "print")
  /\ request[w].command = "register"
  /\ table' = [table EXCEPT ![request[w].user] = request[w].pwd]
  /\ led' = [led EXCEPT ![w] = SQLITE_OK]
  /\ zErrMsg' = None
  /\ Meet(w, {x \in Workers : Freeing(x)})
  /\ UNCHANGED <<request, reply, msg1, freed, wire, crash>>

(* Mutant: zErrMsg is not reset when there is no error. *)
InsertKeepsError(w) ==
  LET u == request[w].user
      new == table[u] = None
  IN
  /\ Goes(w, "called", "print")
  /\ request[w].command = "register"
  /\ table' = IF new THEN [table EXCEPT ![u] = request[w].pwd] ELSE table
  /\ led' = [led EXCEPT ![w] = IF new THEN SQLITE_OK ELSE SQLITE_CONSTRAINT]
  /\ zErrMsg' = IF new THEN zErrMsg ELSE w
  /\ freed' = IF new THEN freed ELSE freed \ {w}
  /\ Meet(w, {x \in Workers : Freeing(x)})
  /\ UNCHANGED <<request, reply, msg1, wire, crash>>

(* Mutant: strsep called once too few, the fields shift. *)
InsertShifted(w) ==
  /\ Goes(w, "called", "print")
  /\ request[w].command = "register"
  /\ table' = [table EXCEPT ![request[w].user] = request[w].user]
  /\ led' = [led EXCEPT ![w] = SQLITE_OK]
  /\ zErrMsg' = None
  /\ Meet(w, {x \in Workers : Freeing(x)})
  /\ UNCHANGED <<request, reply, msg1, freed, wire, crash>>

(* user_register: INSERT INTO user1, whose key is username.  sqlite3_exec  *)
(* stores a new error text in zErrMsg, or NULL.                            *)
Insert(w) ==
  LET u == request[w].user
      new == table[u] = None
  IN
  /\ Goes(w, "called", "print")
  /\ request[w].command = "register"
  /\ table' = IF new THEN [table EXCEPT ![u] = request[w].pwd] ELSE table
  /\ led' = [led EXCEPT ![w] = IF new THEN SQLITE_OK ELSE SQLITE_CONSTRAINT]
  /\ zErrMsg' = IF new THEN None ELSE w
  /\ freed' = IF new THEN freed ELSE freed \ {w}
  /\ Meet(w, {x \in Workers : Freeing(x)})
  /\ UNCHANGED <<request, reply, msg1, wire, crash>>

(* cout<<zErrMsg, of whatever text is there now: one that has been freed   *)
(* may still be readable, or not.                                          *)
PrintError(w) ==
  /\ Goes(w, "print", "free")
  /\ UNCHANGED <<table, request, led, reply, msg1, zErrMsg, freed, wire, met, crash>>

PrintFreed(w) ==
  /\ Goes(w, "print", "free")
  /\ zErrMsg \in freed
  /\ crash' = "freed text"
  /\ UNCHANGED <<table, request, led, reply, msg1, zErrMsg, freed, wire, met>>

(* sqlite3_free(zErrMsg), of the text that is there by then.               *)
FreeError(w) ==
  /\ Goes(w, "free", "answer")
  /\ zErrMsg \notin freed
  /\ freed' = IF zErrMsg = None THEN freed ELSE freed \cup {zErrMsg}
  /\ UNCHANGED <<table, request, led, reply, msg1, zErrMsg, wire, met, crash>>

FreeTwice(w) ==
  /\ Goes(w, "free", "answer")
  /\ zErrMsg \in freed
  /\ crash' = "freed text"
  /\ UNCHANGED <<table, request, led, reply, msg1, zErrMsg, freed, wire, met>>

(* The error codes of SQLite are positive, the test is led < 0.            *)
AnswerRegister(w) ==
  /\ Goes(w, "answer", "memset")
  /\ reply' = [reply EXCEPT ![w] =
       [text |-> IF led[w] < 0 THEN "register error" ELSE "register ok",
        account |-> request[w].user]]
  /\ UNCHANGED <<table, request, led, msg1, zErrMsg, freed, wire, met, crash>>

(* user_login: SELECT ... WHERE username, then strcmp(pwd, ppTable[4]).    *)
(* Without a row ppTable[4] lies beyond the table: whatever is there is no *)
(* password, if it can be read at all.                                     *)
Select(w) ==
  LET u == request[w].user
      ok == table[u] # None /\ table[u] = request[w].pwd
  IN
  /\ Goes(w, "called", "memset")
  /\ request[w].command = "login"
  /\ reply' = [reply EXCEPT ![w] =
       IF ok THEN [text |-> "login ok", account |-> u]
             ELSE [text |-> "login error", account |-> None]]
  /\ UNCHANGED <<table, request, led, msg1, zErrMsg, freed, wire, met, crash>>

SelectCrashes(w) ==
  /\ Goes(w, "called", "called")
  /\ request[w].command = "login"
  /\ table[request[w].user] = None
  /\ crash' = "unknown user"
  /\ UNCHANGED <<table, request, led, reply, msg1, zErrMsg, freed, wire, met>>

-----------------------------------------------------------------------------
(* sendData(connFd, data): memset, strcpy and send of the shared msg1.     *)

Memset(w) ==
  /\ Goes(w, "memset", "strcpy")
  /\ msg1' = Blank
  /\ Meet(w, {x \in Workers : Sending(x)})
  /\ UNCHANGED <<table, request, led, reply, zErrMsg, freed, wire, crash>>

Strcpy(w) ==
  /\ Goes(w, "strcpy", "strcpy2")
  /\ msg1' = [msg1 EXCEPT !.text = reply[w].text]
  /\ UNCHANGED <<table, request, led, reply, zErrMsg, freed, wire, met, crash>>

Strcpy2(w) ==
  /\ Goes(w, "strcpy2", "send")
  /\ msg1' = [msg1 EXCEPT !.account = reply[w].account]
  /\ UNCHANGED <<table, request, led, reply, zErrMsg, freed, wire, met, crash>>

Send(w) ==
  /\ Goes(w, "send", "return")
  /\ wire' = [wire EXCEPT ![w] = msg1]
  /\ UNCHANGED <<table, request, led, reply, msg1, zErrMsg, freed, met, crash>>

(* The client is gone: send returns -1.                                    *)
SendFails(w) ==
  /\ Goes(w, "send", "return")
  /\ UNCHANGED <<table, request, led, reply, msg1, zErrMsg, freed, wire, met,
                 crash>>

(* Back in process(): user_register returns 0.  user_login returns -1 when *)
(* the password is wrong; else it tests ret, which holds what sendData     *)
(* returned, -1 or, for want of a return statement, anything.  LoginServer *)
(* models what process() makes of the result.                              *)
Return(w) ==
  /\ Goes(w, "return", "idle")
  /\ request' = [request EXCEPT ![w] = None]
  /\ led' = [led EXCEPT ![w] = SQLITE_OK]
  /\ UNCHANGED <<table, reply, msg1, zErrMsg, freed, wire, met, crash>>

-----------------------------------------------------------------------------
SendMessage(w) ==
  Memset(w) \/ Strcpy(w) \/ Strcpy2(w) \/ Send(w) \/ SendFails(w)

Next ==
  \E w \in Workers :
    \/ \E r \in Requests : Call(w, r)
    \/ Insert(w)
    \/ PrintError(w)
    \/ PrintFreed(w)
    \/ FreeError(w)
    \/ FreeTwice(w)
    \/ AnswerRegister(w)
    \/ Select(w)
    \/ SelectCrashes(w)
    \/ SendMessage(w)
    \/ Return(w)

Spec == Init /\ [][Next]_vars

-----------------------------------------------------------------------------
(***************************************************************************)
(* The shared members are harmless to a worker that nobody meets there: a  *)
(* client receives exactly the reply its worker composed, and no error     *)
(* text is used or freed once it has been freed, unless another worker was *)
(* inside sendData, or between sqlite3_exec and sqlite3_free, at the same  *)
(* time (db.cpp, lines 80-85 and 177-179).                                 *)
(***************************************************************************)
HarmlessUnlessMet ==
  /\ \A w \in Workers :
       wire[w] # Blank /\ met[w] = {} => wire[w] = reply[w]
  /\ crash = "freed text" => \E w \in Workers : met[w] # {}

(***************************************************************************)
(* The reply "login ok" is composed only for the password that is in the   *)
(* user's row, and that row is still the same when the reply is sent,      *)
(* whatever registrations other workers make meanwhile (db.cpp, lines 78   *)
(* and 120-158).                                                           *)
(***************************************************************************)
PasswordChecked ==
  \A w \in Workers :
    request[w] # None /\ pc[w] \notin {"called", "print", "free", "answer"}
      /\ reply[w].text = "login ok"
      => table[request[w].user] = request[w].pwd

(***************************************************************************)
(* A registration that SQLite refuses is answered "register error": what   *)
(* user_register has a branch and a message for (db.cpp, lines 87-91).     *)
(***************************************************************************)
RefusalReported ==
  \A w \in Workers :
    pc[w] = "return" /\ request[w].command = "register" /\ led[w] # SQLITE_OK
      => reply[w].text = "register error"

(***************************************************************************)
(* A client with a wrong password is told "login error", not "login ok"    *)
(* (db.cpp, lines 159-163).                                                *)
(***************************************************************************)
WrongPasswordRefused ==
  \A w \in Workers :
    /\ pc[w] = "return"
    /\ request[w].command = "login"
    /\ table[request[w].user] \notin {None, request[w].pwd}
    => wire[w].text # "login ok"

=============================================================================
