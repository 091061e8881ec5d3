--------------------------- MODULE AccountProtocol ---------------------------
(***************************************************************************)
(* The text of registration and login, between the phone application       *)
(* (proclient/widget.cpp) and the login server (loginserver.cpp, db.cpp).  *)
(* A request is a list of fields, each followed by a comma, which the      *)
(* server cuts up with strsep.  m_read_buf is never cleared: a text is     *)
(* followed by what is left of an earlier one on the same descriptor.  And *)
(* TCP may deliver a part of a request, which is processed as it is.       *)
(* The server writes the statements for SQLite and the answers into arrays *)
(* of a fixed size, without a limit: lengths are modelled in bytes.        *)
(*                                                                         *)
(* A text is a sequence of tokens, the last of which has no comma behind   *)
(* it.  The sessions use one descriptor, one after the other; what         *)
(* concurrent ones do to each other is in LoginServer and UserDB.          *)
(***************************************************************************)
EXTENDS Naturals, Sequences, SequencesExt

CONSTANTS
  Names, Pwds,   \* what users call themselves, and their passwords
  Length,        \* the length of the last part of each token, in bytes
  READ_BUFFER_SIZE,  \* of m_read_buf
  MSG_BUF_SIZE,  \* of the local arrays sql and sendmsg, and of msg1
  MaxSessions,   \* bound: starts of the application
  MaxClicks,     \* bound: requests sent
  MaxOdd         \* bound: requests with a comma in a field, or cut

Commands == {"register", "login", "register ok", "login ok", "login error"}
Parts == {"seradd", "seruser", "serpwd", "more"}

ASSUME AccountAssumption ==
  /\ MaxSessions \in Nat \ {0} /\ MaxClicks \in Nat /\ MaxOdd \in Nat
  /\ Length \in [Names \cup Pwds \cup Commands \cup Parts \cup {"", "(null)"} -> Nat]
  /\ READ_BUFFER_SIZE \in Nat /\ MSG_BUF_SIZE \in Nat
  /\ READ_BUFFER_SIZE <= MSG_BUF_SIZE
  /\ Length["register"] = 8 /\ Length["register ok"] = 11 /\ Length["login ok"] = 8

Sessions == 1 .. MaxSessions
Typists == Sessions \cup Names

(* Tokens: words, names and passwords, and texts typed in a session or, by *)
(* the users of these names, before the server was started.                *)
Word(w) == <<w>>
Empty == <<"">>
Part == <<"part">>       \* a piece of a field, or two pieces
NoText == <<"(null)">>   \* a field that is not there
Text(s, f) == <<s, f>>
Account(s) == <<Text(s, "seradd"), Text(s, "seruser"), Text(s, "serpwd")>>

Tokens ==
  {Word(w) : w \in Names \cup Pwds \cup Commands}
  \cup {Empty, Part, NoText} \cup (Typists \X Parts)

(* The length of a token; a piece may have any up to that of the buffer.   *)
Longest(t) == IF t = Part THEN READ_BUFFER_SIZE ELSE Length[Last(t)]

LongestOf(account) ==
  Longest(account[1]) + Longest(account[2]) + Longest(account[3])

VARIABLES
  session,  \* number of the session
  page,     \* of the stacked widget
  clicks,   \* requests sent
  wire,     \* the text the server has not received
  buf,      \* m_read_buf
  served,   \* the first request of the session, which is the one the server
            \* acts on, as it was typed, and whether it was cut
  at,       \* the server: "idle", "process", "done" or "crashed"
  user1,    \* the table: rows by name, and whether they are as typed
  reply,    \* sent and not read
  account,  \* host, user and password m_client was given
  odd       \* number of odd requests

phoneVars == <<session, page, clicks, account>>
vars == <<phoneVars, wire, buf, served, at, user1, reply, odd>>

Requests == [kind : {"register", "login"}, name : Tokens, pwd : Tokens,
             fields : Seq(Tokens), commas : BOOLEAN]

NoRequest == [request |-> [kind |-> "none"], cut |-> FALSE]

TypeOK ==
  /\ session \in Sessions
  /\ page \in {"page_1", "registerpage", "page2"}
  /\ clicks \in 0 .. MaxClicks
  /\ wire \in Seq(Tokens) \ {<<>>}
  /\ buf \in Seq(Tokens) \ {<<>>}
  /\ at \in {"idle", "process", "done", "crashed"}
  /\ served \in [request : Requests, cut : BOOLEAN] \cup {NoRequest}
  /\ \A n \in DOMAIN user1 : n \in Tokens /\ user1[n].account \in Seq(Tokens)
  /\ reply \in Seq(Tokens)
  /\ account \in Seq(Tokens) /\ Len(account) \in {0, 3}
  /\ odd \in 0 .. MaxOdd

(* The length of a whole request of at most six fields and its commas.     *)
FieldLength(r, i) == IF i \in DOMAIN r.fields THEN Longest(r.fields[i]) + 1 ELSE 0

RequestLength(r) ==
  Length[r.kind] + 1 + FieldLength(r, 1) + FieldLength(r, 2) + FieldLength(r, 3)
    + FieldLength(r, 4) + FieldLength(r, 5) + FieldLength(r, 6)

(* What was registered before had arrived whole.                           *)
RegisteredAs(n, p) ==
  RequestLength([kind |-> "register", fields |-> <<Word(n), Word(p)>> \o Account(n)])
    <= READ_BUFFER_SIZE

Init ==
  /\ session = 1 /\ page = "page_1" /\ clicks = 0
  /\ wire = <<Empty>> /\ buf = <<Empty>> /\ served = NoRequest /\ at = "idle"
  /\ \E known \in SUBSET Names : \E pwd \in [known -> Pwds] :
       /\ \A n \in known : RegisteredAs(n, pwd[n])
       /\ user1 = [w \in {Word(n) : n \in known} |->
                 [pwd |-> Word(pwd[w[1]]), account |-> Account(w[1]), typed |-> TRUE]]
  /\ reply = <<>> /\ account = <<>> /\ odd = 0

-----------------------------------------------------------------------------
(* The phone.                                                              *)

(* on_registerbtn_clicked and on_backbtn_clicked.                          *)
Turn ==
  /\ \/ page = "page_1" /\ page' = "registerpage"
     \/ page = "registerpage" /\ page' = "page_1"
  /\ UNCHANGED <<session, clicks, account, wire, buf, served, at, user1, reply, odd>>

(* What is sent when these fields are typed, one of them perhaps with a    *)
(* comma in it.                                                            *)
Typed(kind, fields) ==
  {[kind |-> kind, name |-> fields[1], pwd |-> fields[2], fields |-> fields,
    commas |-> FALSE]} \cup
  {[kind |-> kind, name |-> fields[1], pwd |-> fields[2], commas |-> TRUE,
    fields |-> InsertAt(fields, i, Text(session, "more"))] : i \in DOMAIN fields}

(* Mutant: the phone puts commas between the fields only. *)
TextOfUnclosed(r) == <<Word(r.kind)>> \o r.fields

(* The fields of a request, each with a comma behind it.                   *)
TextOf(r) == <<Word(r.kind)>> \o r.fields \o <<Empty>>

(* The text joins what is on the way.  What is sent after the server has   *)
(* read is never read, and left out.                                       *)
Send(r) ==
  /\ at = "idle"
  /\ clicks < MaxClicks
  /\ clicks' = clicks + 1
  /\ odd' = odd + IF r.commas THEN 1 ELSE 0
  /\ odd' <= MaxOdd
  /\ wire' = Front(wire) \o TextOf(r)
  /\ served' = IF served = NoRequest THEN [request |-> r, cut |-> FALSE] ELSE served
  /\ UNCHANGED <<session, page, account, buf, at, user1, reply>>

(* on_loginbtn_clicked: an empty name or password draws a warning, and is  *)
(* sent all the same.                                                      *)
ClickLogin ==
  /\ page = "page_1"
  /\ \E n \in Names \cup {""}, p \in Pwds \cup {""} :
       \E r \in Typed("login", <<Word(n), Word(p)>>) : Send(r)

ClickRegister ==
  /\ page = "registerpage"
  /\ \E n \in Names \cup {""}, p \in Pwds \cup {""} :
       \E r \in Typed("register", <<Word(n), Word(p)>> \o Account(session)) : Send(r)

(* readdataslot: after "login ok" and "register ok" the phone connects to  *)
(* the hub, and turns to page2 if the client is then connecting.           *)
ReadReply ==
  /\ reply # <<>>
  /\ reply' = <<>>
  /\ IF reply[1] \in {Word("register ok"), Word("login ok")}
     THEN /\ account' = Tail(reply)
          /\ page' \in {page, "page2"}
     ELSE UNCHANGED <<account, page>>
  /\ UNCHANGED <<session, clicks, wire, buf, served, at, user1, odd>>

(* The application ends and is started again.                              *)
Restart ==
  /\ session < MaxSessions /\ at \in {"idle", "done"}
  /\ session' = session + 1 /\ page' = "page_1"
  /\ wire' = <<Empty>> /\ served' = NoRequest /\ at' = "idle"
  /\ reply' = <<>> /\ account' = <<>>
  /\ UNCHANGED <<clicks, buf, user1, odd>>

-----------------------------------------------------------------------------
(* The server.                                                             *)

(* What may be seen where the open token x has been written over an old    *)
(* token o: nothing of o is left, or it is all of o, or pieces.            *)
Glue(x, o) ==
  {x} \cup (IF o = Empty THEN {} ELSE IF x = Empty THEN {o, Part} ELSE {Part})

Over(text, old) ==
  UNION {{Front(text) \o <<y>> \o SubSeq(old, j + 1, Len(old)) :
            y \in Glue(Last(text), old[j])} : j \in DOMAIN old}

(* What may have arrived of a text: all, or less, down to a byte.          *)
Arrived(text) ==
  {text} \cup {Append(SubSeq(text, 1, k), x) : k \in 0 .. Len(text) - 2, x \in {Empty, Part}}
         \cup {SubSeq(text, 1, k) : k \in 1 .. Len(text) - 1}

(* read(): recv writes what has arrived over the old content.  All of the  *)
(* first request, which m_read_buf must have room for, and as much of      *)
(* others as may be ...                                                    *)
ReceiveAll ==
  /\ RequestLength(served.request) <= READ_BUFFER_SIZE
  /\ \E got \in Arrived(wire) :
       /\ Len(got) >= Len(TextOf(served.request))
       /\ buf' \in {got} \cup Over(got, buf)
  /\ UNCHANGED <<served, odd>>

(* ... or a part of the first request, for want of more or of room.        *)
ReceivePart ==
  /\ odd < MaxOdd /\ odd' = odd + 1
  /\ \E got \in Arrived(wire) :
       /\ Len(got) < Len(TextOf(served.request))
       /\ got # <<Empty>>
       /\ buf' \in {got} \cup Over(got, buf)
  /\ served' = [served EXCEPT !.cut = TRUE]

Receive ==
  /\ at = "idle" /\ served # NoRequest
  /\ at' = "process"
  /\ ReceiveAll \/ ReceivePart
  /\ wire' = <<Empty>>
  /\ UNCHANGED <<phoneVars, user1, reply>>

(* Mutant: strsep is called once more than there are words before. *)
FieldSkipped(i) == IF i < Len(buf) THEN buf[i + 1] ELSE NoText

(* The i-th token strsep finds.                                            *)
Field(i) == IF i <= Len(buf) THEN buf[i] ELSE NoText

Named(w) == at = "process" /\ buf[1] = Word(w)

(* The insertion of a row, which SQLite refuses when the name is taken.    *)
Insert(name, row) ==
  user1' = [n \in DOMAIN user1 \cup {name} |-> IF n \in DOMAIN user1 THEN user1[n] ELSE row]

NewRow == [pwd |-> Field(3), account |-> <<Field(4), Field(5), Field(6)>>,
           typed |-> ~served.cut /\ ~served.request.commas]

(* The bytes that sprintf writes into sql, without the last, zero one.     *)
InsertLength == 43 + Longest(Field(2)) + Longest(Field(3))
                   + LongestOf(<<Field(4), Field(5), Field(6)>>)
SelectLength(name) == 62 + Longest(name)

(* The bytes of an answer, and the answers that may go out: sendData sends *)
(* MSG_BUF_SIZE bytes, and what is beyond them is cut off.                 *)
AnswerLength(w, a) == Length[w] + 3 + LongestOf(a)

Answers(w, a) ==
  {<<Word(w)>> \o a} \cup
  (IF AnswerLength(w, a) > MSG_BUF_SIZE
   THEN {<<Word(w), a[1], y, z>> : y \in {a[2], Part, Empty}, z \in {Part, Empty}}
   ELSE {})

(* user_register or user_login is through.  Where an array was too short   *)
(* for what was written, nothing may be seen of that, or the process ends, *)
(* at the latest when the function returns.                                *)
Ends(overrun, answers) ==
  \/ at' = "done" /\ reply' \in answers
  \/ overrun /\ at' = "crashed" /\ reply' \in answers \cup {reply}

(* Mutant: the answer leaves out the password of the hub. *)
UserRegisterShort ==
  /\ Named("register") /\ Len(buf) > 1
  /\ Insert(Field(2), NewRow)
  /\ Ends(InsertLength >= MSG_BUF_SIZE, {<<Word("register ok"), Field(4), Field(5)>>})
  /\ UNCHANGED <<phoneVars, wire, buf, served, odd>>

(* user_register: the insertion, and the answer with the fields of the     *)
(* request whether the name was taken or not.  The answer is shorter than  *)
(* the statement, and has room where that has.                             *)
UserRegister ==
  /\ Named("register") /\ Len(buf) > 1
  /\ Insert(Field(2), NewRow)
  /\ Ends(InsertLength >= MSG_BUF_SIZE, Answers("register ok", NewRow.account))
  /\ UNCHANGED <<phoneVars, wire, buf, served, odd>>

(* user_login: the row of the name, whose password is compared.            *)
UserLogin ==
  /\ Named("login") /\ Len(buf) > 2
  /\ Field(2) \in DOMAIN user1
  /\ LET row == user1[Field(2)]
         long == SelectLength(Field(2)) >= MSG_BUF_SIZE
     IN IF Field(3) = row.pwd
        THEN Ends(long \/ AnswerLength("login ok", row.account) >= MSG_BUF_SIZE,
                  Answers("login ok", row.account))
        ELSE Ends(long, {<<Word("login error")>>})
  /\ UNCHANGED <<phoneVars, wire, buf, served, user1, odd>>

(* For an unknown name the password is compared with ppTable[4], beyond    *)
(* the end of the result: whatever lies there, or a crash.                 *)
UserUnknown ==
  /\ Named("login") /\ Len(buf) > 2
  /\ Field(2) \notin DOMAIN user1
  /\ \/ at' = "crashed" /\ UNCHANGED reply
     \/ at' = "done" /\ reply' = <<Word("login error")>>
  /\ UNCHANGED <<phoneVars, wire, buf, served, user1, odd>>

(* strdup or strcmp of a field that is not there.                          *)
NullField ==
  /\ \/ Named("register") /\ Len(buf) = 1
     \/ Named("login") /\ Len(buf) < 3
  /\ at' = "crashed"
  /\ UNCHANGED <<phoneVars, wire, buf, served, user1, reply, odd>>

(* Another command: process() returns.                                     *)
Ignore ==
  /\ at = "process" /\ ~Named("register") /\ ~Named("login")
  /\ at' = "done"
  /\ UNCHANGED <<phoneVars, wire, buf, served, user1, reply, odd>>

Next ==
  \/ Turn \/ ClickLogin \/ ClickRegister \/ ReadReply \/ Restart
  \/ Receive \/ UserRegister \/ UserLogin \/ UserUnknown \/ NullField \/ Ignore

Spec == Init /\ [][Next]_vars

-----------------------------------------------------------------------------
AsTyped == served.request.kind # "none" /\ ~served.cut /\ ~served.request.commas

(***************************************************************************)
(* A phone whose request arrived in one piece, with no comma in a field,   *)
(* gets the account its user has typed or, at login, the whole account of  *)
(* the user of that name and password, as it was typed when registered:    *)
(* whatever earlier and longer messages have left in the buffer.  Only     *)
(* what the server has made of an odd request may be too long for its      *)
(* answer (widget.cpp, lines 80-218; loginserver.cpp, 83-130; db.cpp,      *)
(* 56-185).                                                                *)
(***************************************************************************)
OwnAccount ==
  account # <<>> /\ AsTyped =>
    LET r == served.request IN
    IF r.kind = "register" THEN account = Account(session)
    ELSE LET row == user1[r.name] IN
         /\ r.pwd = row.pwd
         /\ account = row.account \/ AnswerLength("login ok", row.account) > MSG_BUF_SIZE
         /\ row.typed => \E s \in Typists : account = Account(s)

(* What sprintf makes of a request, as it was typed, does not fit.         *)
TooLong(r) ==
  IF r.kind = "register"
  THEN 43 + Longest(r.name) + Longest(r.pwd) + LongestOf(Account(session)) >= MSG_BUF_SIZE
  ELSE \/ SelectLength(r.name) >= MSG_BUF_SIZE
       \/ AnswerLength("login ok", user1[r.name].account) >= MSG_BUF_SIZE

(***************************************************************************)
(* The text of one request, without quotation marks, crashes the server in *)
(* three ways only: it arrived in pieces or with a comma in a field; it is *)
(* a login under a name that is not in the table, an empty one for         *)
(* instance, of which the phone has warned before it sent it; or the       *)
(* statement or the answer that is made of it is longer than the array it  *)
(* is written to.  A shorter one never does, whatever else is in the       *)
(* buffer (loginserver.cpp, lines 107-122; db.cpp, 64-78, 110-151).        *)
(***************************************************************************)
CrashesInKnownWays ==
  at = "crashed" =>
    \/ ~AsTyped
    \/ served.request.kind = "login" /\ served.request.name \notin DOMAIN user1
    \/ TooLong(served.request)

=============================================================================
