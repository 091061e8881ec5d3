----------------------- MODULE AccountProtocolProofs -----------------------
(***************************************************************************)
(* The theorems of AccountProtocol, for any names and passwords of any     *)
(* length, any size of the buffers, and any number of sessions, requests   *)
(* and odd requests.                                                       *)
(***************************************************************************)
EXTENDS AccountProtocol, SequenceTheorems, TLAPS

-----------------------------------------------------------------------------
(* The inductive invariant.                                                *)

(* The text begins with that of the request, whose last comma is there.    *)
Holds(text, r) ==
  /\ Len(text) >= Len(r.fields) + 2
  /\ text[1] = Word(r.kind)
  /\ \A i \in 1 .. Len(r.fields) : text[i + 1] = r.fields[i]

(* What is on the way begins with the request to be served, and before it  *)
(* is received there is no answer.                                         *)
Sending ==
  /\ at = "idle" => /\ reply = <<>> /\ account = <<>> /\ ~served.cut
                    /\ IF served = NoRequest THEN wire = <<Empty>>
                                             ELSE Holds(wire, served.request)
  /\ at # "idle" => served # NoRequest
  /\ at \notin {"done", "crashed"} => reply = <<>> /\ account = <<>>

(* The fields of a request of the page of its kind.                        *)
FieldsOf(r) == IF r.kind = "login" THEN <<r.name, r.pwd>>
                                   ELSE <<r.name, r.pwd>> \o Account(session)

(* A request without a comma in a field has the fields of its page.        *)
Plain ==
  AsTyped => served.request.fields = FieldsOf(served.request)

(* A request that came in one piece is found in the buffer, which had room *)
(* for it.                                                                 *)
Received ==
  at = "process" /\ AsTyped =>
    Holds(buf, served.request) /\ RequestLength(served.request) <= READ_BUFFER_SIZE

(* There is room for the answers with the account of s.                    *)
Short(s) == 14 + LongestOf(Account(s)) <= MSG_BUF_SIZE

(* A row has an account of three fields, some user's if it is as typed.    *)
Rows ==
  \A n \in DOMAIN user1 :
    /\ Len(user1[n].account) = 3
    /\ user1[n].typed => \E s \in Typists : user1[n].account = Account(s) /\ Short(s)

(* The account a is the one that was asked for, but for one in the table   *)
(* that is too long.                                                       *)
Asked(a) ==
  LET r == served.request IN
  IF r.kind = "register" THEN a = Account(session)
  ELSE /\ r.name \in DOMAIN user1
       /\ r.pwd = user1[r.name].pwd
       /\ a = user1[r.name].account
          \/ AnswerLength("login ok", user1[r.name].account) > MSG_BUF_SIZE

Good == {Word("register ok"), Word("login ok")}

Answered ==
  /\ reply # <<>> /\ reply[1] \in Good => Len(reply) = 4
  /\ AsTyped =>
       /\ reply # <<>> /\ reply[1] \in Good => Asked(Tail(reply))
       /\ account # <<>> => Asked(account)

AccountInv ==
  /\ TypeOK /\ Sending /\ Plain /\ Received /\ Rows /\ Answered
  /\ CrashesInKnownWays

-----------------------------------------------------------------------------
(* Tokens and texts.                                                       *)

LEMMA TokensHeld ==
  /\ Empty \in Tokens /\ Part \in Tokens /\ NoText \in Tokens
  /\ \A w \in Names \cup Pwds \cup Commands \cup {""} : Word(w) \in Tokens
  /\ \A s \in Typists : Text(s, "more") \in Tokens
  /\ \A s \in Typists : Account(s) \in Seq(Tokens) /\ Len(Account(s)) = 3
<1>1. \A s \in Typists : \A f \in {"seradd", "seruser", "serpwd", "more"} : Text(s, f) \in Tokens
  BY DEF Text, Tokens, Parts
<1>2. \A s \in Typists : Account(s) \in Seq(Tokens) /\ Len(Account(s)) = 3
  BY <1>1 DEF Account
<1>3. Empty \in Tokens /\ Part \in Tokens /\ NoText \in Tokens
  BY DEF Tokens
<1>4. \A w \in Names \cup Pwds \cup Commands : Word(w) \in Tokens
  BY DEF Tokens
<1>5. Word("") \in Tokens
  BY <1>3 DEF Word, Empty
<1>. QED
  BY <1>1, <1>2, <1>3, <1>4, <1>5

LEMMA WordsHeld ==
  \A w \in {"register", "login", "register ok", "login ok", "login error"} : Word(w) \in Tokens
BY TokensHeld, Zenon DEF Commands

(* The constants, one by one.                                              *)
LEMMA Bounds == MaxSessions \in Nat \ {0} /\ MaxClicks \in Nat /\ MaxOdd \in Nat
BY AccountAssumption, Zenon

LEMMA Sizes ==
  READ_BUFFER_SIZE \in Nat /\ MSG_BUF_SIZE \in Nat /\ READ_BUFFER_SIZE <= MSG_BUF_SIZE
BY AccountAssumption, Zenon

LEMMA WordLengths ==
  /\ Length["register"] = 8 /\ Length["register ok"] = 11 /\ Length["login ok"] = 8
  /\ Length["register ok"] \in Nat /\ Length["login ok"] \in Nat
<1>1. Length["register"] = 8 /\ Length["register ok"] = 11 /\ Length["login ok"] = 8
  BY AccountAssumption, Zenon
<1>2. 11 \in Nat /\ 8 \in Nat
  OBVIOUS
<1>. QED
  BY <1>1, <1>2, Zenon

(* Lengths are numbers.                                                    *)
LEMMA LongestNat == \A t \in Tokens : Longest(t) \in Nat
<1>. SUFFICES ASSUME NEW t \in Tokens, t # Part PROVE Length[Last(t)] \in Nat
  BY Sizes DEF Longest
<1>. DEFINE D == Names \cup Pwds \cup Commands \cup Parts \cup {"", "(null)"}
<1>1. \A w \in D : Length[w] \in Nat
  <2>1. Length \in [D -> Nat]
    BY AccountAssumption, Zenon
  <2>. HIDE DEF D
  <2>. QED
    BY <2>1
<1>2. Last(t) \in D
  <2>0. \A x, y : Last(<<x>>) = x /\ Last(<<x, y>>) = y
    BY DEF Last
  <2>1. CASE \E w \in Names \cup Pwds \cup Commands : t = Word(w)
    <3>1. PICK w \in Names \cup Pwds \cup Commands : t = <<w>>
      BY <2>1 DEF Word
    <3>. QED
      BY <2>0, <3>1, Zenon
  <2>2. CASE t \in {Empty, NoText}
    <3>1. t = <<"">> \/ t = <<"(null)">>
      BY <2>2 DEF Empty, NoText
    <3>2. Last(t) = "" \/ Last(t) = "(null)"
      BY <2>0, <3>1, Zenon
    <3>. QED
      BY <3>2
  <2>3. CASE t \in Typists \X Parts
    <3>1. PICK x \in Typists, f \in Parts : t = <<x, f>>
      BY <2>3
    <3>2. Last(t) = f
      BY <2>0, <3>1, Zenon
    <3>. QED
      BY <3>2
  <2>. QED
    BY <2>1, <2>2, <2>3 DEF Tokens
<1>. QED
  BY <1>1, <1>2

LEMMA ThreeOf ==
  \A t \in Seq(Tokens) : Len(t) = 3 => t[1] \in Tokens /\ t[2] \in Tokens /\ t[3] \in Tokens
OBVIOUS

LEMMA LongestOfNat ==
  \A t \in Seq(Tokens) : Len(t) = 3 => LongestOf(t) \in Nat
<1>. SUFFICES ASSUME NEW t \in Seq(Tokens), Len(t) = 3 PROVE LongestOf(t) \in Nat
  OBVIOUS
<1>1. t[1] \in Tokens /\ t[2] \in Tokens /\ t[3] \in Tokens
  BY ThreeOf
<1>. QED
  BY <1>1, LongestNat DEF LongestOf

LEMMA AnswerLengthNat ==
  ASSUME NEW w, Length[w] \in Nat, NEW a \in Seq(Tokens), Len(a) = 3
  PROVE  AnswerLength(w, a) \in Nat /\ MSG_BUF_SIZE \in Nat
<1>1. LongestOf(a) \in Nat
  BY LongestOfNat
<1>. QED
  BY <1>1, Sizes DEF AnswerLength

(* The text of a request is its word, its fields and the empty rest.       *)
LEMMA TextShape ==
  ASSUME NEW r \in Requests
  PROVE  /\ TextOf(r) \in Seq(Tokens)
         /\ Len(TextOf(r)) = Len(r.fields) + 2
         /\ TextOf(r)[1] = Word(r.kind)
         /\ \A i \in 1 .. Len(r.fields) : TextOf(r)[i + 1] = r.fields[i]
<1>1. r.fields \in Seq(Tokens) /\ Word(r.kind) \in Tokens /\ Empty \in Tokens
  BY TokensHeld, WordsHeld DEF Requests
<1>. DEFINE s == <<Word(r.kind)>> \o r.fields
<1>3. s \in Seq(Tokens) /\ Len(s) = Len(r.fields) + 1 /\ s[1] = Word(r.kind)
      /\ \A i \in 1 .. Len(r.fields) : s[i + 1] = r.fields[i]
  BY <1>1
<1>. HIDE DEF s
<1>4. /\ s \o <<Empty>> \in Seq(Tokens) /\ Len(s \o <<Empty>>) = Len(s) + 1
      /\ \A i \in 1 .. Len(s) : (s \o <<Empty>>)[i] = s[i]
  BY <1>1, <1>3
<1>5. TextOf(r) = s \o <<Empty>>
  BY DEF TextOf, s
<1>. QED
  BY <1>1, <1>3, <1>4, <1>5

LEMMA Single ==
  ASSUME NEW x \in Tokens
  PROVE  <<x>> \in Seq(Tokens) /\ <<x>> \in Seq(Tokens) \ {<<>>} /\ Len(<<x>>) = 1 /\ <<x>>[1] = x
OBVIOUS

LEMMA Pair ==
  ASSUME NEW x \in Tokens, NEW y \in Tokens
  PROVE  <<x, y>> \in Seq(Tokens) /\ Len(<<x, y>>) = 2 /\ Len(<<x, y>>) >= 2
         /\ <<x, y>>[1] = x /\ <<x, y>>[2] = y
OBVIOUS

LEMMA Triple ==
  ASSUME NEW x \in Tokens, NEW y \in Tokens, NEW z \in Tokens
  PROVE  <<x, y, z>> \in Seq(Tokens) /\ Len(<<x, y, z>>) = 3
OBVIOUS

LEMMA Four ==
  ASSUME NEW w \in Tokens, NEW x \in Tokens, NEW y \in Tokens, NEW z \in Tokens
  PROVE  <<w, x, y, z>> \in Seq(Tokens)
OBVIOUS

LEMMA FourTail ==
  \A w, x, y, z : Len(<<w, x, y, z>>) = 4 /\ Tail(<<w, x, y, z>>) = <<x, y, z>>
OBVIOUS

LEMMA Consed ==
  ASSUME NEW x \in Tokens, NEW t \in Seq(Tokens)
  PROVE  Len(<<x>> \o t) = Len(t) + 1 /\ Tail(<<x>> \o t) = t
<1>. DEFINE u == <<x>> \o t
<1>1. u \in Seq(Tokens) /\ Len(u) = Len(t) + 1 /\ \A i \in 1 .. Len(t) : u[i + 1] = t[i]
  OBVIOUS
<1>. HIDE DEF u
<1>2. Tail(u) \in Seq(Tokens) /\ Len(Tail(u)) = Len(t)
      /\ \A i \in 1 .. Len(t) : Tail(u)[i] = t[i]
  BY <1>1
<1>3. Tail(u) = t
  BY <1>2, SeqEqual
<1>. QED
  BY <1>1, <1>3 DEF u

LEMMA PairBefore ==
  ASSUME NEW x \in Tokens, NEW y \in Tokens, NEW t \in Seq(Tokens)
  PROVE  /\ <<x, y>> \o t \in Seq(Tokens)
         /\ Len(<<x, y>> \o t) = Len(t) + 2 /\ Len(<<x, y>> \o t) >= 2
         /\ (<<x, y>> \o t)[1] = x /\ (<<x, y>> \o t)[2] = y
         /\ \A i \in 1 .. Len(t) : (<<x, y>> \o t)[i + 2] = t[i]
<1>. DEFINE u == <<x, y>>
<1>1. u \in Seq(Tokens) /\ Len(u) = 2 /\ u[1] = x /\ u[2] = y
  BY Pair
<1>. HIDE DEF u
<1>2. /\ u \o t \in Seq(Tokens) /\ Len(u \o t) = Len(u) + Len(t)
      /\ \A i \in 1 .. Len(u) + Len(t) :
           (u \o t)[i] = IF i <= Len(u) THEN u[i] ELSE t[i - Len(u)]
  BY <1>1, ConcatProperties
<1>3. Len(t) \in Nat
  OBVIOUS
<1>4. Len(u \o t) = Len(t) + 2 /\ Len(u \o t) >= 2
  BY <1>1, <1>2, <1>3
<1>5. (u \o t)[1] = x /\ (u \o t)[2] = y
  BY <1>1, <1>2, <1>3
<1>6. \A i \in 1 .. Len(t) : (u \o t)[i + 2] = t[i]
  BY <1>1, <1>2, <1>3
<1>. QED
  BY <1>2, <1>4, <1>5, <1>6 DEF u

(* A registration for which the buffer has room leaves some for answers.   *)
LEMMA RegisterFits ==
  ASSUME NEW s \in Typists, NEW x \in Tokens, NEW y \in Tokens, NEW r,
         r.kind = "register", r.fields = <<x, y>> \o Account(s),
         RequestLength(r) <= READ_BUFFER_SIZE
  PROVE  Short(s)
<1>1. PICK t \in Seq(Tokens) : t = Account(s) /\ Len(t) = 3
  BY TokensHeld
<1>. DEFINE f == <<x, y>> \o t
<1>2. f \in Seq(Tokens) /\ Len(f) = 5 /\ f[1] = x /\ f[2] = y
      /\ f[3] = t[1] /\ f[4] = t[2] /\ f[5] = t[3]
  <2>1. /\ f \in Seq(Tokens) /\ Len(f) = Len(t) + 2 /\ f[1] = x /\ f[2] = y
        /\ \A i \in 1 .. Len(t) : f[i + 2] = t[i]
    BY PairBefore
  <2>2. f[1 + 2] = t[1] /\ f[2 + 2] = t[2] /\ f[3 + 2] = t[3]
    BY <1>1, <2>1
  <2>. QED
    BY <1>1, <2>1, <2>2
<1>3. r.fields = f
  BY <1>1
<1>. HIDE DEF f
<1>4. 1 \in DOMAIN f /\ 2 \in DOMAIN f /\ 3 \in DOMAIN f /\ 4 \in DOMAIN f /\ 5 \in DOMAIN f
      /\ 6 \notin DOMAIN f
  BY <1>2
<1>5. /\ FieldLength(r, 1) = Longest(x) + 1 /\ FieldLength(r, 2) = Longest(y) + 1
      /\ FieldLength(r, 3) = Longest(t[1]) + 1 /\ FieldLength(r, 4) = Longest(t[2]) + 1
      /\ FieldLength(r, 5) = Longest(t[3]) + 1 /\ FieldLength(r, 6) = 0
  BY <1>2, <1>3, <1>4 DEF FieldLength
<1>6. t[1] \in Tokens /\ t[2] \in Tokens /\ t[3] \in Tokens
  <2>1. t \in Seq(Tokens) /\ Len(t) = 3
    BY <1>1
  <2>. QED
    BY <2>1
<1>7. Longest(x) \in Nat /\ Longest(y) \in Nat /\ Longest(t[1]) \in Nat
      /\ Longest(t[2]) \in Nat /\ Longest(t[3]) \in Nat
  BY <1>6, LongestNat
<1>8. LongestOf(Account(s)) = Longest(t[1]) + Longest(t[2]) + Longest(t[3])
  BY <1>1 DEF LongestOf
<1>9. Length[r.kind] = 8
  BY WordLengths
<1>10. RequestLength(r) = 8 + 1 + (Longest(x) + 1) + (Longest(y) + 1) + (Longest(t[1]) + 1)
                            + (Longest(t[2]) + 1) + (Longest(t[3]) + 1) + 0
  BY <1>5, <1>9, Zenon DEF RequestLength
<1>11. ASSUME NEW a \in Nat, NEW b \in Nat, NEW l \in Nat, NEW m \in Nat, NEW n \in Nat,
              8 + 1 + (a + 1) + (b + 1) + (l + 1) + (m + 1) + (n + 1) + 0 <= READ_BUFFER_SIZE
       PROVE  14 + (l + m + n) <= MSG_BUF_SIZE
  <2>1. 14 + (a + b + (l + m + n)) <= READ_BUFFER_SIZE
    BY <1>11, SMT
  <2>2. a + b + (l + m + n) \in Nat /\ a + b + (l + m + n) >= l + m + n
    OBVIOUS
  <2>. QED
    BY <2>1, <2>2, Sizes, SMT
<1>12. 14 + (Longest(t[1]) + Longest(t[2]) + Longest(t[3])) <= MSG_BUF_SIZE
  <2>1. 8 + 1 + (Longest(x) + 1) + (Longest(y) + 1) + (Longest(t[1]) + 1)
          + (Longest(t[2]) + 1) + (Longest(t[3]) + 1) + 0 <= READ_BUFFER_SIZE
    <3>1. RequestLength(r) <= READ_BUFFER_SIZE
      OBVIOUS
    <3>. QED
      BY <1>10, <3>1, Zenon
  <2>. QED
    BY <1>7, <1>11, <2>1, Zenon
<1>. QED
  BY <1>8, <1>12, Zenon DEF Short

(* The answers that go out: four tokens, the whole account if it fits.     *)
LEMMA AnswersShape ==
  ASSUME NEW w, Word(w) \in Tokens, Length[w] \in Nat, NEW a \in Seq(Tokens), Len(a) = 3,
         NEW b \in Answers(w, a)
  PROVE  /\ b \in Seq(Tokens) /\ Len(b) = 4
         /\ AnswerLength(w, a) <= MSG_BUF_SIZE => Tail(b) = a
<1>1. CASE b = <<Word(w)>> \o a
  <2>1. b \in Seq(Tokens)
    BY <1>1
  <2>2. Len(b) = Len(a) + 1 /\ Tail(b) = a
    BY <1>1, Consed
  <2>. QED
    BY <2>1, <2>2
<1>2. CASE /\ AnswerLength(w, a) > MSG_BUF_SIZE
           /\ \E y \in {a[2], Part, Empty}, z \in {Part, Empty} : b = <<Word(w), a[1], y, z>>
  <2>1. PICK y \in {a[2], Part, Empty}, z \in {Part, Empty} : b = <<Word(w), a[1], y, z>>
    BY <1>2
  <2>2. a[1] \in Tokens /\ y \in Tokens /\ z \in Tokens
    <3>1. a[1] \in Tokens /\ a[2] \in Tokens
      BY ThreeOf, Zenon
    <3>2. Part \in Tokens /\ Empty \in Tokens
      BY TokensHeld
    <3>. QED
      BY <3>1, <3>2
  <2>3. b \in Seq(Tokens)
    BY <2>1, <2>2, Four, Zenon
  <2>4. Len(b) = 4
    BY <2>1
  <2>5. AnswerLength(w, a) \in Nat /\ MSG_BUF_SIZE \in Nat
    BY AnswerLengthNat
  <2>6. ~(AnswerLength(w, a) <= MSG_BUF_SIZE)
    BY <1>2, <2>5
  <2>. QED
    BY <2>3, <2>4, <2>6
<1>3. b = <<Word(w)>> \o a
      \/ /\ AnswerLength(w, a) > MSG_BUF_SIZE
         /\ \E y \in {a[2], Part, Empty}, z \in {Part, Empty} : b = <<Word(w), a[1], y, z>>
  BY DEF Answers
<1>. QED
  BY <1>1, <1>2, <1>3

(* What Front leaves of a text, and what is put behind it.                 *)
LEMMA FrontJoined ==
  ASSUME NEW text \in Seq(Tokens) \ {<<>>}, NEW t \in Seq(Tokens) \ {<<>>}
  PROVE  /\ Front(text) \o t \in Seq(Tokens) \ {<<>>}
         /\ Len(Front(text) \o t) = Len(text) - 1 + Len(t)
         /\ \A i \in 1 .. Len(text) - 1 : (Front(text) \o t)[i] = text[i]
         /\ \A i \in 1 .. Len(t) : (Front(text) \o t)[Len(text) - 1 + i] = t[i]
<1>1. Len(text) \in Nat \ {0} /\ Len(t) \in Nat \ {0}
  OBVIOUS
<1>2. /\ Front(text) \in Seq(Tokens) /\ Len(Front(text)) = Len(text) - 1
      /\ \A i \in 1 .. Len(text) - 1 : Front(text)[i] = text[i]
  <2>1. \A i \in 1 .. Len(text) - 1 : text[i] \in Tokens
    BY <1>1
  <2>2. /\ SubSeq(text, 1, Len(text) - 1) \in Seq(Tokens)
        /\ Len(SubSeq(text, 1, Len(text) - 1))
             = IF 1 <= Len(text) - 1 THEN Len(text) - 1 - 1 + 1 ELSE 0
        /\ \A i \in 1 .. Len(text) - 1 - 1 + 1 :
             SubSeq(text, 1, Len(text) - 1)[i] = text[1 + i - 1]
    BY <1>1, <2>1, SubSeqProperties
  <2>3. Front(text) = SubSeq(text, 1, Len(text) - 1)
    BY DEF Front
  <2>. HIDE DEF Front
  <2>4. /\ Front(text) \in Seq(Tokens)
        /\ Len(Front(text)) = IF 1 <= Len(text) - 1 THEN Len(text) - 1 - 1 + 1 ELSE 0
    BY <2>2, <2>3, Zenon
  <2>5. Len(Front(text)) = Len(text) - 1
    <3>1. \A n \in Nat \ {0} : (IF 1 <= n - 1 THEN n - 1 - 1 + 1 ELSE 0) = n - 1
      OBVIOUS
    <3>. QED
      BY <1>1, <2>4, <3>1, Zenon
  <2>6. ASSUME NEW i \in 1 .. Len(text) - 1 PROVE Front(text)[i] = text[i]
    <3>1. i \in 1 .. Len(text) - 1 - 1 + 1 /\ 1 + i - 1 = i
      BY <1>1
    <3>. QED
      BY <2>2, <2>3, <3>1, Zenon
  <2>. QED
    BY <2>4, <2>5, <2>6
<1>3. /\ Front(text) \o t \in Seq(Tokens)
      /\ Len(Front(text) \o t) = Len(Front(text)) + Len(t)
      /\ \A i \in 1 .. Len(Front(text)) + Len(t) :
           (Front(text) \o t)[i] = IF i <= Len(Front(text)) THEN Front(text)[i]
                                                           ELSE t[i - Len(Front(text))]
  BY <1>2, ConcatProperties
<1>. DEFINE s == Front(text) \o t
<1>4. s \in Seq(Tokens) /\ Len(s) = Len(text) - 1 + Len(t) /\ Len(s) # 0
  BY <1>1, <1>2, <1>3
<1>5. \A i \in 1 .. Len(text) - 1 : s[i] = text[i]
  BY <1>1, <1>2, <1>3
<1>6. ASSUME NEW i \in 1 .. Len(t) PROVE s[Len(text) - 1 + i] = t[i]
  <2>1. Len(text) - 1 + i \in 1 .. Len(Front(text)) + Len(t)
    BY <1>1, <1>2
  <2>2. ~(Len(text) - 1 + i <= Len(Front(text))) /\ Len(text) - 1 + i - Len(Front(text)) = i
    BY <1>1, <1>2
  <2>. QED
    BY <1>3, <2>1, <2>2
<1>. QED
  BY <1>4, <1>5, <1>6

(* A text written over another keeps all but its last token.               *)
LEMMA WrittenOver ==
  ASSUME NEW text \in Seq(Tokens) \ {<<>>}, NEW old \in Seq(Tokens) \ {<<>>},
         NEW b \in {text} \cup Over(text, old)
  PROVE  /\ b \in Seq(Tokens) \ {<<>>}
         /\ Len(b) >= Len(text)
         /\ \A i \in 1 .. Len(text) - 1 : b[i] = text[i]
<1>1. CASE b = text
  BY <1>1
<1>2. CASE b \in Over(text, old)
  <2>1. PICK j \in 1 .. Len(old) : \E y \in Glue(Last(text), old[j]) :
          b = Front(text) \o <<y>> \o SubSeq(old, j + 1, Len(old))
    <3>. DEFINE B(j) == {Front(text) \o <<y>> \o SubSeq(old, j + 1, Len(old)) :
                           y \in Glue(Last(text), old[j])}
    <3>0. Over(text, old) = UNION {B(j) : j \in DOMAIN old} /\ DOMAIN old = 1 .. Len(old)
      BY DEF Over
    <3>1. PICK j \in DOMAIN old : b \in B(j)
      BY <1>2, <3>0, Zenon
    <3>2. j \in 1 .. Len(old) 
      BY <3>0
    <3>. QED
      BY <3>1, <3>2, Zenon
  <2>. PICK y \in Glue(Last(text), old[j]) :
         b = Front(text) \o <<y>> \o SubSeq(old, j + 1, Len(old))
    BY <2>1
  <2>2. Len(text) \in Nat \ {0} /\ Len(old) \in Nat /\ Last(text) \in Tokens /\ old[j] \in Tokens
    BY DEF Last
  <2>3. y \in Tokens
    BY <2>2, TokensHeld DEF Glue
  <2>. DEFINE s == Front(text) \o <<y>>
  <2>5. s \in Seq(Tokens) /\ Len(s) = Len(text) /\ \A i \in 1 .. Len(text) - 1 : s[i] = text[i]
    BY <2>2, <2>3, FrontJoined
  <2>6. SubSeq(old, j + 1, Len(old)) \in Seq(Tokens)
    BY <2>2
  <2>. HIDE DEF s
  <2>. DEFINE u == SubSeq(old, j + 1, Len(old))
  <2>8. u \in Seq(Tokens) /\ b = s \o u
    BY <2>1, <2>6 DEF s
  <2>. HIDE DEF u
  <2>9. /\ b \in Seq(Tokens) /\ Len(b) = Len(s) + Len(u)
        /\ \A i \in 1 .. Len(s) + Len(u) : b[i] = IF i <= Len(s) THEN s[i] ELSE u[i - Len(s)]
    <3>0. s \in Seq(Tokens) /\ u \in Seq(Tokens)
      BY <2>5, <2>8
    <3>1. /\ s \o u \in Seq(Tokens) /\ Len(s \o u) = Len(s) + Len(u)
          /\ \A i \in 1 .. Len(s) + Len(u) :
               (s \o u)[i] = IF i <= Len(s) THEN s[i] ELSE u[i - Len(s)]
      BY <3>0, ConcatProperties
    <3>. QED
      BY <2>8, <3>1, Zenon
  <2>10. Len(u) \in Nat
    BY <2>8
  <2>11. Len(b) >= Len(text)
    <3>1. Len(b) = Len(text) + Len(u)
      BY <2>5, <2>9, Zenon
    <3>2. Len(text) \in Nat
      BY <2>2
    <3>3. \A m, n \in Nat : m + n >= m
      OBVIOUS
    <3>. QED
      BY <2>10, <3>1, <3>2, <3>3, Zenon
  <2>12. b # <<>>
    BY <2>2, <2>9, <2>11
  <2>13. ASSUME NEW i \in 1 .. Len(text) - 1 PROVE b[i] = text[i]
    <3>1. i \in 1 .. Len(s) + Len(u) /\ i <= Len(s)
      BY <2>2, <2>5, <2>10
    <3>. QED
      BY <2>5, <2>9, <3>1
  <2>. QED
    BY <2>9, <2>11, <2>12, <2>13
<1>. QED
  BY <1>1, <1>2

(* A text that goes on as another does holds what that one held.           *)
LEMMA HeldOn ==
  ASSUME NEW r \in Requests, NEW text \in Seq(Tokens), Holds(text, r),
         NEW b \in Seq(Tokens), Len(b) >= Len(text),
         \A i \in 1 .. Len(text) - 1 : b[i] = text[i]
  PROVE  Holds(b, r)
<1>1. r.fields \in Seq(Tokens)
  BY DEF Requests
<1>2. PICK n \in Nat : n = Len(r.fields)
  BY <1>1
<1>3. PICK l \in Nat : l = Len(text)
  OBVIOUS
<1>4. l >= n + 2 /\ text[1] = Word(r.kind) /\ \A i \in 1 .. n : text[i + 1] = r.fields[i]
  BY <1>2, <1>3 DEF Holds
<1>5. 1 \in 1 .. l - 1 /\ \A i \in 1 .. n : i + 1 \in 1 .. l - 1
  BY <1>4
<1>6. \A i \in 1 .. l - 1 : b[i] = text[i]
  BY <1>3
<1>7. b[1] = Word(r.kind) /\ \A i \in 1 .. n : b[i + 1] = r.fields[i]
  BY <1>4, <1>5, <1>6
<1>8. Len(b) >= n + 2
  <2>1. PICK k \in Nat : k = Len(b)
    OBVIOUS
  <2>2. k >= l
    BY <1>3, <2>1
  <2>. QED
    BY <1>4, <2>1, <2>2
<1>. QED
  BY <1>2, <1>7, <1>8 DEF Holds

(* What has arrived of a text begins as it does.                           *)
LEMMA ArrivedShape ==
  ASSUME NEW text \in Seq(Tokens) \ {<<>>}, NEW got \in Arrived(text)
  PROVE  /\ got \in Seq(Tokens) \ {<<>>}
         /\ \A i \in 1 .. Len(got) - 1 : got[i] = text[i]
<1>1. PICK l \in Nat : l = Len(text) /\ \A i \in 1 .. l : text[i] \in Tokens
  OBVIOUS
<1>2. ASSUME NEW k \in 0 .. l - 1
      PROVE  /\ SubSeq(text, 1, k) \in Seq(Tokens) /\ Len(SubSeq(text, 1, k)) = k
             /\ \A i \in 1 .. k : SubSeq(text, 1, k)[i] = text[i]
  BY <1>1
<1>3. CASE got = text
  BY <1>3
<1>4. ASSUME NEW k \in 0 .. Len(text) - 2, NEW x \in {Empty, Part},
             got = Append(SubSeq(text, 1, k), x)
      PROVE  got \in Seq(Tokens) \ {<<>>} /\ \A i \in 1 .. Len(got) - 1 : got[i] = text[i]
  <2>1. k \in 0 .. l - 1 /\ k \in Nat
    BY <1>1
  <2>2. PICK u \in Seq(Tokens) : u = SubSeq(text, 1, k) /\ Len(u) = k
                                  /\ \A i \in 1 .. k : u[i] = text[i]
    BY <1>2, <2>1
  <2>3. x \in Tokens /\ got = Append(u, x)
    BY <1>4, <2>2, TokensHeld
  <2>. QED
    BY <2>1, <2>2, <2>3
<1>5. ASSUME NEW k \in 1 .. Len(text) - 1, got = SubSeq(text, 1, k)
      PROVE  got \in Seq(Tokens) \ {<<>>} /\ \A i \in 1 .. Len(got) - 1 : got[i] = text[i]
  <2>1. k \in 0 .. l - 1 /\ k \in Nat \ {0}
    BY <1>1
  <2>2. got \in Seq(Tokens) /\ Len(got) = k /\ \A i \in 1 .. k : got[i] = text[i]
    BY <1>2, <1>5, <2>1
  <2>. QED
    BY <2>1, <2>2
<1>6. \/ got = text
      \/ \E k \in 0 .. Len(text) - 2, x \in {Empty, Part} : got = Append(SubSeq(text, 1, k), x)
      \/ \E k \in 1 .. Len(text) - 1 : got = SubSeq(text, 1, k)
  <2>. DEFINE A == {Append(SubSeq(text, 1, k), x) : k \in 0 .. Len(text) - 2, x \in {Empty, Part}}
              B == {SubSeq(text, 1, k) : k \in 1 .. Len(text) - 1}
  <2>1. got = text \/ got \in A \/ got \in B
    BY DEF Arrived
  <2>2. got \in A => \E k \in 0 .. Len(text) - 2, x \in {Empty, Part} :
                        got = Append(SubSeq(text, 1, k), x)
    BY SMT
  <2>3. got \in B => \E k \in 1 .. Len(text) - 1 : got = SubSeq(text, 1, k)
    BY Zenon
  <2>. HIDE DEF A, B
  <2>. QED
    BY <2>1, <2>2, <2>3
<1>. QED
  BY <1>3, <1>4, <1>5, <1>6

(* A shorter text that has all of the request holds it too.                *)
LEMMA HeldLess ==
  ASSUME NEW r \in Requests, NEW text \in Seq(Tokens), Holds(text, r),
         NEW b \in Seq(Tokens), Len(b) >= Len(r.fields) + 2,
         \A i \in 1 .. Len(b) - 1 : b[i] = text[i]
  PROVE  Holds(b, r)
<1>1. PICK n \in Nat : n = Len(r.fields)
  BY DEF Requests
<1>2. PICK k \in Nat : k = Len(b)
  OBVIOUS
<1>3. 1 \in 1 .. k - 1 /\ \A i \in 1 .. n : i + 1 \in 1 .. k - 1
  BY <1>1, <1>2
<1>4. \A i \in 1 .. k - 1 : b[i] = text[i]
  BY <1>2
<1>5. text[1] = Word(r.kind) /\ \A i \in 1 .. n : text[i + 1] = r.fields[i]
  BY <1>1 DEF Holds
<1>6. b[1] = Word(r.kind) /\ \A i \in 1 .. n : b[i + 1] = r.fields[i]
  BY <1>3, <1>4, <1>5
<1>. QED
  BY <1>1, <1>6 DEF Holds

LEMMA TextHolds ==
  ASSUME NEW r \in Requests
  PROVE  Holds(TextOf(r), r) /\ TextOf(r) \in Seq(Tokens) \ {<<>>}
<1>1. r.fields \in Seq(Tokens)
  BY DEF Requests
<1>2. PICK n \in Nat : n = Len(r.fields)
  BY <1>1
<1>3. Len(TextOf(r)) = n + 2
  BY <1>2, TextShape
<1>4. Len(TextOf(r)) # 0
  BY <1>3
<1>5. TextOf(r) # <<>>
  BY <1>4
<1>6. Len(TextOf(r)) >= n + 2
  BY <1>3
<1>. QED
  BY <1>2, <1>5, <1>6, TextShape DEF Holds

(* What was typed is a request, with the fields of its page unless there   *)
(* is a comma in one of them.                                              *)
LEMMA TypedShape ==
  ASSUME session \in Sessions, NEW kind \in {"register", "login"},
         NEW fields \in Seq(Tokens), Len(fields) >= 2, NEW r \in Typed(kind, fields)
  PROVE  /\ r \in Requests /\ r.kind = kind
         /\ r.name = fields[1] /\ r.pwd = fields[2]
         /\ ~r.commas => r.fields = fields
<1>1. fields[1] \in Tokens /\ fields[2] \in Tokens
  OBVIOUS
<1>2. Text(session, "more") \in Tokens
  BY TokensHeld DEF Typists
<1>3. ASSUME NEW i \in DOMAIN fields
      PROVE  InsertAt(fields, i, Text(session, "more")) \in Seq(Tokens)
  <2>1. i \in 1 .. Len(fields) /\ Len(fields) \in Nat
    BY <1>3
  <2>2. SubSeq(fields, 1, i - 1) \in Seq(Tokens) /\ SubSeq(fields, i, Len(fields)) \in Seq(Tokens)
    BY <2>1
  <2>3. SubSeq(fields, 1, i - 1) \o <<Text(session, "more")>> \in Seq(Tokens)
    BY <1>2, <2>2
  <2>. QED
    BY <2>2, <2>3 DEF InsertAt
<1>4. r = [kind |-> kind, name |-> fields[1], pwd |-> fields[2], fields |-> fields,
           commas |-> FALSE]
      \/ \E i \in DOMAIN fields :
           r = [kind |-> kind, name |-> fields[1], pwd |-> fields[2], commas |-> TRUE,
                fields |-> InsertAt(fields, i, Text(session, "more"))]
  BY DEF Typed
<1>5. CASE r = [kind |-> kind, name |-> fields[1], pwd |-> fields[2], fields |-> fields,
                commas |-> FALSE]
  <2>1. r \in Requests
    BY <1>1, <1>5 DEF Requests
  <2>. QED
    BY <1>5, <2>1
<1>6. ASSUME NEW i \in DOMAIN fields,
             r = [kind |-> kind, name |-> fields[1], pwd |-> fields[2], commas |-> TRUE,
                  fields |-> InsertAt(fields, i, Text(session, "more"))]
      PROVE  r \in Requests /\ r.kind = kind /\ r.name = fields[1] /\ r.pwd = fields[2]
             /\ r.commas
  <2>1. PICK g \in Seq(Tokens) : g = InsertAt(fields, i, Text(session, "more"))
    BY <1>3
  <2>2. r = [kind |-> kind, name |-> fields[1], pwd |-> fields[2], commas |-> TRUE, fields |-> g]
    BY <1>6, <2>1
  <2>3. r \in Requests
    BY <1>1, <2>2 DEF Requests
  <2>. QED
    BY <2>2, <2>3
<1>. QED
  BY <1>4, <1>5, <1>6

LEMMA Clicked ==
  ASSUME TypeOK, ClickLogin \/ ClickRegister
  PROVE  \E r \in Requests : Send(r) /\ (~r.commas => r.fields = FieldsOf(r))
<1>0. session \in Sessions /\ session \in Typists
  BY DEF TypeOK, Typists
<1>1. ASSUME NEW n \in Names \cup {""} PROVE Word(n) \in Tokens
  BY TokensHeld
<1>2. ASSUME NEW p \in Pwds \cup {""} PROVE Word(p) \in Tokens
  BY TokensHeld
<1>3. ASSUME NEW x \in Tokens, NEW y \in Tokens, NEW r \in Typed("login", <<x, y>>), Send(r)
      PROVE  \E q \in Requests : Send(q) /\ (~q.commas => q.fields = FieldsOf(q))
  <2>. DEFINE s == <<x, y>>
  <2>1. s \in Seq(Tokens) /\ Len(s) >= 2 /\ s[1] = x /\ s[2] = y
    BY Pair
  <2>. HIDE DEF s
  <2>2. r \in Requests /\ r.kind = "login" /\ r.name = x /\ r.pwd = y
        /\ (~r.commas => r.fields = s)
    <3>1. r \in Typed("login", s) /\ "login" \in {"register", "login"}
      BY DEF s
    <3>2. r \in Requests /\ r.kind = "login" /\ r.name = s[1] /\ r.pwd = s[2]
          /\ (~r.commas => r.fields = s)
      BY <1>0, <2>1, <3>1, TypedShape
    <3>. QED
      BY <2>1, <3>2
  <2>. QED
    BY <1>3, <2>2 DEF FieldsOf, s
<1>4. ASSUME NEW x \in Tokens, NEW y \in Tokens,
             NEW r \in Typed("register", <<x, y>> \o Account(session)), Send(r)
      PROVE  \E q \in Requests : Send(q) /\ (~q.commas => q.fields = FieldsOf(q))
  <2>. DEFINE s == <<x, y>> \o Account(session)
  <2>1. s \in Seq(Tokens) /\ Len(s) >= 2 /\ s[1] = x /\ s[2] = y
    <3>1. Account(session) \in Seq(Tokens)
      BY <1>0, TokensHeld
    <3>2. PICK t \in Seq(Tokens) : t = Account(session)
      BY <3>1
    <3>3. /\ <<x, y>> \o t \in Seq(Tokens) /\ Len(<<x, y>> \o t) >= 2
          /\ (<<x, y>> \o t)[1] = x /\ (<<x, y>> \o t)[2] = y
      BY PairBefore
    <3>. QED
      BY <3>2, <3>3, Zenon
  <2>. HIDE DEF s
  <2>2. r \in Requests /\ r.kind = "register" /\ r.name = x /\ r.pwd = y
        /\ (~r.commas => r.fields = s)
    <3>1. r \in Typed("register", s) /\ "register" \in {"register", "login"}
      BY DEF s
    <3>2. r \in Requests /\ r.kind = "register" /\ r.name = s[1] /\ r.pwd = s[2]
          /\ (~r.commas => r.fields = s)
      BY <1>0, <2>1, <3>1, TypedShape
    <3>. QED
      BY <2>1, <3>2
  <2>. QED
    BY <1>4, <2>2 DEF FieldsOf, s
<1>. QED
  BY <1>1, <1>2, <1>3, <1>4 DEF ClickLogin, ClickRegister

-----------------------------------------------------------------------------
(* What the server finds in its buffer.                                    *)

LEMMA FieldTokens ==
  ASSUME TypeOK, NEW i \in Nat \ {0}
  PROVE  Field(i) \in Tokens
<1>1. buf \in Seq(Tokens) /\ NoText \in Tokens
  BY TokensHeld DEF TypeOK
<1>. QED
  BY <1>1 DEF Field

LEMMA CommandsDiffer ==
  \A v, w \in {"register", "login", "register ok", "login ok", "login error"} :
    Word(v) = Word(w) => v = w
BY DEF Word

LEMMA FieldsFound ==
  ASSUME TypeOK, Plain, Received, at = "process", AsTyped
  PROVE  LET r == served.request IN
         /\ r \in Requests /\ buf[1] = Word(r.kind) /\ Len(buf) > 2
         /\ Field(2) = r.name /\ Field(3) = r.pwd
         /\ r.kind = "register" => <<Field(4), Field(5), Field(6)>> = Account(session)
<1>. DEFINE r == served.request
<1>1. r \in Requests
  BY DEF TypeOK, NoRequest, AsTyped
<1>2. r.fields \in Seq(Tokens) /\ r.name \in Tokens /\ r.pwd \in Tokens
      /\ r.kind \in {"register", "login"}
  BY <1>1 DEF Requests
<1>3. Holds(buf, r) /\ r.fields = FieldsOf(r)
  BY DEF Plain, Received
<1>. HIDE DEF r
<1>4. PICK n \in Nat : n = Len(r.fields)
  BY <1>2
<1>5. PICK l \in Nat : l = Len(buf)
  BY DEF TypeOK
<1>6. l >= n + 2 /\ buf[1] = Word(r.kind) /\ \A i \in 1 .. n : buf[i + 1] = r.fields[i]
  BY <1>3, <1>4, <1>5 DEF Holds
<1>7. \A i \in 1 .. n : Field(i + 1) = r.fields[i]
  BY <1>5, <1>6 DEF Field
<1>8. CASE r.kind = "login"
  <2>1. r.fields = <<r.name, r.pwd>>
    BY <1>3, <1>8 DEF FieldsOf
  <2>2. n = 2 /\ r.fields[1] = r.name /\ r.fields[2] = r.pwd
    BY <1>2, <1>4, <2>1, Pair
  <2>3. Field(1 + 1) = r.name /\ Field(2 + 1) = r.pwd
    BY <1>7, <2>2
  <2>4. Field(2) = r.name /\ Field(3) = r.pwd /\ l > 2
    BY <1>6, <2>2, <2>3
  <2>. QED
    BY <1>1, <1>5, <1>6, <1>8, <2>4 DEF r
<1>9. CASE r.kind = "register"
  <2>1. session \in Typists
    BY DEF TypeOK, Typists
  <2>2. PICK t \in Seq(Tokens) : t = Account(session) /\ Len(t) = 3
    BY <2>1, TokensHeld
  <2>3. r.fields = <<r.name, r.pwd>> \o t
    BY <1>3, <1>9, <2>2 DEF FieldsOf
  <2>4. /\ Len(<<r.name, r.pwd>> \o t) = Len(t) + 2
        /\ (<<r.name, r.pwd>> \o t)[1] = r.name /\ (<<r.name, r.pwd>> \o t)[2] = r.pwd
        /\ \A i \in 1 .. Len(t) : (<<r.name, r.pwd>> \o t)[i + 2] = t[i]
    BY <1>2, PairBefore
  <2>5. n = 5 /\ r.fields[1] = r.name /\ r.fields[2] = r.pwd
        /\ \A i \in 1 .. 3 : r.fields[i + 2] = t[i]
    BY <1>4, <2>2, <2>3, <2>4
  <2>6. Field(1 + 1) = r.name /\ Field(2 + 1) = r.pwd /\ Field(3 + 1) = r.fields[3]
        /\ Field(4 + 1) = r.fields[4] /\ Field(5 + 1) = r.fields[5]
    BY <1>7, <2>5
  <2>7. r.fields[3] = t[1] /\ r.fields[4] = t[2] /\ r.fields[5] = t[3]
    BY <2>5
  <2>8. Field(2) = r.name /\ Field(3) = r.pwd /\ l > 2
    BY <1>6, <2>5, <2>6
  <2>9. Field(4) = t[1] /\ Field(5) = t[2] /\ Field(6) = t[3]
    BY <2>6, <2>7
  <2>10. <<t[1], t[2], t[3]>> = Account(session)
    BY <2>2 DEF Account
  <2>11. <<Field(4), Field(5), Field(6)>> = Account(session)
    BY <2>9, <2>10
  <2>. QED
    BY <1>1, <1>5, <1>6, <2>8, <2>11 DEF r
<1>. QED
  BY <1>2, <1>8, <1>9

LEMMA AnswerFits ==
  ASSUME NEW s \in Typists, Short(s)
  PROVE  /\ AnswerLength("register ok", Account(s)) <= MSG_BUF_SIZE
         /\ AnswerLength("login ok", Account(s)) <= MSG_BUF_SIZE
         /\ ~(AnswerLength("login ok", Account(s)) > MSG_BUF_SIZE)
<1>1. PICK l \in Nat : l = LongestOf(Account(s))
  BY TokensHeld, LongestOfNat
<1>2. 14 + l <= MSG_BUF_SIZE
  BY <1>1 DEF Short
<1>3. AnswerLength("register ok", Account(s)) = 11 + 3 + l
      /\ AnswerLength("login ok", Account(s)) = 8 + 3 + l
  <2>1. \A w : AnswerLength(w, Account(s)) = Length[w] + 3 + l
    BY <1>1 DEF AnswerLength
  <2>. QED
    BY <2>1, WordLengths
<1>4. 11 + 3 + l <= MSG_BUF_SIZE /\ 8 + 3 + l <= MSG_BUF_SIZE /\ ~(8 + 3 + l > MSG_BUF_SIZE)
  BY <1>2, Sizes
<1>. QED
  BY <1>3, <1>4, Zenon

LEMMA ServedShort ==
  ASSUME TypeOK, Plain, Received, at = "process", AsTyped, served.request.kind = "register"
  PROVE  Short(session)
<1>1. PICK r \in Requests : r = served.request
  BY DEF TypeOK, NoRequest, AsTyped
<1>2. r.kind = "register" /\ r.name \in Tokens /\ r.pwd \in Tokens
      /\ RequestLength(r) <= READ_BUFFER_SIZE
  BY <1>1 DEF Received, Requests
<1>3. r.fields = <<r.name, r.pwd>> \o Account(session)
  BY <1>1, <1>2 DEF Plain, FieldsOf
<1>4. session \in Typists
  BY DEF TypeOK, Typists
<1>. QED
  BY <1>2, <1>3, <1>4, RegisterFits

-----------------------------------------------------------------------------
(* One lemma for each conjunct: every step keeps it.                       *)

LEMMA Initial == Init => AccountInv
<1>. SUFFICES ASSUME Init PROVE AccountInv
  OBVIOUS
<1>. USE DEF Init
<1>0. PICK known \in SUBSET Names : \E pwd \in [known -> Pwds] :
        /\ \A n \in known : RegisteredAs(n, pwd[n])
        /\ user1 = [w \in {Word(n) : n \in known} |->
                  [pwd |-> Word(pwd[w[1]]), account |-> Account(w[1]), typed |-> TRUE]]
  OBVIOUS
<1>1. PICK pwd \in [known -> Pwds] :
        /\ \A n \in known : RegisteredAs(n, pwd[n])
        /\ user1 = [w \in {Word(n) : n \in known} |->
                  [pwd |-> Word(pwd[w[1]]), account |-> Account(w[1]), typed |-> TRUE]]
  BY <1>0
<1>2. ASSUME NEW w \in DOMAIN user1
      PROVE  \E n \in Names : w = Word(n) /\ user1[w].account = Account(n) /\ Short(n)
  <2>1. PICK n \in known : w = Word(n)
    BY <1>1
  <2>2. w[1] = n
    BY <2>1 DEF Word
  <2>3. n \in Typists /\ Word(n) \in Tokens /\ Word(pwd[n]) \in Tokens
    BY TokensHeld DEF Typists
  <2>. DEFINE r == [kind |-> "register", fields |-> <<Word(n), Word(pwd[n])>> \o Account(n)]
  <2>4. /\ r.kind = "register" /\ r.fields = <<Word(n), Word(pwd[n])>> \o Account(n)
        /\ RequestLength(r) <= READ_BUFFER_SIZE
    BY <1>1 DEF RegisteredAs
  <2>. HIDE DEF r
  <2>5. Short(n)
    BY <2>3, <2>4, RegisterFits
  <2>. QED
    BY <1>1, <2>1, <2>2, <2>5
<1>3. \A n \in Names : n \in Typists
  BY DEF Typists
<1>4. \A n \in Names : Word(n) \in Tokens
  BY TokensHeld
<1>5. Rows
  BY <1>2, <1>3, TokensHeld DEF Rows
<1>6. \A n \in DOMAIN user1 : n \in Tokens /\ user1[n].account \in Seq(Tokens)
  BY <1>2, <1>3, <1>4, TokensHeld
<1>7. <<Empty>> \in Seq(Tokens) \ {<<>>}
  BY TokensHeld, Single
<1>8. session \in Sessions /\ clicks \in 0 .. MaxClicks /\ odd \in 0 .. MaxOdd
  BY Bounds DEF Sessions
<1>9. reply \in Seq(Tokens) /\ account \in Seq(Tokens) /\ Len(account) \in {0, 3}
  OBVIOUS
<1>10. TypeOK
  BY <1>6, <1>7, <1>8, <1>9 DEF TypeOK
<1>11. ~AsTyped /\ ~served.cut
  BY DEF AsTyped, NoRequest
<1>. QED
  BY <1>5, <1>10, <1>11 DEF AccountInv, Sending, Plain, Received, Answered, CrashesInKnownWays

(* The insertion of a row under a name that may be taken.                  *)
LEMMA Inserted ==
  ASSUME NEW name, NEW row, Insert(name, row)
  PROVE  /\ DOMAIN user1' = DOMAIN user1 \cup {name}
         /\ \A n \in DOMAIN user1 : user1'[n] = user1[n]
         /\ name \notin DOMAIN user1 => user1'[name] = row
BY DEF Insert

(* Text that is received begins as the text on the way does.               *)
LEMMA ReceivedAll ==
  ASSUME TypeOK, Sending, Receive, ReceiveAll
  PROVE  /\ buf' \in Seq(Tokens) \ {<<>>} /\ Holds(buf', served.request)
         /\ RequestLength(served.request) <= READ_BUFFER_SIZE
<1>1. served.request \in Requests /\ Holds(wire, served.request)
  BY DEF Receive, Sending, TypeOK, NoRequest
<1>2. wire \in Seq(Tokens) \ {<<>>} /\ buf \in Seq(Tokens) \ {<<>>}
  BY DEF TypeOK
<1>3. PICK got \in Arrived(wire) :
        Len(got) >= Len(TextOf(served.request)) /\ buf' \in {got} \cup Over(got, buf)
  BY DEF ReceiveAll
<1>4. got \in Seq(Tokens) \ {<<>>} /\ \A i \in 1 .. Len(got) - 1 : got[i] = wire[i]
  BY <1>2, ArrivedShape
<1>5. Len(got) >= Len(served.request.fields) + 2
  <2>1. Len(TextOf(served.request)) = Len(served.request.fields) + 2
    BY <1>1, TextShape
  <2>. QED
    BY <1>3, <2>1
<1>6. Holds(got, served.request)
  BY <1>1, <1>2, <1>4, <1>5, HeldLess
<1>7. PICK b \in {got} \cup Over(got, buf) : b = buf'
  BY <1>3
<1>8. /\ b \in Seq(Tokens) \ {<<>>} /\ Len(b) >= Len(got)
      /\ \A i \in 1 .. Len(got) - 1 : b[i] = got[i]
  BY <1>2, <1>4, WrittenOver
<1>9. Holds(b, served.request)
  BY <1>1, <1>4, <1>6, <1>8, HeldOn
<1>. QED
  BY <1>7, <1>8, <1>9 DEF ReceiveAll

LEMMA ReceivedPart ==
  ASSUME TypeOK, ReceivePart
  PROVE  buf' \in Seq(Tokens) \ {<<>>}
<1>1. wire \in Seq(Tokens) \ {<<>>} /\ buf \in Seq(Tokens) \ {<<>>}
  BY DEF TypeOK
<1>2. PICK got \in Arrived(wire) : buf' \in {got} \cup Over(got, buf)
  BY DEF ReceivePart
<1>3. got \in Seq(Tokens) \ {<<>>}
  BY <1>1, ArrivedShape
<1>4. PICK b \in {got} \cup Over(got, buf) : b = buf'
  BY <1>2
<1>5. b \in Seq(Tokens) \ {<<>>}
  BY <1>1, <1>3, WrittenOver
<1>. QED
  BY <1>4, <1>5

(* What Send does to the text.                                             *)
LEMMA SentOn ==
  ASSUME TypeOK, Sending, NEW r \in Requests, Send(r)
  PROVE  /\ wire' \in Seq(Tokens) \ {<<>>}
         /\ served' \in [request : Requests, cut : BOOLEAN]
         /\ Holds(wire', served'.request) /\ ~served'.cut
<1>1. at = "idle" /\ wire' = Front(wire) \o TextOf(r)
  BY DEF Send
<1>. DEFINE t == TextOf(r)
<1>2. Holds(t, r) /\ t \in Seq(Tokens) \ {<<>>}
  BY TextHolds
<1>3. wire \in Seq(Tokens) \ {<<>>}
  BY DEF TypeOK
<1>. HIDE DEF t
<1>4. PICK b \in Seq(Tokens) \ {<<>>} : b = Front(wire) \o t
  BY <1>2, <1>3, FrontJoined
<1>5. /\ Len(b) = Len(wire) - 1 + Len(t)
      /\ \A i \in 1 .. Len(wire) - 1 : b[i] = wire[i]
      /\ \A i \in 1 .. Len(t) : b[Len(wire) - 1 + i] = t[i]
  BY <1>2, <1>3, <1>4, FrontJoined
<1>6. wire' = b
  BY <1>1, <1>4 DEF t
<1>7. PICK m \in Nat : m = Len(t)
  BY <1>2
<1>8. m >= 1
  BY <1>2, <1>7
<1>9. CASE served = NoRequest
  <2>1. served' = [request |-> r, cut |-> FALSE]
    BY <1>9 DEF Send
  <2>2. wire = <<Empty>>
    BY <1>1, <1>9 DEF Sending
  <2>3. Len(wire) = 1
    BY <2>2, TokensHeld, Single
  <2>4. Len(b) = m
    BY <1>5, <1>7, <2>3
  <2>5. ASSUME NEW i \in 1 .. m PROVE b[i] = t[i]
    <3>1. i \in 1 .. Len(t) /\ Len(wire) - 1 + i = i
      BY <1>7, <2>3, <2>5
    <3>. QED
      BY <1>5, <3>1
  <2>6. Len(b) >= Len(t) /\ \A i \in 1 .. Len(t) - 1 : b[i] = t[i]
    BY <1>7, <2>4, <2>5
  <2>7. Holds(b, r)
    BY <1>2, <2>6, HeldOn
  <2>. QED
    BY <1>4, <1>6, <2>1, <2>7
<1>10. CASE served # NoRequest
  <2>1. served' = served /\ Holds(wire, served.request) /\ ~served.cut
    BY <1>1, <1>10 DEF Send, Sending
  <2>2. served.request \in Requests /\ served \in [request : Requests, cut : BOOLEAN]
    BY <1>10 DEF TypeOK
  <2>3. PICK l \in Nat : l = Len(wire)
    BY <1>3
  <2>4. l >= 1
    BY <1>3, <2>3
  <2>5. Len(b) >= Len(wire)
    BY <1>5, <1>7, <1>8, <2>3, <2>4
  <2>6. Holds(b, served.request)
    BY <1>3, <1>5, <2>1, <2>2, <2>5, HeldOn
  <2>. QED
    BY <1>4, <1>6, <2>1, <2>2, <2>6
<1>. QED
  BY <1>9, <1>10

LEMMA TypesStep == AccountInv /\ [Next]_vars => TypeOK'
<1>. SUFFICES ASSUME AccountInv, [Next]_vars PROVE TypeOK'
  OBVIOUS
<1>0. TypeOK /\ Sending /\ Rows /\ Answered
  BY DEF AccountInv
<1>. USE DEF TypeOK
<1>1. CASE Turn
  BY <1>0, <1>1 DEF Turn
<1>2. CASE ClickLogin \/ ClickRegister
  <2>1. PICK r \in Requests : Send(r)
    BY <1>0, <1>2, Clicked
  <2>2. clicks' \in 0 .. MaxClicks /\ odd' \in 0 .. MaxOdd
    BY <1>0, <2>1, Bounds DEF Send
  <2>3. wire' \in Seq(Tokens) \ {<<>>} /\ served' \in [request : Requests, cut : BOOLEAN]
    BY <1>0, <2>1, SentOn
  <2>4. UNCHANGED <<session, page, account, buf, at, user1, reply>>
    BY <2>1 DEF Send
  <2>. QED
    BY <1>0, <2>2, <2>3, <2>4
<1>3. CASE ReadReply
  <2>1. reply' = <<>> /\ UNCHANGED <<session, clicks, wire, buf, served, at, user1, odd>>
    BY <1>3 DEF ReadReply
  <2>2. page' \in {"page_1", "registerpage", "page2"}
    BY <1>0, <1>3 DEF ReadReply
  <2>3. account' \in Seq(Tokens) /\ Len(account') \in {0, 3}
    <3>1. CASE reply[1] \in Good
      <4>1. account' = Tail(reply) /\ reply # <<>> /\ Len(reply) = 4
        BY <1>0, <1>3, <3>1 DEF ReadReply, Good, Answered
      <4>2. Tail(reply) \in Seq(Tokens) /\ Len(Tail(reply)) = 3
        BY <1>0, <4>1
      <4>. QED
        BY <4>1, <4>2
    <3>2. CASE reply[1] \notin Good
      BY <1>0, <1>3, <3>2 DEF ReadReply, Good
    <3>. QED
      BY <3>1, <3>2
  <2>4. reply' \in Seq(Tokens)
    BY <2>1
  <2>. QED
    BY <1>0, <2>1, <2>2, <2>3, <2>4
<1>4. CASE Restart
  <2>1. session' \in Sessions
    BY <1>0, <1>4, Bounds DEF Restart, Sessions
  <2>2. wire' \in Seq(Tokens) \ {<<>>}
    BY <1>4, TokensHeld, Single DEF Restart
  <2>3. reply' \in Seq(Tokens) /\ account' \in Seq(Tokens) /\ Len(account') \in {0, 3}
    BY <1>4 DEF Restart
  <2>. QED
    BY <1>0, <1>4, <2>1, <2>2, <2>3 DEF Restart
<1>5. CASE Receive
  <2>1. wire' \in Seq(Tokens) \ {<<>>}
    BY <1>5, TokensHeld, Single DEF Receive
  <2>2. at' = "process" /\ UNCHANGED <<phoneVars, user1, reply>>
    BY <1>5 DEF Receive
  <2>3. CASE ReceiveAll
    <3>1. buf' \in Seq(Tokens) \ {<<>>}
      BY <1>0, <1>5, <2>3, ReceivedAll
    <3>. QED
      BY <1>0, <2>1, <2>2, <2>3, <3>1 DEF phoneVars, ReceiveAll
  <2>4. CASE ReceivePart
    <3>1. buf' \in Seq(Tokens) \ {<<>>}
      BY <1>0, <1>5, <2>4, ReceivedPart
    <3>2. odd' \in 0 .. MaxOdd
      <4>1. odd \in 0 .. MaxOdd /\ MaxOdd \in Nat
        BY <1>0, AccountAssumption
      <4>2. odd < MaxOdd /\ odd' = odd + 1
        BY <2>4 DEF ReceivePart
      <4>. QED
        BY <4>1, <4>2
    <3>3. served' \in [request : Requests, cut : BOOLEAN]
      <4>1. served \in [request : Requests, cut : BOOLEAN] /\ served' = [served EXCEPT !.cut = TRUE]
        BY <1>0, <1>5, <2>4 DEF Receive, ReceivePart
      <4>. QED
        BY <4>1
    <3>. QED
      BY <1>0, <2>1, <2>2, <3>1, <3>2, <3>3 DEF phoneVars
  <2>. QED
    BY <1>5, <2>3, <2>4 DEF Receive
<1>6. CASE UserRegister
  <2>1. Field(2) \in Tokens /\ Field(3) \in Tokens /\ Field(4) \in Tokens
        /\ Field(5) \in Tokens /\ Field(6) \in Tokens
    BY <1>0, FieldTokens
  <2>2. <<Field(4), Field(5), Field(6)>> \in Seq(Tokens)
    BY <2>1
  <2>3. Insert(Field(2), NewRow) /\ NewRow.account = <<Field(4), Field(5), Field(6)>>
    BY <1>6 DEF UserRegister, NewRow
  <2>4. \A n \in DOMAIN user1' : n \in Tokens /\ user1'[n].account \in Seq(Tokens)
    <3>1. PICK row : row = NewRow /\ row.account \in Seq(Tokens)
      BY <2>2, <2>3
    <3>2. /\ DOMAIN user1' = DOMAIN user1 \cup {Field(2)}
          /\ \A n \in DOMAIN user1 : user1'[n] = user1[n]
          /\ Field(2) \notin DOMAIN user1 => user1'[Field(2)] = row
      BY <2>3, <3>1, Inserted
    <3>. QED
      BY <1>0, <2>1, <3>1, <3>2
  <2>5. Word("register ok") \in Tokens /\ Length["register ok"] \in Nat
    BY WordsHeld, WordLengths, Zenon
  <2>6. reply' \in Seq(Tokens)
    <3>1. PICK a : a = NewRow.account
      OBVIOUS
    <3>2. a \in Seq(Tokens) /\ Len(a) = 3
      BY <2>2, <2>3, <3>1
    <3>3. reply' \in Answers("register ok", a) \cup {reply}
      BY <1>6, <3>1 DEF UserRegister, Ends
    <3>4. CASE reply' \in Answers("register ok", a)
      BY <2>5, <3>2, <3>4, AnswersShape
    <3>. QED
      BY <1>0, <3>3, <3>4
  <2>7. at' \in {"done", "crashed"} /\ UNCHANGED <<phoneVars, wire, buf, served, odd>>
    BY <1>6 DEF UserRegister, Ends
  <2>. QED
    BY <1>0, <2>4, <2>6, <2>7 DEF phoneVars
<1>7. CASE UserLogin
  <2>1. Word("login ok") \in Tokens /\ Word("login error") \in Tokens /\ Length["login ok"] \in Nat
    <3>1. "login ok" \in Commands /\ "login error" \in Commands
      BY DEF Commands
    <3>. QED
      BY <3>1, TokensHeld, WordLengths
  <2>2. PICK a : a = user1[Field(2)].account
    OBVIOUS
  <2>3. a \in Seq(Tokens) /\ Len(a) = 3
    BY <1>0, <1>7, <2>2 DEF UserLogin, Rows
  <2>. DEFINE error == <<Word("login error")>>
  <2>4. error \in Seq(Tokens)
    BY <2>1, Single, Zenon
  <2>5. reply' \in Answers("login ok", a) \/ reply' = error \/ reply' = reply
    BY <1>7, <2>2 DEF UserLogin, Ends
  <2>. HIDE DEF error
  <2>6. ASSUME reply' \in Answers("login ok", a) PROVE reply' \in Seq(Tokens)
    BY <2>1, <2>3, <2>6, AnswersShape
  <2>7. reply' \in Seq(Tokens)
    BY <1>0, <2>4, <2>5, <2>6
  <2>8. at' \in {"done", "crashed"} /\ UNCHANGED <<phoneVars, wire, buf, served, user1, odd>>
    BY <1>7 DEF UserLogin, Ends
  <2>. QED
    BY <1>0, <2>7, <2>8 DEF phoneVars
<1>8. CASE UserUnknown
  <2>1. reply' \in Seq(Tokens)
    <3>1. reply' = reply \/ reply' = <<Word("login error")>>
      BY <1>8 DEF UserUnknown
    <3>2. Word("login error") \in Tokens
      BY WordsHeld
    <3>3. <<Word("login error")>> \in Seq(Tokens)
      BY <3>2, Single, Zenon
    <3>. QED
      BY <1>0, <3>1, <3>3
  <2>2. at' \in {"done", "crashed"} /\ UNCHANGED <<phoneVars, wire, buf, served, user1, odd>>
    BY <1>8 DEF UserUnknown
  <2>. QED
    BY <1>0, <2>1, <2>2 DEF phoneVars
<1>9. CASE NullField \/ Ignore
  BY <1>0, <1>9 DEF NullField, Ignore, phoneVars
<1>10. CASE UNCHANGED vars
  BY <1>0, <1>10 DEF vars, phoneVars
<1>. QED
  BY <1>1, <1>2, <1>3, <1>4, <1>5, <1>6, <1>7, <1>8, <1>9, <1>10 DEF Next

LEMMA SendingStep == AccountInv /\ [Next]_vars => Sending'
<1>. SUFFICES ASSUME AccountInv, [Next]_vars PROVE Sending'
  OBVIOUS
<1>0. TypeOK /\ Sending
  BY DEF AccountInv
<1>1. CASE ClickLogin \/ ClickRegister
  <2>1. PICK r \in Requests : Send(r)
    BY <1>0, <1>1, Clicked
  <2>2. served' # NoRequest
    BY <2>1 DEF Send, NoRequest, Requests
  <2>3. Holds(wire', served'.request) /\ ~served'.cut
    BY <1>0, <2>1, SentOn
  <2>4. at = "idle" /\ UNCHANGED <<at, reply, account>>
    BY <2>1 DEF Send
  <2>. QED
    BY <1>0, <2>2, <2>3, <2>4 DEF Sending
<1>2. CASE Turn
  BY <1>0, <1>2 DEF Turn, Sending
<1>3. CASE ReadReply
  BY <1>0, <1>3 DEF ReadReply, Sending
<1>4. CASE Restart
  BY <1>4 DEF Restart, Sending, NoRequest
<1>5. CASE Receive
  <2>1. served' # NoRequest
    BY <1>0, <1>5 DEF Receive, ReceiveAll, ReceivePart, NoRequest, TypeOK, Requests
  <2>. QED
    BY <1>0, <1>5, <2>1 DEF Receive, Sending, phoneVars
<1>6. CASE UserRegister \/ UserLogin \/ UserUnknown \/ NullField \/ Ignore
  <2>1. at = "process" /\ at' \in {"done", "crashed"} /\ UNCHANGED served
    BY <1>6 DEF UserRegister, UserLogin, UserUnknown, NullField, Ignore, Named, Ends
  <2>. QED
    BY <1>0, <2>1 DEF Sending
<1>7. CASE UNCHANGED vars
  BY <1>0, <1>7 DEF vars, phoneVars, Sending
<1>. QED
  BY <1>1, <1>2, <1>3, <1>4, <1>5, <1>6, <1>7 DEF Next

LEMMA PlainStep == AccountInv /\ [Next]_vars => Plain'
<1>. SUFFICES ASSUME AccountInv, [Next]_vars PROVE Plain'
  OBVIOUS
<1>0. TypeOK /\ Sending /\ Plain
  BY DEF AccountInv
<1>1. CASE ClickLogin \/ ClickRegister
  <2>1. PICK r \in Requests : Send(r) /\ (~r.commas => r.fields = FieldsOf(r))
    BY <1>0, <1>1, Clicked
  <2>2. UNCHANGED session
    BY <2>1 DEF Send
  <2>3. CASE served = NoRequest
    <3>1. served' = [request |-> r, cut |-> FALSE]
      BY <2>1, <2>3 DEF Send
    <3>2. served'.request = r
      BY <3>1
    <3>. QED
      BY <2>1, <2>2, <3>2 DEF Plain, AsTyped, FieldsOf
  <2>4. CASE served # NoRequest
    <3>1. served' = served
      BY <2>1, <2>4 DEF Send
    <3>. QED
      BY <1>0, <2>2, <3>1 DEF Plain, AsTyped, FieldsOf
  <2>. QED
    BY <2>3, <2>4
<1>2. CASE Restart
  BY <1>2 DEF Restart, Plain, AsTyped, NoRequest
<1>3. CASE Receive
  <2>1. UNCHANGED session
    BY <1>3 DEF Receive, phoneVars
  <2>2. CASE ReceiveAll
    BY <1>0, <2>1, <2>2 DEF ReceiveAll, Plain, AsTyped, FieldsOf
  <2>3. CASE ReceivePart
    <3>1. served'.cut
      BY <1>0, <1>3, <2>3 DEF Receive, ReceivePart, TypeOK
    <3>. QED
      BY <3>1 DEF Plain, AsTyped
  <2>. QED
    BY <1>3, <2>2, <2>3 DEF Receive
<1>4. CASE Turn \/ ReadReply \/ UserRegister \/ UserLogin \/ UserUnknown \/ NullField \/ Ignore
  <2>1. UNCHANGED <<session, served>>
    BY <1>4 DEF Turn, ReadReply, UserRegister, UserLogin, UserUnknown, NullField, Ignore, phoneVars
  <2>. QED
    BY <1>0, <2>1 DEF Plain, AsTyped, FieldsOf
<1>5. CASE UNCHANGED vars
  BY <1>0, <1>5 DEF vars, phoneVars, Plain, AsTyped, FieldsOf
<1>. QED
  BY <1>1, <1>2, <1>3, <1>4, <1>5 DEF Next

LEMMA ReceivedStep == AccountInv /\ [Next]_vars => Received'
<1>. SUFFICES ASSUME AccountInv, [Next]_vars PROVE Received'
  OBVIOUS
<1>0. TypeOK /\ Sending /\ Received
  BY DEF AccountInv
<1>1. CASE ClickLogin \/ ClickRegister
  <2>1. PICK r \in Requests : Send(r)
    BY <1>0, <1>1, Clicked
  <2>2. at' = "idle"
    BY <2>1 DEF Send
  <2>. QED
    BY <2>2 DEF Received
<1>2. CASE Receive
  <2>1. CASE ReceiveAll
    BY <1>0, <1>2, <2>1, ReceivedAll DEF ReceiveAll, Received
  <2>2. CASE ReceivePart
    <3>1. served'.cut
      BY <1>0, <1>2, <2>2 DEF Receive, ReceivePart, TypeOK
    <3>. QED
      BY <3>1 DEF Received, AsTyped
  <2>. QED
    BY <1>2, <2>1, <2>2 DEF Receive
<1>3. CASE Turn \/ ReadReply
  BY <1>0, <1>3 DEF Turn, ReadReply, Received, AsTyped
<1>4. CASE Restart \/ UserRegister \/ UserLogin \/ UserUnknown \/ NullField \/ Ignore
  <2>1. at' # "process"
    BY <1>4 DEF Restart, UserRegister, UserLogin, UserUnknown, NullField, Ignore, Ends
  <2>. QED
    BY <2>1 DEF Received
<1>5. CASE UNCHANGED vars
  BY <1>0, <1>5 DEF vars, phoneVars, Received, AsTyped
<1>. QED
  BY <1>1, <1>2, <1>3, <1>4, <1>5 DEF Next

LEMMA RowsStep == AccountInv /\ [Next]_vars => Rows'
<1>. SUFFICES ASSUME AccountInv, [Next]_vars PROVE Rows'
  OBVIOUS
<1>0. TypeOK /\ Sending /\ Plain /\ Received /\ Rows
  BY DEF AccountInv
<1>1. CASE UserRegister
  <2>1. Insert(Field(2), NewRow)
    BY <1>1 DEF UserRegister
  <2>2. PICK row : row = NewRow
    OBVIOUS
  <2>3. /\ DOMAIN user1' = DOMAIN user1 \cup {Field(2)}
        /\ \A n \in DOMAIN user1 : user1'[n] = user1[n]
        /\ Field(2) \notin DOMAIN user1 => user1'[Field(2)] = row
    BY <2>1, <2>2, Inserted
  <2>4. row.account = <<Field(4), Field(5), Field(6)>>
        /\ row.typed = (~served.cut /\ ~served.request.commas)
    BY <2>2 DEF NewRow
  <2>5. Len(row.account) = 3
    BY <2>4
  <2>6. ASSUME row.typed PROVE \E s \in Typists : row.account = Account(s) /\ Short(s)
    <3>1. at = "process" /\ buf[1] = Word("register") /\ served.request.kind # "none"
      BY <1>0, <1>1 DEF UserRegister, Named, Sending, TypeOK, NoRequest, Requests
    <3>2. AsTyped
      BY <2>4, <2>6, <3>1 DEF AsTyped
    <3>3. served.request.kind = "register"
      BY <1>0, <3>1, <3>2, FieldsFound, CommandsDiffer DEF Requests
    <3>4. <<Field(4), Field(5), Field(6)>> = Account(session)
      BY <1>0, <3>1, <3>2, <3>3, FieldsFound
    <3>5. session \in Typists
      BY <1>0 DEF TypeOK, Typists
    <3>6. Short(session)
      BY <1>0, <3>1, <3>2, <3>3, ServedShort
    <3>. QED
      BY <2>4, <3>4, <3>5, <3>6
  <2>. QED
    BY <1>0, <2>3, <2>5, <2>6 DEF Rows
<1>2. ASSUME Next, ~UserRegister PROVE UNCHANGED user1
  <2>1. CASE ClickLogin \/ ClickRegister
    BY <1>0, <2>1, Clicked DEF Send
  <2>. QED
    BY <1>2, <2>1 DEF Next, Turn, ReadReply, Restart, Receive, UserLogin, UserUnknown, NullField,
                      Ignore
<1>3. CASE UNCHANGED user1
  BY <1>0, <1>3 DEF Rows
<1>. QED
  BY <1>1, <1>2, <1>3 DEF vars

LEMMA AnsweredStep == AccountInv /\ [Next]_vars => Answered'
<1>. SUFFICES ASSUME AccountInv, [Next]_vars PROVE Answered'
  OBVIOUS
<1>0. TypeOK /\ Sending /\ Plain /\ Received /\ Rows /\ Answered
  BY DEF AccountInv
<1>1. ASSUME reply' = <<>>, account' = <<>> PROVE Answered'
  BY <1>1 DEF Answered
<1>2. CASE UserRegister
  <2>1. at = "process" /\ buf[1] = Word("register") /\ reply = <<>> /\ account = <<>>
        /\ UNCHANGED <<session, account, served>>
    BY <1>0, <1>2 DEF UserRegister, Named, Sending, phoneVars
  <2>2. Field(4) \in Tokens /\ Field(5) \in Tokens /\ Field(6) \in Tokens
    BY <1>0, FieldTokens
  <2>3. PICK a \in Seq(Tokens) : a = <<Field(4), Field(5), Field(6)>> /\ Len(a) = 3
    BY <2>2, Triple, Zenon
  <2>4. NewRow.account = a
    BY <2>3 DEF NewRow
  <2>5. reply' = <<>> \/ reply' \in Answers("register ok", a)
    BY <1>2, <2>1, <2>4 DEF UserRegister, Ends
  <2>6. CASE reply' = <<>>
    BY <1>1, <2>1, <2>6
  <2>7. CASE reply' \in Answers("register ok", a)
    <3>1. Len(reply') = 4 /\ (AnswerLength("register ok", a) <= MSG_BUF_SIZE => Tail(reply') = a)
      <4>1. Word("register ok") \in Tokens /\ Length["register ok"] \in Nat
        BY WordsHeld, WordLengths, Zenon
      <4>. QED
        BY <2>3, <2>7, <4>1, AnswersShape
    <3>. PICK ans : ans = Tail(reply')
      OBVIOUS
    <3>2. ASSUME AsTyped PROVE Asked(ans)'
      <4>1. served.request.kind = "register"
        BY <1>0, <2>1, <3>2, FieldsFound, CommandsDiffer DEF Requests
      <4>2. a = Account(session)
        BY <1>0, <2>1, <2>3, <3>2, <4>1, FieldsFound
      <4>3. Short(session)
        BY <1>0, <2>1, <3>2, <4>1, ServedShort
      <4>4. AnswerLength("register ok", a) <= MSG_BUF_SIZE
        <5>1. session \in Typists
          BY <1>0 DEF TypeOK, Typists
        <5>. QED
          BY <4>2, <4>3, <5>1, AnswerFits
      <4>. QED
        <5>1. ans = Account(session)
          BY <3>1, <4>2, <4>4, Zenon
        <5>. QED
          BY <2>1, <4>1, <5>1 DEF Asked
    <3>3. AsTyped' => AsTyped
      BY <2>1 DEF AsTyped
    <3>. QED
      BY <2>1, <3>1, <3>2, <3>3 DEF Answered, Asked
  <2>. QED
    BY <2>5, <2>6, <2>7
<1>3. CASE UserLogin
  <2>1. at = "process" /\ buf[1] = Word("login") /\ reply = <<>> /\ account = <<>>
        /\ Field(2) \in DOMAIN user1 /\ UNCHANGED <<session, account, served, user1>>
    BY <1>0, <1>3 DEF UserLogin, Named, Sending, phoneVars
  <2>2. PICK a \in Seq(Tokens) : a = user1[Field(2)].account /\ Len(a) = 3
    BY <1>0, <2>1 DEF TypeOK, Rows
  <2>3. CASE reply' = <<>>
    BY <1>1, <2>1, <2>3
  <2>4. CASE reply' \in Answers("login ok", a) /\ Field(3) = user1[Field(2)].pwd
    <3>1. Len(reply') = 4 /\ (AnswerLength("login ok", a) <= MSG_BUF_SIZE => Tail(reply') = a)
      <4>1. Word("login ok") \in Tokens /\ Length["login ok"] \in Nat
        BY WordsHeld, WordLengths, Zenon
      <4>. QED
        BY <2>2, <2>4, <4>1, AnswersShape
    <3>2. AnswerLength("login ok", a) <= MSG_BUF_SIZE \/ AnswerLength("login ok", a) > MSG_BUF_SIZE
      <4>1. AnswerLength("login ok", a) \in Nat /\ MSG_BUF_SIZE \in Nat
        BY <2>2, WordLengths, AnswerLengthNat
      <4>2. \A m, n \in Nat : m <= n \/ m > n
        OBVIOUS
      <4>. QED
        BY <4>1, <4>2, Zenon
    <3>. PICK ans : ans = Tail(reply')
      OBVIOUS
    <3>3. ASSUME AsTyped PROVE Asked(ans)'
      <4>1. served.request.kind = "login"
        BY <1>0, <2>1, <3>3, FieldsFound, CommandsDiffer DEF Requests
      <4>2. Field(2) = served.request.name /\ Field(3) = served.request.pwd
        BY <1>0, <2>1, <3>3, FieldsFound
      <4>. QED
        <5>1. /\ served.request.name \in DOMAIN user1
              /\ served.request.pwd = user1[served.request.name].pwd
              /\ a = user1[served.request.name].account
          BY <2>1, <2>2, <2>4, <4>2
        <5>2. ans = a \/ AnswerLength("login ok", a) > MSG_BUF_SIZE
          BY <3>1, <3>2, Zenon
        <5>. QED
          BY <2>1, <4>1, <5>1, <5>2, Zenon DEF Asked
    <3>4. AsTyped' => AsTyped
      BY <2>1 DEF AsTyped
    <3>. QED
      BY <2>1, <3>1, <3>3, <3>4 DEF Answered, Asked
  <2>5. CASE reply' = <<Word("login error")>>
    <3>1. reply'[1] \notin Good
      BY <2>5 DEF Good, Word
    <3>. QED
      BY <2>1, <3>1 DEF Answered
  <2>. QED
    BY <1>3, <2>1, <2>2, <2>3, <2>4, <2>5 DEF UserLogin, Ends
<1>4. CASE UserUnknown
  <2>1. account = <<>> /\ reply = <<>> /\ UNCHANGED account
    BY <1>0, <1>4 DEF UserUnknown, Named, Sending, phoneVars
  <2>2. reply' = <<>> \/ reply' = <<Word("login error")>>
    BY <1>4, <2>1 DEF UserUnknown
  <2>3. reply' = <<>> \/ reply'[1] \notin Good
    <3>1. CASE reply' = <<Word("login error")>>
      BY <3>1 DEF Good, Word
    <3>. QED
      BY <2>2, <3>1
  <2>. QED
    BY <2>1, <2>3 DEF Answered
<1>5. CASE ReadReply
  <2>1. reply # <<>> /\ reply' = <<>> /\ UNCHANGED <<session, served, user1>>
    BY <1>5 DEF ReadReply
  <2>2. CASE reply[1] \in Good
    <3>1. account' = Tail(reply)
      BY <1>5, <2>2 DEF ReadReply, Good
    <3>2. AsTyped => Asked(account')
      BY <1>0, <2>1, <2>2, <3>1 DEF Answered
    <3>. QED
      BY <2>1, <3>2 DEF Answered, AsTyped, Asked
  <2>3. CASE reply[1] \notin Good
    <3>1. account' = account
      BY <1>5, <2>3 DEF ReadReply, Good
    <3>. QED
      BY <1>0, <2>1, <3>1 DEF Answered, AsTyped, Asked
  <2>. QED
    BY <2>2, <2>3
<1>6. CASE Restart
  BY <1>1, <1>6 DEF Restart
<1>7. CASE ClickLogin \/ ClickRegister
  <2>1. PICK r \in Requests : Send(r)
    BY <1>0, <1>7, Clicked
  <2>2. reply' = <<>> /\ account' = <<>>
    BY <1>0, <2>1 DEF Send, Sending
  <2>. QED
    BY <1>1, <2>2
<1>8. CASE Receive \/ NullField
  <2>1. at \in {"idle", "process"} /\ UNCHANGED <<reply, account>>
    BY <1>8 DEF Receive, NullField, Named, phoneVars
  <2>2. reply' = <<>> /\ account' = <<>>
    BY <1>0, <2>1 DEF Sending
  <2>. QED
    BY <1>1, <2>2
<1>9. CASE Turn \/ Ignore \/ UNCHANGED vars
  <2>1. UNCHANGED <<session, served, user1, reply, account>>
    BY <1>9 DEF Turn, Ignore, vars, phoneVars
  <2>. QED
    BY <1>0, <2>1 DEF Answered, AsTyped, Asked
<1>. QED
  BY <1>2, <1>3, <1>4, <1>5, <1>6, <1>7, <1>8, <1>9 DEF Next

LEMMA CrashesStep == AccountInv /\ [Next]_vars => CrashesInKnownWays'
<1>. SUFFICES ASSUME AccountInv, [Next]_vars PROVE CrashesInKnownWays'
  OBVIOUS
<1>0. TypeOK /\ Sending /\ Plain /\ Received /\ CrashesInKnownWays
  BY DEF AccountInv
<1>1. CASE UserUnknown
  <2>1. at = "process" /\ buf[1] = Word("login") /\ Field(2) \notin DOMAIN user1
        /\ UNCHANGED <<served, user1>>
    BY <1>1 DEF UserUnknown, Named
  <2>2. ASSUME AsTyped PROVE served.request.kind = "login" /\ served.request.name \notin DOMAIN user1
    BY <1>0, <2>1, <2>2, FieldsFound, CommandsDiffer DEF Requests
  <2>. QED
    BY <2>1, <2>2 DEF CrashesInKnownWays, AsTyped
<1>2. CASE NullField
  <2>1. at = "process" /\ Len(buf) < 3 /\ UNCHANGED served
    BY <1>2 DEF NullField, Named
  <2>2. ~AsTyped
    <3>1. ASSUME AsTyped PROVE Len(buf) > 2 /\ Len(buf) \in Nat
      BY <1>0, <2>1, <3>1, FieldsFound DEF TypeOK
    <3>. QED
      BY <2>1, <3>1
  <2>. QED
    BY <2>1, <2>2 DEF CrashesInKnownWays, AsTyped
<1>3. CASE Turn \/ ReadReply \/ UNCHANGED vars
  BY <1>0, <1>3 DEF Turn, ReadReply, vars, phoneVars, CrashesInKnownWays, AsTyped, TooLong
<1>4. CASE ClickLogin \/ ClickRegister
  <2>1. PICK r \in Requests : Send(r)
    BY <1>0, <1>4, Clicked
  <2>2. at' = "idle"
    BY <2>1 DEF Send
  <2>. QED
    BY <2>2 DEF CrashesInKnownWays
<1>5. CASE Restart \/ Receive \/ Ignore
  <2>1. at' # "crashed"
    BY <1>5 DEF Restart, Receive, Ignore
  <2>. QED
    BY <2>1 DEF CrashesInKnownWays
<1>6. CASE UserRegister
  <2>1. at = "process" /\ buf[1] = Word("register") /\ UNCHANGED <<session, served>>
        /\ (at' = "crashed" => InsertLength >= MSG_BUF_SIZE)
    BY <1>6 DEF UserRegister, Ends, Named, phoneVars
  <2>2. ASSUME AsTyped, InsertLength >= MSG_BUF_SIZE
        PROVE  TooLong(served.request)'
    <3>1. served.request.kind = "register"
      BY <1>0, <2>1, <2>2, FieldsFound, CommandsDiffer DEF Requests
    <3>2. /\ Field(2) = served.request.name /\ Field(3) = served.request.pwd
          /\ <<Field(4), Field(5), Field(6)>> = Account(session)
      BY <1>0, <2>1, <2>2, <3>1, FieldsFound
    <3>. QED
      BY <2>1, <2>2, <3>1, <3>2 DEF TooLong, InsertLength
  <2>. QED
    BY <2>1, <2>2 DEF CrashesInKnownWays, AsTyped
<1>7. CASE UserLogin
  <2>1. at = "process" /\ buf[1] = Word("login") /\ UNCHANGED <<served, user1>>
        /\ (at' = "crashed" =>
              \/ SelectLength(Field(2)) >= MSG_BUF_SIZE
              \/ AnswerLength("login ok", user1[Field(2)].account) >= MSG_BUF_SIZE)
    BY <1>7 DEF UserLogin, Ends, Named
  <2>2. ASSUME AsTyped, at' = "crashed"
        PROVE  TooLong(served.request)'
    <3>1. served.request.kind = "login"
      BY <1>0, <2>1, <2>2, FieldsFound, CommandsDiffer DEF Requests
    <3>2. Field(2) = served.request.name
      BY <1>0, <2>1, <2>2, FieldsFound
    <3>. QED
      BY <2>1, <2>2, <3>1, <3>2 DEF TooLong
  <2>. QED
    BY <2>1, <2>2 DEF CrashesInKnownWays, AsTyped
<1>. QED
  BY <1>1, <1>2, <1>3, <1>4, <1>5, <1>6, <1>7 DEF Next

LEMMA Invariance == Spec => []AccountInv
<1>1. Init => AccountInv
  BY Initial
<1>2. AccountInv /\ [Next]_vars => AccountInv'
  BY TypesStep, SendingStep, PlainStep, ReceivedStep, RowsStep, AnsweredStep, CrashesStep
  DEF AccountInv
<1>. QED
  BY <1>1, <1>2, PTL DEF Spec

-----------------------------------------------------------------------------
(* The theorems.                                                           *)

(* Every variable keeps its type: whatever is cut up, put together or left *)
(* from earlier, the buffer is a text, and an account is three fields      *)
(* (widget.cpp, loginserver.cpp, db.cpp).                                  *)
THEOREM TypeCorrect == Spec => []TypeOK
<1>1. AccountInv => TypeOK
  BY DEF AccountInv
<1>. QED
  BY <1>1, Invariance, PTL

(* A phone whose request came in one piece and without a comma in a field  *)
(* gets the account that was typed, at registration or, by the user of     *)
(* that name and password, before: for every request the buffer has room   *)
(* for, the answer has room too (widget.cpp, lines 80-218; db.cpp,         *)
(* 56-185).                                                                *)
THEOREM AccountOwn == Spec => []OwnAccount
<1>1. AccountInv => OwnAccount
  <2>. SUFFICES ASSUME AccountInv, account # <<>>, AsTyped
       PROVE  OwnAccount
    BY DEF OwnAccount
  <2>1. Asked(account) /\ Rows /\ TypeOK
    BY DEF AccountInv, Answered
  <2>. DEFINE r == served.request
  <2>2. CASE r.kind = "register"
    BY <2>1, <2>2 DEF OwnAccount, Asked
  <2>3. CASE r.kind # "register"
    <3>. DEFINE row == user1[r.name]
    <3>1. r.name \in DOMAIN user1 /\ r.pwd = row.pwd
          /\ (account = row.account \/ AnswerLength("login ok", row.account) > MSG_BUF_SIZE)
      BY <2>1, <2>3 DEF Asked
    <3>2. ASSUME row.typed PROVE \E s \in Typists : account = Account(s)
      <4>1. PICK s \in Typists : row.account = Account(s) /\ Short(s)
        BY <2>1, <3>1, <3>2 DEF Rows
      <4>2. ~(AnswerLength("login ok", Account(s)) > MSG_BUF_SIZE)
        BY <4>1, AnswerFits
      <4>. QED
        BY <3>1, <4>1, <4>2
    <3>. QED
      BY <2>3, <3>1, <3>2 DEF OwnAccount
  <2>. QED
    BY <2>2, <2>3
<1>. QED
  BY <1>1, Invariance, PTL

(* The text of one request, without quotation marks, crashes the server    *)
(* only when it came in pieces or with a comma in a field, or is a login   *)
(* under an unknown name, or when the statement or the answer made of it   *)
(* does not fit in its array; what else is in the buffer does not matter   *)
(* (db.cpp, lines 64-99 and 110-151).                                      *)
THEOREM CrashesKnown == Spec => []CrashesInKnownWays
<1>1. AccountInv => CrashesInKnownWays
  BY DEF AccountInv
<1>. QED
  BY <1>1, Invariance, PTL

=============================================================================
