--------------------------- MODULE PictureService ---------------------------
(***************************************************************************)
(* What the video server promises its client: each request is answered at  *)
(* most once, with one whole picture that was public at some time between  *)
(* the request and the answer, and that is not one of the first pictures,  *)
(* which the camera takes before it is adjusted.  Pictures are numbered;   *)
(* 0 is the empty picture, before the first is published.                  *)
(***************************************************************************)
EXTENDS Integers

CONSTANTS Discards   \* the first pictures, never published

VARIABLES
  published,  \* the latest public picture
  pending,    \* the picture public when the open request came, or -1: none
  answer      \* the picture being sent, as [head, tail, len], or <<>>

vars == <<published, pending, answer>>

NoRequest == -1
Whole(p) == [head |-> p, tail |-> p, len |-> p]
Discarded(p) == p \in 1 .. Discards

Init == published = 0 /\ pending = NoRequest /\ answer = <<>>

Publish ==
  /\ published' \in Nat
  /\ published' > published /\ ~Discarded(published')
  /\ UNCHANGED <<pending, answer>>

Request ==
  /\ pending = NoRequest /\ answer = <<>>
  /\ pending' = published
  /\ UNCHANGED <<published, answer>>

Answer ==
  /\ pending # NoRequest
  /\ \E p \in pending .. published : ~Discarded(p) /\ answer' = Whole(p)
  /\ pending' = NoRequest
  /\ UNCHANGED published

Sent ==
  /\ answer # <<>>
  /\ answer' = <<>>
  /\ UNCHANGED <<published, pending>>

Next == Publish \/ Request \/ Answer \/ Sent

Spec == Init /\ [][Next]_vars

=============================================================================
