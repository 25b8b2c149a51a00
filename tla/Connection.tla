----------------------------- MODULE Connection -----------------------------
(***************************************************************************)
(* The connection between the control node and one store node: how it is   *)
(* set up (Ip_location), and how requests and answers travel over it as    *)
(* two streams of bytes (net_file).                                        *)
(*                                                                         *)
(* A stream keeps bytes, not messages.  send_to adds a message to it, and  *)
(* one receive_from takes whatever has arrived: several messages, or a     *)
(* part of one.  Both programs take what they received for exactly one     *)
(* message.  A message is cut into the parts that a receive_from can       *)
(* separate; all but long ones have one part.  Both processes stay up      *)
(* here, except that a control node without a connection ends.             *)
(***************************************************************************)
EXTENDS Integers, SequencesExt

CONSTANTS MaxRequests,   \* how many requests are sent
          RequestParts,  \* per kind of request: the parts it travels in
          AnswerParts    \* per kind of request: the parts of its answer, or 0

Kinds == DOMAIN RequestParts

ASSUME MaxRequestsAssumption == MaxRequests \in Nat \ {0}
ASSUME PartsAssumption ==
  /\ RequestParts \in [Kinds -> Nat \ {0}]
  /\ AnswerParts \in [Kinds -> Nat]
  /\ \A kind \in Kinds : AnswerParts[kind] = 0 <=> kind = "test"

VARIABLES
  store,      \* the store node: "start", "listening" or "serving"
  control,    \* the control node: "start", "connected", "failed" or "ended"
  sent,       \* the kinds of the requests sent, in order
  waiting,    \* the request whose answer the control node waits for, or 0
  toStore,    \* the parts on their way to the store node
  toControl,  \* the parts on their way to the control node
  taken,      \* the last answer taken: the request waited for, and its own
  torn        \* "request", "answer": of what a receive_from has taken a part only

vars == <<store, control, sent, waiting, toStore, toControl, taken, torn>>

\* The parts of a message that belongs to request i.
Parts(i, n) == [p \in 1 .. n |-> [id |-> i, part |-> p, final |-> p = n]]

-----------------------------------------------------------------------------
(* Setting up.                                                             *)

\* Ip_location::receive_from up to listen().
Listen ==
  /\ store = "start"
  /\ store' = "listening"
  /\ UNCHANGED <<control, sent, waiting, toStore, toControl, taken, torn>>

\* connect_to: refused when nobody listens, which is printed and forgotten.
Connect ==
  /\ control = "start"
  /\ control' = IF store = "start" THEN "failed" ELSE "connected"
  /\ UNCHANGED <<store, sent, waiting, toStore, toControl, taken, torn>>

\* accept() of the one connection the store node will ever serve.
Accept ==
  /\ store = "listening" /\ control = "connected"
  /\ store' = "serving"
  /\ UNCHANGED <<control, sent, waiting, toStore, toControl, taken, torn>>

\* send_to without a connection raises the signal that ends the process.
SendUnconnected ==
  /\ control = "failed"
  /\ control' = "ended"
  /\ UNCHANGED <<store, sent, waiting, toStore, toControl, taken, torn>>

-----------------------------------------------------------------------------
(* Requests and answers.                                                   *)

\* send_to of a request; the answer is waited for, but that to test.
Send(kind) ==
  /\ control = "connected"
  /\ waiting = 0
  /\ Len(sent) < MaxRequests
  /\ sent' = Append(sent, kind)
  /\ toStore' = toStore \o Parts(Len(sent'), RequestParts[kind])
  /\ waiting' = IF kind = "test" THEN 0 ELSE Len(sent')
  /\ UNCHANGED <<store, control, toControl, taken, torn>>

\* Mutant: test is answered like the other requests.
AnswerEvenTest(i) == Parts(i, IF sent[i] = "test" THEN 1 ELSE AnswerParts[sent[i]])

\* Mutant: one kind of request is served and not answered.
AnswerNotAll(i) == IF sent[i] = "log" THEN <<>> ELSE Parts(i, AnswerParts[sent[i]])

\* What serving request i sends back.
Answer(i) == Parts(i, AnswerParts[sent[i]])

\* Mutant: the end of the buffer is taken for the request.
ServedLast(got) == Last(got)

\* The request run() finds in what it received: the one at the beginning.
Served(got) == Head(got)

\* One pass of store_impl::run.  Bytes from the middle of a request are no
\* command and are not answered; what follows the first request is not looked at.
StoreReceives(n) ==
  LET got == SubSeq(toStore, 1, n)
  IN  /\ store = "serving"
      /\ toStore' = SubSeq(toStore, n + 1, Len(toStore))
      /\ toControl' = IF Served(got).part = 1
                      THEN toControl \o Answer(Served(got).id) ELSE toControl
      /\ torn' = IF Last(got).final THEN torn ELSE torn \cup {"request"}
      /\ UNCHANGED <<store, control, sent, waiting, taken>>

\* receive_from of the control node: what has come is taken for the answer.
ControlReceives(n) ==
  LET got == SubSeq(toControl, 1, n)
  IN  /\ waiting # 0
      /\ toControl' = SubSeq(toControl, n + 1, Len(toControl))
      /\ taken' = [want |-> waiting, own |-> Head(got).id]
      /\ waiting' = 0
      /\ torn' = IF Last(got).final THEN torn ELSE torn \cup {"answer"}
      /\ UNCHANGED <<store, control, sent, toStore>>

StoreStep == Listen \/ Accept \/ \E n \in 1 .. Len(toStore) : StoreReceives(n)

ControlTakes == \E n \in 1 .. Len(toControl) : ControlReceives(n)

Init ==
  /\ store = "start" /\ control = "start"
  /\ sent = <<>> /\ waiting = 0
  /\ toStore = <<>> /\ toControl = <<>>
  /\ taken = [want |-> 0, own |-> 0]
  /\ torn = {}

Next ==
  \/ StoreStep
  \/ Connect
  \/ SendUnconnected
  \/ \E kind \in Kinds : Send(kind)
  \/ ControlTakes

Spec == Init /\ [][Next]_vars

\* A store node that is started goes on to accept and then loops over recv; a
\* control node in recv returns from it when something has arrived.
FairSpec == Spec /\ WF_vars(StoreStep) /\ WF_vars(ControlTakes)

-----------------------------------------------------------------------------
(* Properties.                                                             *)

\* Nothing in an answer says which request it answers.  While no answer was torn,
\* the control node takes each answer for the request it belongs to, and leaves
\* nothing behind for the next one.  A torn request changes nothing of this: what
\* is left of it when its beginning is answered is not answered again.
AnswersMatch ==
  "answer" \notin torn =>
    /\ taken.want = taken.own
    /\ waiting = 0 => toControl = <<>>

Stuck == waiting # 0 /\ store = "serving" /\ toStore = <<>> /\ toControl = <<>>

\* The control node waits for ever only for the answer to a request that it
\* sent right after a test, while no message was torn.
StuckOnlyBehindTest ==
  torn = {} /\ Stuck => waiting > 1 /\ sent[waiting - 1] = "test"

\* A request that travels alone is answered, one sent before accept too, as long
\* as no request is torn.
AloneIsAnswered ==
  (waiting # 0 /\ toStore # <<>> /\ \A p \in ToSet(toStore) : p.id = waiting)
    ~> (waiting = 0 \/ "request" \in torn)
=============================================================================
