-------------------------- MODULE ConnectionProofs --------------------------
(***************************************************************************)
(* Proofs about the connection: while no answer was torn an answer is      *)
(* taken for its own request, and while no message was torn only a request *)
(* sent right after a test is waited for in vain.                          *)
(*                                                                         *)
(* None of this follows from itself.  An answer is matched because a       *)
(* request is sent only when the last one was answered, so that the stream *)
(* to the control node holds the parts of one answer and the stream to the *)
(* store node that one request behind tests: Inv says this of both streams *)
(* together.                                                               *)
(***************************************************************************)
EXTENDS Connection, SequenceTheorems, TLAPS

Message == [id : Nat, part : Nat, final : BOOLEAN]

IsTest(p) == sent[p.id] = "test"

\* Both streams, the requests and the last answer, whatever was torn.
Shape ==
  /\ store \in {"start", "listening", "serving"}
  /\ control \in {"start", "connected", "failed", "ended"}
  /\ sent \in Seq(Kinds)
  /\ Len(sent) <= MaxRequests
  /\ waiting \in {0, Len(sent)}
  /\ toStore \in Seq(Message)
  /\ toControl \in Seq(Message)
  /\ \A i \in 1 .. Len(toStore) : toStore[i].id \in 1 .. Len(sent)
  /\ \A i \in 1 .. Len(toControl) : toControl[i].id \in 1 .. Len(sent)
  /\ taken \in [want : 0 .. MaxRequests, own : 0 .. MaxRequests]
  /\ torn \subseteq {"request", "answer"}
  /\ waiting # 0 => sent[waiting] # "test"

\* The stream to the store node keeps the requests in order, one after the
\* other, and ends with the last one.
Ordered ==
  /\ \A i, j \in 1 .. Len(toStore) :
       i < j => /\ toStore[i].id <= toStore[j].id
                /\ toStore[i].final => toStore[i].id < toStore[j].id
                /\ toStore[j].part = 1 => toStore[i].id < toStore[j].id
  /\ toStore # <<>> => toStore[Len(toStore)].id = Len(sent)

\* Nothing but tests is on its way while no answer is waited for.
Quiet ==
  torn = {} /\ waiting = 0 =>
    /\ toControl = <<>>
    /\ \A i \in 1 .. Len(toStore) : IsTest(toStore[i])

\* The streams hold one request that is answered, or its answer.
OneRequest ==
  torn = {} /\ waiting # 0 =>
    /\ sent[waiting] # "test"
    /\ \A i \in 1 .. Len(toStore) : IsTest(toStore[i]) \/ toStore[i].id = waiting
    /\ toControl # <<>> => toStore = <<>>
    /\ \A i \in 1 .. Len(toControl) :
         /\ toControl[i].id = waiting
         /\ toControl[i].final => i = Len(toControl)

\* The request waited for was sent behind a test, or its beginning is the next
\* thing the store node reads, or it is answered.
Underway ==
  torn = {} /\ waiting # 0 =>
    \/ waiting > 1 /\ sent[waiting - 1] = "test"
    \/ toControl # <<>>
    \/ toStore # <<>> /\ toStore[1].part = 1 /\ toStore[1].id = waiting

\* Whatever requests were torn: the one request with its beginning still to be
\* read is the one waited for, and once it is answered there is none; what is left
\* of a torn one is not answered.
Pending ==
  "answer" \notin torn =>
    /\ \A i \in 1 .. Len(toStore) : toStore[i].part = 1 =>
         IsTest(toStore[i]) \/ (toStore[i].id = waiting /\ toControl = <<>>)
    /\ waiting = 0 => toControl = <<>>
    /\ \A i \in 1 .. Len(toControl) :
         /\ toControl[i].id = waiting
         /\ toControl[i].final => i = Len(toControl)

Matched == "answer" \notin torn => taken.want = taken.own

Inv == Shape /\ Ordered /\ Quiet /\ OneRequest /\ Underway /\ Pending /\ Matched

-----------------------------------------------------------------------------
(* Streams.                                                                *)

\* A message of n parts: numbered from 1, the last one final.
LEMMA PartsAreMessages ==
  ASSUME NEW i \in Nat, NEW n \in Nat
  PROVE  /\ Parts(i, n) \in Seq(Message)
         /\ Len(Parts(i, n)) = n
         /\ \A p \in 1 .. n : /\ Parts(i, n)[p].id = i
                              /\ Parts(i, n)[p].part = p
                              /\ (Parts(i, n)[p].final <=> p = n)
  <1>1. Parts(i, n) \in Seq(Message) /\ Len(Parts(i, n)) = n
    BY DEF Parts, Message
  <1>2. ASSUME NEW p \in 1 .. n
        PROVE  Parts(i, n)[p] = [id |-> i, part |-> p, final |-> p = n]
    BY <1>2 DEF Parts
  <1>3. ASSUME NEW p \in 1 .. n
        PROVE  /\ Parts(i, n)[p].id = i
               /\ Parts(i, n)[p].part = p
               /\ (Parts(i, n)[p].final <=> p = n)
    <2>1. ASSUME NEW x, NEW b \in BOOLEAN, x = [id |-> i, part |-> p, final |-> b]
          PROVE  x.id = i /\ x.part = p /\ (x.final <=> b)
      BY <2>1
    <2>2. (p = n) \in BOOLEAN
      OBVIOUS
    <2> QED
      BY <1>2, <1>3, <2>1, <2>2, Zenon
  <1> QED
    BY <1>1, <1>3

\* What a receive_from of n parts takes and what it leaves.
LEMMA Received ==
  ASSUME NEW s \in Seq(Message), NEW n \in 1 .. Len(s)
  PROVE  /\ SubSeq(s, n + 1, Len(s)) \in Seq(Message)
         /\ Len(SubSeq(s, n + 1, Len(s))) = Len(s) - n
         /\ \A i \in 1 .. Len(s) - n : SubSeq(s, n + 1, Len(s))[i] = s[n + i]
         /\ n = Len(s) => SubSeq(s, n + 1, Len(s)) = <<>>
         /\ Head(SubSeq(s, 1, n)) = s[1]
         /\ Last(SubSeq(s, 1, n)) = s[n]
         /\ s[1] \in Message /\ s[n] \in Message /\ s # <<>>
  <1> USE LenProperties
  <1>1. \A i \in 1 .. Len(s) : s[i] \in Message
    BY ElementOfSeq
  <1>2. /\ n \in Int /\ n + 1 \in Int /\ Len(s) \in Int /\ 1 \in Int
        /\ \A i \in n + 1 .. Len(s) : s[i] \in Message
        /\ \A i \in 1 .. n : s[i] \in Message
    BY <1>1
  <1>3. /\ SubSeq(s, n + 1, Len(s)) \in Seq(Message)
        /\ Len(SubSeq(s, n + 1, Len(s))) = Len(s) - n
        /\ \A i \in 1 .. Len(s) - n : SubSeq(s, n + 1, Len(s))[i] = s[n + i]
    BY <1>2
  <1>4. /\ SubSeq(s, 1, n) \in Seq(Message)
        /\ Len(SubSeq(s, 1, n)) = n
        /\ \A i \in 1 .. n : SubSeq(s, 1, n)[i] = s[i]
    BY <1>2
  <1>5. n = Len(s) => SubSeq(s, n + 1, Len(s)) = <<>>
    BY <1>2, SubSeqEmpty
  <1>6. /\ Head(SubSeq(s, 1, n)) = s[1]
        /\ Last(SubSeq(s, 1, n)) = s[n]
    BY <1>4 DEF Last
  <1>7. s # <<>>
    BY EmptySeq
  <1> QED
    BY <1>1, <1>3, <1>5, <1>6, <1>7

\* What send_to of a message of n parts makes of a stream.
Extends(t, s, i, n) ==
  /\ t \in Seq(Message)
  /\ Len(t) = Len(s) + n
  /\ \A j \in 1 .. Len(s) : t[j] = s[j]
  /\ \A j \in Len(s) + 1 .. Len(s) + n :
       /\ t[j].id = i
       /\ t[j].part = j - Len(s)
       /\ t[j].final <=> j = Len(s) + n
  /\ n > 0 => t # <<>>
  /\ n = 0 => t = s

LEMMA Sent ==
  ASSUME NEW s \in Seq(Message), NEW i \in Nat, NEW n \in Nat
  PROVE  Extends(s \o Parts(i, n), s, i, n)
  <1> DEFINE m == Parts(i, n)
  <1>1. /\ m \in Seq(Message)
        /\ Len(m) = n
        /\ \A p \in 1 .. n : /\ m[p].id = i
                             /\ m[p].part = p
                             /\ (m[p].final <=> p = n)
    BY PartsAreMessages
  <1> HIDE DEF m
  <1>2. Len(s) \in Nat
    BY LenProperties
  <1>3. /\ s \o m \in Seq(Message)
        /\ Len(s \o m) = Len(s) + n
        /\ \A j \in 1 .. Len(s) + n :
             (s \o m)[j] = IF j <= Len(s) THEN s[j] ELSE m[j - Len(s)]
    <2>1. m \in Seq(Message) /\ Len(m) = n
      BY <1>1
    <2>2. /\ s \o m \in Seq(Message)
          /\ Len(s \o m) = Len(s) + Len(m)
          /\ \A j \in 1 .. Len(s) + Len(m) :
               (s \o m)[j] = IF j <= Len(s) THEN s[j] ELSE m[j - Len(s)]
      BY <2>1, ConcatProperties, Zenon
    <2> QED
      BY <2>1, <2>2
  <1>4. \A j \in 1 .. Len(s) : (s \o m)[j] = s[j]
    BY <1>2, <1>3
  <1>5. \A j \in Len(s) + 1 .. Len(s) + n :
              /\ (s \o m)[j].id = i
              /\ (s \o m)[j].part = j - Len(s)
              /\ (s \o m)[j].final <=> j = Len(s) + n
    <2> TAKE j \in Len(s) + 1 .. Len(s) + n
    <2> DEFINE p == j - Len(s)
    <2>1. p \in 1 .. n /\ (p = n <=> j = Len(s) + n)
      BY <1>2
    <2>2. (s \o m)[j] = m[p]
      BY <1>2, <1>3
    <2> HIDE DEF p
    <2>3. m[p].id = i /\ m[p].part = p /\ (m[p].final <=> p = n)
      BY <1>1, <2>1
    <2> QED
      BY <2>1, <2>2, <2>3 DEF p
  <1>6. n > 0 => s \o m # <<>>
    BY <1>2, <1>3
  <1>7. n = 0 => s \o m = s
    BY <1>1, <1>2, <1>3, ConcatEmptySeq, EmptySeq
  <1> QED
    BY <1>3, <1>4, <1>5, <1>6, <1>7 DEF m, Extends

-----------------------------------------------------------------------------
(* The invariant.                                                          *)

LEMMA InitInv == Init => Inv
  <1> SUFFICES ASSUME Init
               PROVE  Inv
    OBVIOUS
  <1> USE DEF Init
  <1>1. Shape
    <2>1. sent \in Seq(Kinds) /\ toStore \in Seq(Message) /\ toControl \in Seq(Message)
      BY EmptySeq
    <2>2. Len(sent) = 0 /\ Len(toStore) = 0 /\ Len(toControl) = 0
      OBVIOUS
    <2>3. taken \in [want : 0 .. MaxRequests, own : 0 .. MaxRequests]
      BY MaxRequestsAssumption
    <2>4. Len(sent) <= MaxRequests /\ waiting \in {0, Len(sent)}
      BY <2>2, MaxRequestsAssumption
    <2>5. /\ \A i \in 1 .. Len(toStore) : toStore[i].id \in 1 .. Len(sent)
          /\ \A i \in 1 .. Len(toControl) : toControl[i].id \in 1 .. Len(sent)
      BY <2>2
    <2>6. /\ store \in {"start", "listening", "serving"}
          /\ control \in {"start", "connected", "failed", "ended"}
          /\ torn \subseteq {"request", "answer"}
          /\ waiting = 0
      OBVIOUS
    <2> QED
      BY <2>1, <2>3, <2>4, <2>5, <2>6, Zenon DEF Shape
  <1>2. Ordered /\ Quiet /\ OneRequest /\ Underway /\ Pending /\ Matched
    BY DEF Ordered, Quiet, OneRequest, Underway, Pending, Matched
  <1> QED
    BY <1>1, <1>2 DEF Inv

\* Setting up touches neither stream.
LEMMA SetUpKeeps ==
  ASSUME Inv, Listen \/ Connect \/ Accept \/ SendUnconnected
  PROVE  Inv'
  <1>1. UNCHANGED <<sent, waiting, toStore, toControl, taken, torn>>
    BY DEF Listen, Connect, Accept, SendUnconnected
  <1>2. /\ store' \in {"start", "listening", "serving"}
        /\ control' \in {"start", "connected", "failed", "ended"}
    BY DEF Inv, Shape, Listen, Connect, Accept, SendUnconnected
  <1>3. Shape'
    BY <1>1, <1>2 DEF Inv, Shape
  <1>4. (Ordered /\ Quiet /\ OneRequest /\ Underway /\ Pending /\ Matched)'
    BY <1>1 DEF Inv, Ordered, Quiet, OneRequest, Underway, Pending, Matched, IsTest
  <1> QED
    BY <1>3, <1>4 DEF Inv

\* A request is sent only when nothing but tests is on its way.
LEMMA SendKeeps ==
  ASSUME Inv, NEW kind \in Kinds, Send(kind)
  PROVE  Inv'
  <1> DEFINE m == RequestParts[kind]
             l == Len(toStore)
             k == Len(sent)
  <1>1. /\ m \in Nat /\ m > 0
        /\ l \in Nat /\ k \in Nat
        /\ sent \in Seq(Kinds) /\ toStore \in Seq(Message)
    BY PartsAssumption, LenProperties DEF Inv, Shape
  <1>2. /\ sent' \in Seq(Kinds)
        /\ Len(sent') = k + 1
        /\ \A i \in 1 .. k : sent'[i] = sent[i]
        /\ sent'[k + 1] = kind
    BY <1>1, AppendProperties DEF Send
  <1>3. toStore' = toStore \o Parts(k + 1, m)
    BY <1>2 DEF Send
  <1>4. /\ toStore' \in Seq(Message)
        /\ Len(toStore') = l + m
        /\ \A j \in 1 .. l : toStore'[j] = toStore[j]
        /\ \A j \in l + 1 .. l + m :
             /\ toStore'[j].id = k + 1
             /\ toStore'[j].part = j - l
             /\ toStore'[j].final <=> j = l + m
        /\ toStore' # <<>>
    <2> DEFINE i == k + 1
    <2> HIDE DEF m
    <2>1. i \in Nat
      BY <1>1
    <2> HIDE DEF i
    <2>2. toStore' = toStore \o Parts(i, m)
      BY <1>3 DEF i
    <2>3. /\ toStore' \in Seq(Message)
          /\ Len(toStore') = l + m
          /\ \A j \in 1 .. l : toStore'[j] = toStore[j]
          /\ \A j \in l + 1 .. l + m :
               /\ toStore'[j].id = i
               /\ toStore'[j].part = j - l
               /\ toStore'[j].final <=> j = l + m
          /\ toStore' # <<>>
      <3>1. Extends(toStore', toStore, i, m)
        BY <1>1, <2>1, <2>2, Sent
      <3> QED
        BY <1>1, <3>1 DEF Extends
    <2> QED
      BY <2>3 DEF i
  <1>5. /\ waiting = 0
        /\ waiting' = IF kind = "test" THEN 0 ELSE k + 1
        /\ k < MaxRequests
        /\ UNCHANGED <<store, control, toControl, taken, torn>>
    BY <1>2 DEF Send
  <1>6. \A i \in 1 .. l : toStore[i].id \in 1 .. k
    BY DEF Inv, Shape
  <1> HIDE DEF m, l, k
  <1>7. Shape'
    <2>1. \A i \in 1 .. l + m : toStore'[i].id \in 1 .. k + 1
      BY <1>1, <1>4, <1>6
    <2>2. \A i \in 1 .. Len(toControl) : toControl[i].id \in 1 .. k + 1
      BY <1>1 DEF Inv, Shape, k
    <2>3. k + 1 <= MaxRequests
      BY <1>1, <1>5, MaxRequestsAssumption
    <2>4. waiting' # 0 => sent'[waiting'] # "test"
      BY <1>2, <1>5
    <2> QED
      BY <1>2, <1>4, <1>5, <2>1, <2>2, <2>3, <2>4 DEF Inv, Shape
  <1>8. Ordered'
    <2>1. \A i, j \in 1 .. l :
            i < j => /\ toStore[i].id <= toStore[j].id
                     /\ toStore[i].final => toStore[i].id < toStore[j].id
                     /\ toStore[j].part = 1 => toStore[i].id < toStore[j].id
      BY DEF Inv, Ordered, l
    <2>2. ASSUME NEW i \in 1 .. l + m, NEW j \in 1 .. l + m, i < j
          PROVE  /\ toStore'[i].id <= toStore'[j].id
                 /\ toStore'[i].final => toStore'[i].id < toStore'[j].id
                 /\ toStore'[j].part = 1 => toStore'[i].id < toStore'[j].id
      <3>1. CASE j \in 1 .. l
        <4>1. i \in 1 .. l
          BY <1>1, <2>2, <3>1
        <4>2. toStore'[i] = toStore[i] /\ toStore'[j] = toStore[j]
          BY <1>4, <3>1, <4>1
        <4> QED
          BY <2>1, <2>2, <3>1, <4>1, <4>2
      <3>2. CASE i \in 1 .. l /\ j \in l + 1 .. l + m
        <4>1. toStore'[i].id \in 1 .. k
          BY <1>4, <1>6, <3>2
        <4>2. toStore'[j].id = k + 1
          BY <1>4, <3>2
        <4> QED
          BY <1>1, <4>1, <4>2
      <3>3. CASE i \in l + 1 .. l + m /\ j \in l + 1 .. l + m
        BY <1>1, <1>4, <2>2, <3>3
      <3> QED
        BY <1>1, <2>2, <3>1, <3>2, <3>3
    <2>3. toStore'[l + m].id = k + 1
      BY <1>1, <1>4
    <2> QED
      BY <1>2, <1>4, <2>2, <2>3 DEF Ordered
  <1>9. ASSUME torn = {}
        PROVE  /\ toControl = <<>>
               /\ \A i \in 1 .. l : sent'[toStore'[i].id] = "test"
    BY <1>2, <1>4, <1>5, <1>6, <1>9 DEF Inv, Quiet, IsTest, l
  <1>10. Quiet'
    <2> SUFFICES ASSUME torn = {}, kind = "test"
                 PROVE  \A i \in 1 .. l + m : sent'[toStore'[i].id] = "test"
      BY <1>1, <1>4, <1>5, <1>9 DEF Quiet, IsTest
    <2> TAKE i \in 1 .. l + m
    <2>1. CASE i \in 1 .. l
      BY <1>9, <2>1
    <2>2. CASE i \in l + 1 .. l + m
      BY <1>2, <1>4, <2>2
    <2> QED
      BY <1>1, <2>1, <2>2
  <1>11. OneRequest'
    BY <1>1, <1>2, <1>4, <1>5, <1>9 DEF OneRequest, IsTest
  <1>12. Underway'
    <2> SUFFICES ASSUME torn = {}, kind # "test"
                 PROVE  \/ k + 1 > 1 /\ sent'[k] = "test"
                        \/ toStore'[1].part = 1 /\ toStore'[1].id = k + 1
      BY <1>1, <1>4, <1>5 DEF Underway
    <2>1. CASE l = 0
      BY <1>1, <1>4, <2>1
    <2>2. CASE l > 0
      <3>1. toStore[l].id = k
        BY <1>1, <2>2, EmptySeq DEF Inv, Ordered, l, k
      <3>2. l \in 1 .. l
        BY <1>1, <2>2
      <3>3. toStore'[l].id = k /\ k \in 1 .. k
        BY <1>4, <1>6, <3>1, <3>2
      <3>4. sent'[toStore'[l].id] = "test"
        BY <1>9, <3>2
      <3> QED
        BY <1>1, <3>3, <3>4
    <2> QED
      BY <1>1, <2>1, <2>2
  <1>13. Pending'
    <2> SUFFICES ASSUME "answer" \notin torn
                 PROVE  /\ toControl = <<>>
                        /\ \A i \in 1 .. l + m : toStore'[i].part = 1 =>
                             IsTest(toStore[i])' \/ toStore'[i].id = waiting'
      BY <1>4, <1>5 DEF Pending
    <2>1. toControl = <<>>
      BY <1>5 DEF Inv, Pending
    <2>2. ASSUME NEW i \in 1 .. l, toStore'[i].part = 1
          PROVE  sent'[toStore'[i].id] = "test"
      <3>1. toStore'[i] = toStore[i] /\ toStore[i].id \in 1 .. k
        BY <1>4, <1>6
      <3>2. sent[toStore[i].id] = "test"
        BY <1>1, <1>5, <1>6, <2>2, <3>1 DEF Inv, Pending, IsTest, l
      <3> QED
        BY <1>2, <3>1, <3>2
    <2>3. ASSUME NEW i \in l + 1 .. l + m
          PROVE  sent'[toStore'[i].id] = "test" \/ toStore'[i].id = waiting'
      BY <1>2, <1>4, <1>5
    <2> QED
      BY <1>1, <2>1, <2>2, <2>3 DEF IsTest
  <1>14. Matched'
    BY <1>5 DEF Inv, Matched
  <1> QED
    BY <1>7, <1>8, <1>10, <1>11, <1>12, <1>13, <1>14 DEF Inv

\* A pass of run() that tears no message takes the whole request waited for, or
\* nothing but tests from the front of the stream.
LEMMA StoreReceivesKeeps ==
  ASSUME Inv, NEW n \in 1 .. Len(toStore), StoreReceives(n)
  PROVE  Inv'
  <1> DEFINE l == Len(toStore)
             k == Len(sent)
             r == toStore[1]
             a == AnswerParts[sent[r.id]]
  <1>1. /\ toStore \in Seq(Message) /\ toControl \in Seq(Message)
        /\ l \in Nat /\ k \in Nat /\ n \in 1 .. l
        /\ Len(toControl) \in Nat
        /\ \A i \in 1 .. l : toStore[i].id \in 1 .. k
    BY LenProperties DEF Inv, Shape
  <1>2. /\ toStore' \in Seq(Message)
        /\ Len(toStore') = l - n
        /\ \A i \in 1 .. l - n : toStore'[i] = toStore[n + i]
        /\ n = l => toStore' = <<>>
        /\ torn' = IF toStore[n].final THEN torn ELSE torn \cup {"request"}
        /\ toControl' = IF r.part = 1 THEN toControl \o Parts(r.id, a) ELSE toControl
        /\ UNCHANGED <<store, control, sent, waiting, taken>>
        /\ toStore # <<>>
    BY <1>1, Received DEF StoreReceives, Served, Answer
  <1>3. r.id \in 1 .. k /\ sent[r.id] \in Kinds /\ a \in Nat
    <2>1. r.id \in 1 .. k
      BY <1>1
    <2>2. sent[r.id] \in Kinds
      BY <2>1, ElementOfSeq DEF Inv, Shape
    <2> QED
      BY <2>1, <2>2, PartsAssumption
  <1>4. r.part = 1 => Extends(toControl', toControl, r.id, a)
    <2> DEFINE i == r.id
    <2>1. i \in Nat
      BY <1>1, <1>3
    <2> HIDE DEF i, a
    <2>2. r.part = 1 => toControl' = toControl \o Parts(i, a)
      BY <1>2 DEF i
    <2>3. Extends(toControl \o Parts(i, a), toControl, i, a)
      BY <1>1, <1>3, <2>1, Sent
    <2> QED
      BY <2>2, <2>3 DEF i
  <1>5. a = 0 <=> sent[r.id] = "test"
    BY <1>3, PartsAssumption
  <1> HIDE DEF l, k, r, a
  <1>6. \A i \in 1 .. l - n : toStore'[i] = toStore[n + i] /\ n + i \in 1 .. l
    BY <1>1, <1>2
  <1>7. Shape'
    <2>1. \A i \in 1 .. Len(toStore') : toStore'[i].id \in 1 .. k
      BY <1>1, <1>2, <1>6
    <2>2. \A i \in 1 .. Len(toControl) : toControl[i].id \in 1 .. k
      BY DEF Inv, Shape, k
    <2>3. toControl' \in Seq(Message)
      BY <1>1, <1>2, <1>4 DEF Extends
    <2>4. \A i \in 1 .. Len(toControl') : toControl'[i].id \in 1 .. k
      <3>1. CASE r.part = 1
        <4>1. TAKE i \in 1 .. Len(toControl')
        <4>2. Len(toControl') = Len(toControl) + a
          BY <1>4, <3>1 DEF Extends
        <4>3. CASE i \in 1 .. Len(toControl)
          BY <1>4, <2>2, <3>1, <4>3 DEF Extends
        <4>4. CASE i \in Len(toControl) + 1 .. Len(toControl) + a
          BY <1>3, <1>4, <3>1, <4>4 DEF Extends
        <4> QED
          BY <1>1, <1>3, <4>2, <4>3, <4>4
      <3>2. CASE r.part # 1
        BY <1>2, <2>2, <3>2
      <3> QED
        BY <3>1, <3>2
    <2>5. torn' \subseteq {"request", "answer"}
      BY <1>2 DEF Inv, Shape
    <2> QED
      BY <1>2, <2>1, <2>3, <2>4, <2>5 DEF Inv, Shape, k
  <1>8. Ordered'
    <2>1. /\ \A i, j \in 1 .. l :
               i < j => /\ toStore[i].id <= toStore[j].id
                        /\ toStore[i].final => toStore[i].id < toStore[j].id
                        /\ toStore[j].part = 1 => toStore[i].id < toStore[j].id
          /\ toStore[l].id = k
      BY <1>2 DEF Inv, Ordered, l, k
    <2>2. ASSUME NEW i \in 1 .. l - n, NEW j \in 1 .. l - n, i < j
          PROVE  /\ toStore'[i].id <= toStore'[j].id
                 /\ toStore'[i].final => toStore'[i].id < toStore'[j].id
                 /\ toStore'[j].part = 1 => toStore'[i].id < toStore'[j].id
      <3>1. n + i < n + j
        BY <1>1, <2>2
      <3> QED
        BY <1>6, <2>1, <3>1
    <2>3. toStore' # <<>> => toStore'[l - n].id = k
      <3>1. SUFFICES ASSUME n # l
                     PROVE  toStore'[l - n].id = k
        BY <1>2
      <3>2. l - n \in 1 .. l - n /\ n + (l - n) = l
        BY <1>1, <3>1
      <3> QED
        BY <1>6, <2>1, <3>2
    <2> QED
      BY <1>2, <2>2, <2>3 DEF Ordered, k
  <1>9. ASSUME torn' = {}
        PROVE  torn = {} /\ toStore[n].final
    BY <1>2, <1>9 DEF Inv, Shape
  <1>10. Quiet'
    <2> SUFFICES ASSUME torn' = {}, waiting = 0
                 PROVE  /\ toControl' = <<>>
                        /\ \A i \in 1 .. l - n : sent[toStore'[i].id] = "test"
      BY <1>2 DEF Quiet, IsTest
    <2>1. /\ toControl = <<>>
          /\ \A i \in 1 .. l : sent[toStore[i].id] = "test"
      BY <1>9 DEF Inv, Quiet, IsTest, l
    <2>2. a = 0
      BY <1>1, <1>5, <2>1 DEF r
    <2>3. toControl' = <<>>
      BY <1>2, <1>4, <2>1, <2>2 DEF Extends
    <2> QED
      BY <1>2, <1>6, <2>1, <2>3 DEF IsTest
  <1>11. ASSUME torn' = {}, waiting # 0
         PROVE  /\ torn = {}
                /\ waiting = k
                /\ sent[waiting] # "test"
                /\ \A i \in 1 .. l : IsTest(toStore[i]) \/ toStore[i].id = waiting
                /\ toControl = <<>>
    BY <1>2, <1>9, <1>11 DEF Inv, Shape, OneRequest, l, k
  <1>12. ASSUME torn' = {}, waiting # 0, sent[r.id] # "test"
         PROVE  r.id = waiting /\ n = l
    <2>1. r.id = waiting
      BY <1>1, <1>11, <1>12 DEF IsTest, r
    <2>2. ASSUME n # l
          PROVE  FALSE
      <3>1. toStore[n].id < toStore[l].id
        BY <1>1, <1>9, <1>12, <2>2 DEF Inv, Ordered, l
      <3>2. r.id <= toStore[n].id
        <4>1. CASE n = 1
          BY <1>1, <4>1 DEF r
        <4>2. CASE n # 1
          BY <1>1, <4>2 DEF Inv, Ordered, l, r
        <4> QED
          BY <4>1, <4>2
      <3> QED
        BY <1>1, <1>11, <1>12, <2>1, <3>1, <3>2
    <2> QED
      BY <2>1, <2>2
  <1>13. OneRequest'
    <2> SUFFICES ASSUME torn' = {}, waiting # 0
                 PROVE  /\ sent[waiting] # "test"
                        /\ \A i \in 1 .. l - n :
                             sent[toStore'[i].id] = "test" \/ toStore'[i].id = waiting
                        /\ toControl' # <<>> => toStore' = <<>>
                        /\ \A i \in 1 .. Len(toControl') :
                             /\ toControl'[i].id = waiting
                             /\ toControl'[i].final => i = Len(toControl')
      BY <1>2 DEF OneRequest, IsTest
    <2>1. \A i \in 1 .. l - n : sent[toStore'[i].id] = "test" \/ toStore'[i].id = waiting
      BY <1>2, <1>6, <1>11 DEF IsTest
    <2>2. CASE r.part # 1 \/ sent[r.id] = "test"
      <3>1. toControl' = <<>>
        BY <1>2, <1>4, <1>5, <1>11, <2>2 DEF Extends
      <3> QED
        BY <1>11, <2>1, <3>1
    <2>3. CASE r.part = 1 /\ sent[r.id] # "test"
      <3>1. toStore' = <<>> /\ r.id = waiting
        BY <1>2, <1>12, <2>3
      <3>2. Len(toControl) = 0
        BY <1>11
      <3>3. Len(toControl') = a
        BY <1>3, <1>4, <2>3, <3>2 DEF Extends
      <3>4. \A i \in 1 .. a : /\ toControl'[i].id = waiting
                              /\ toControl'[i].final => i = a
        BY <1>3, <1>4, <2>3, <3>1, <3>2 DEF Extends
      <3> QED
        BY <1>11, <2>1, <3>1, <3>3, <3>4
    <2> QED
      BY <2>2, <2>3
  <1>14. Underway'
    <2> SUFFICES ASSUME torn' = {}, waiting # 0, ~(waiting > 1 /\ sent[waiting - 1] = "test")
                 PROVE  toControl' # <<>>
      BY <1>2 DEF Underway
    <2>1. r.part = 1 /\ r.id = waiting
      BY <1>11 DEF Inv, Underway, r
    <2>2. a > 0
      BY <1>3, <1>5, <1>11, <2>1
    <2> QED
      BY <1>4, <2>1, <2>2 DEF Extends
  <1>15. Pending'
    <2> SUFFICES ASSUME "answer" \notin torn
                 PROVE  Pending'
      BY <1>2 DEF Pending
    <2>1. /\ \A i \in 1 .. l : toStore[i].part = 1 =>
               sent[toStore[i].id] = "test" \/ (toStore[i].id = waiting /\ toControl = <<>>)
          /\ waiting = 0 => toControl = <<>>
          /\ \A i \in 1 .. Len(toControl) :
               /\ toControl[i].id = waiting
               /\ toControl[i].final => i = Len(toControl)
      BY DEF Inv, Pending, IsTest, l
    <2>2. CASE r.part # 1 \/ sent[r.id] = "test"
      <3>1. toControl' = toControl
        BY <1>2, <1>4, <1>5, <2>2 DEF Extends
      <3>2. \A i \in 1 .. l - n : toStore'[i].part = 1 =>
              sent[toStore'[i].id] = "test" \/ (toStore'[i].id = waiting /\ toControl = <<>>)
        BY <1>6, <2>1
      <3> QED
        BY <1>2, <2>1, <3>1, <3>2 DEF Pending, IsTest
    <2>3. CASE r.part = 1 /\ sent[r.id] # "test"
      <3>1. r.id = waiting /\ toControl = <<>>
        BY <1>1, <2>1, <2>3 DEF r
      <3>2. waiting = k /\ waiting # 0
        BY <1>1, <1>3, <3>1 DEF Inv, Shape, k
      <3>3. ASSUME NEW i \in 1 .. l - n, toStore'[i].part = 1
            PROVE  FALSE
        <4>1. toStore'[i] = toStore[n + i] /\ n + i \in 1 .. l /\ 1 < n + i /\ 1 \in 1 .. l
          BY <1>1, <1>6
        <4>2. toStore[1].id < toStore[n + i].id
          BY <3>3, <4>1 DEF Inv, Ordered, l
        <4> QED
          BY <1>1, <3>1, <3>2, <4>1, <4>2 DEF r
      <3>4. Len(toControl) = 0
        BY <3>1
      <3>5. Len(toControl') = a
        BY <1>3, <1>4, <2>3, <3>4 DEF Extends
      <3>6. \A i \in 1 .. a : /\ toControl'[i].id = waiting
                              /\ toControl'[i].final => i = a
        BY <1>3, <1>4, <2>3, <3>1, <3>4 DEF Extends
      <3> QED
        BY <1>2, <3>2, <3>3, <3>5, <3>6 DEF Pending
    <2> QED
      BY <2>2, <2>3
  <1>16. Matched'
    BY <1>2 DEF Inv, Matched
  <1> QED
    BY <1>7, <1>8, <1>10, <1>13, <1>14, <1>15, <1>16 DEF Inv

\* A receive_from of the control node that tears nothing takes all of the one
\* answer there is.
LEMMA ControlReceivesKeeps ==
  ASSUME Inv, NEW n \in 1 .. Len(toControl), ControlReceives(n)
  PROVE  Inv'
  <1> DEFINE l == Len(toControl)
             k == Len(sent)
  <1>1. /\ toControl \in Seq(Message)
        /\ l \in Nat /\ k \in Nat /\ n \in 1 .. l
        /\ \A i \in 1 .. l : toControl[i].id \in 1 .. k
        /\ k <= MaxRequests
    BY LenProperties DEF Inv, Shape
  <1>2. /\ toControl' \in Seq(Message)
        /\ Len(toControl') = l - n
        /\ \A i \in 1 .. l - n : toControl'[i] = toControl[n + i]
        /\ n = l => toControl' = <<>>
        /\ torn' = IF toControl[n].final THEN torn ELSE torn \cup {"answer"}
        /\ taken' = [want |-> waiting, own |-> toControl[1].id]
        /\ waiting # 0 /\ waiting' = 0
        /\ UNCHANGED <<store, control, sent, toStore>>
        /\ toControl # <<>>
    BY <1>1, Received DEF ControlReceives
  <1>3. waiting = k
    BY <1>2 DEF Inv, Shape
  <1> HIDE DEF l, k
  <1>4. Shape'
    <2>1. \A i \in 1 .. Len(toControl') : toControl'[i].id \in 1 .. k
      <3>1. \A i \in 1 .. l - n : n + i \in 1 .. l
        BY <1>1
      <3> QED
        BY <1>1, <1>2, <3>1
    <2>2. waiting \in 0 .. MaxRequests /\ toControl[1].id \in 0 .. MaxRequests
      BY <1>1, <1>3, MaxRequestsAssumption
    <2>3. taken' \in [want : 0 .. MaxRequests, own : 0 .. MaxRequests]
      BY <1>2, <2>2
    <2>4. torn' \subseteq {"request", "answer"}
      BY <1>2 DEF Inv, Shape
    <2> QED
      BY <1>2, <2>1, <2>3, <2>4 DEF Inv, Shape, k
  <1>5. Ordered'
    BY <1>2 DEF Inv, Ordered
  <1>6. ASSUME torn' = {}
        PROVE  /\ torn = {} /\ n = l
               /\ toControl[1].id = waiting
               /\ toStore = <<>>
    <2>1. torn = {} /\ toControl[n].final
      BY <1>2, <1>6 DEF Inv, Shape
    <2> QED
      BY <1>1, <1>2, <2>1 DEF Inv, OneRequest, l
  <1>7. Quiet'
    <2>1. ASSUME torn' = {}
          PROVE  toControl' = <<>> /\ Len(toStore') = 0
      <3>1. n = l /\ toStore = <<>>
        BY <1>6, <2>1
      <3> QED
        BY <1>2, <3>1
    <2> QED
      BY <2>1 DEF Quiet
  <1>8. OneRequest' /\ Underway'
    BY <1>2 DEF OneRequest, Underway
  <1>9. ASSUME "answer" \notin torn'
        PROVE  /\ "answer" \notin torn /\ n = l
               /\ toControl[1].id = waiting
    <2>1. "answer" \notin torn /\ toControl[n].final
      BY <1>2, <1>9
    <2> QED
      BY <1>1, <2>1 DEF Inv, Pending, l
  <1>10. Pending'
    <2> SUFFICES ASSUME "answer" \notin torn'
                 PROVE  \A i \in 1 .. Len(toStore) :
                          toStore[i].part = 1 => IsTest(toStore[i])
      BY <1>2, <1>9 DEF Pending, IsTest
    <2> QED
      BY <1>2, <1>9 DEF Inv, Pending
  <1>11. Matched'
    BY <1>2, <1>9 DEF Matched
  <1> QED
    BY <1>4, <1>5, <1>7, <1>8, <1>10, <1>11 DEF Inv

LEMMA NextKeeps == Inv /\ [Next]_vars => Inv'
  <1> SUFFICES ASSUME Inv, [Next]_vars
               PROVE  Inv'
    OBVIOUS
  <1>1. CASE Listen \/ Connect \/ Accept \/ SendUnconnected
    BY <1>1, SetUpKeeps
  <1>2. ASSUME NEW kind \in Kinds, Send(kind)
        PROVE  Inv'
    BY <1>2, SendKeeps
  <1>3. ASSUME NEW n \in 1 .. Len(toStore), StoreReceives(n)
        PROVE  Inv'
    BY <1>3, StoreReceivesKeeps
  <1>4. ASSUME NEW n \in 1 .. Len(toControl), ControlReceives(n)
        PROVE  Inv'
    BY <1>4, ControlReceivesKeeps
  <1>5. CASE UNCHANGED vars
    BY <1>5 DEF Inv, vars, Shape, Ordered, Quiet, OneRequest, Underway, Pending,
                Matched, IsTest
  <1> QED
    BY <1>1, <1>2, <1>3, <1>4, <1>5 DEF Next, StoreStep, ControlTakes

\* The inductive invariant holds whatever the kinds of requests are, in however
\* many parts they travel and however receive_from cuts the streams.
THEOREM InductiveStreams == Spec => []Inv
  BY InitInv, NextKeeps, PTL DEF Spec

\* The answers of run() carry no request number, and yet receive_from hands the
\* control node the answer to its own request and leaves nothing behind, as long
\* as no answer was torn; requests may be torn, and sent behind a torn one.
THEOREM AnswersAreMatched == Spec => []AnswersMatch
  <1>1. Inv => AnswersMatch
    BY DEF Inv, Matched, Pending, AnswersMatch
  <1> QED
    BY <1>1, InductiveStreams, PTL

\* The one way to wait for ever, without a torn message, is a request that was
\* sent right after a test: run() does not answer the test, and drops what it
\* received together with it.
THEOREM OnlyTestHidesARequest == Spec => []StuckOnlyBehindTest
  <1>1. Inv => StuckOnlyBehindTest
    BY DEF Inv, Underway, StuckOnlyBehindTest, Stuck
  <1> QED
    BY <1>1, InductiveStreams, PTL
=============================================================================
