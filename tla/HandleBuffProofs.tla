-------------------------- MODULE HandleBuffProofs --------------------------
(***************************************************************************)
(* Proofs about the encoding: whatever the buffers and the stack held, a   *)
(* message is decoded as it was encoded, and the log keeps its entries in  *)
(* the order of their fields.                                              *)
(*                                                                         *)
(* Both follow from where the bytes of a field lie.  Holds says that a     *)
(* buffer has a field at an offset; inserting a field gives this for the   *)
(* new field and leaves what lies before it alone, and a get call at that  *)
(* offset returns the field, ending at the NUL that was sent with it.      *)
(***************************************************************************)
EXTENDS HandleBuff, SequenceTheorems, TLAPS

Bytes == 0 .. Base - 1

Buffers == [1 .. BuffLen -> Bytes]

Fields == {Int1(i) : i \in 0 .. Base * Base - 1} \cup {Str(s) : s \in Strings}

\* The bytes a field takes.
Width(f) == IF f.kind = "int" THEN 2 ELSE Len(f.s) + 3

\* Buffer b has the bytes of field f behind offset at.
Holds(b, at, f) ==
  IF f.kind = "int"
  THEN b[at + 1] = f.i % Base /\ b[at + 2] = f.i \div Base
  ELSE /\ b[at + 1] = (Len(f.s) + 1) % Base
       /\ b[at + 2] = (Len(f.s) + 1) \div Base
       /\ \A x \in 1 .. Len(f.s) : b[at + 2 + x] = f.s[x]
       /\ b[at + 3 + Len(f.s)] = NUL

\* Buffer c has what b has up to offset at.
SameUpTo(b, c, at) == \A x \in 1 .. at : c[x] = b[x]

-----------------------------------------------------------------------------
(* Bytes.                                                                  *)

LEMMA TwoBytes ==
  ASSUME NEW i \in 0 .. Base * Base - 1
  PROVE  i % Base \in Bytes /\ i \div Base \in Bytes /\ (i % Base) + Base * (i \div Base) = i
<1>1. Base \in Nat /\ Base > 2
  BY BaseAssumption
<1>2. i % Base \in Bytes /\ (i % Base) + Base * (i \div Base) = i
  BY <1>1 DEF Bytes
<1>3. i \div Base \in Bytes
  BY <1>1 DEF Bytes
<1> QED BY <1>2, <1>3

LEMMA OneByte ==
  ASSUME NEW i \in Bytes
  PROVE  i % Base = i /\ i \div Base = 0
BY BaseAssumption DEF Bytes

LEMMA StringFacts ==
  ASSUME NEW s \in Strings
  PROVE  /\ s \in Seq(1 .. Base - 1) /\ s \in Seq(Bytes) /\ Len(s) \in Nat
         /\ Len(s) + 1 \in 0 .. Base * Base - 1 /\ Len(s) + 1 <= BuffLen
         /\ \A x \in 1 .. Len(s) : s[x] \in 1 .. Base - 1
<1>1. s \in Seq(1 .. Base - 1)
  BY StringsAssumption
<1>2. 1 .. Base - 1 \subseteq Bytes
  BY BaseAssumption DEF Bytes
<1>3. s \in Seq(Bytes)
  BY <1>1, <1>2, SeqMonotonic
<1>4. Len(s) \in Nat /\ \A x \in 1 .. Len(s) : s[x] \in 1 .. Base - 1
  BY <1>1, LenProperties, ElementOfSeq
<1>5. Len(s) + 1 \in 0 .. Base * Base - 1 /\ Len(s) + 1 <= BuffLen
  <2>1. PICK w \in Words : Len(w) \in Nat
    <3>1. \A w \in Words : w \in Seq(1 .. Base - 1)
      BY StringsAssumption, WordsAssumption
    <3> QED BY <3>1, WordsAssumption, LenProperties
  <2> QED BY <1>4, <2>1, LenAssumption, BaseAssumption
<1> QED BY <1>1, <1>3, <1>4, <1>5

\* memcpy of bytes to offset at.
LEMMA WriteFacts ==
  ASSUME NEW b \in Buffers, NEW at \in Nat, NEW bytes \in Seq(Bytes), at + Len(bytes) <= BuffLen
  PROVE  /\ Write(b, at, bytes) \in Buffers
         /\ \A x \in 1 .. Len(bytes) : Write(b, at, bytes)[at + x] = bytes[x]
         /\ SameUpTo(b, Write(b, at, bytes), at)
<1> DEFINE w == Write(b, at, bytes)
<1>1. Len(bytes) \in Nat /\ \A x \in 1 .. Len(bytes) : bytes[x] \in Bytes
  BY LenProperties, ElementOfSeq
<1>2. BuffLen \in Nat
  BY LenAssumption
<1>3. \A x \in 1 .. BuffLen :
        w[x] = IF x \in at + 1 .. at + Len(bytes) THEN bytes[x - at] ELSE b[x]
  BY DEF Write
<1>4. w \in Buffers
  <2>1. \A x \in 1 .. BuffLen : w[x] \in Bytes
    <3> TAKE x \in 1 .. BuffLen
    <3>1. CASE x \in at + 1 .. at + Len(bytes)
      <4>1. x - at \in 1 .. Len(bytes)
        BY <1>1, <3>1
      <4> QED BY <1>1, <1>3, <3>1, <4>1
    <3>2. CASE x \notin at + 1 .. at + Len(bytes)
      BY <1>3, <3>2 DEF Buffers
    <3> QED BY <3>1, <3>2
  <2>2. w = [x \in 1 .. BuffLen |-> w[x]]
    BY DEF Write
  <2> HIDE DEF w
  <2> QED BY <2>1, <2>2 DEF Buffers
<1>5. \A x \in 1 .. Len(bytes) : w[at + x] = bytes[x]
  <2> TAKE x \in 1 .. Len(bytes)
  <2>1. at + x \in 1 .. BuffLen /\ at + x \in at + 1 .. at + Len(bytes) /\ (at + x) - at = x
    BY <1>1, <1>2
  <2> QED BY <1>3, <2>1
<1>6. SameUpTo(b, w, at)
  <2> SUFFICES ASSUME NEW x \in 1 .. at
               PROVE  w[x] = b[x]
    BY DEF SameUpTo
  <2>1. x \in 1 .. BuffLen /\ x \notin at + 1 .. at + Len(bytes)
    BY <1>1, <1>2
  <2> QED BY <1>3, <2>1
<1> QED BY <1>4, <1>5, <1>6

-----------------------------------------------------------------------------
(* One field.                                                              *)

LEMMA IntInserted ==
  ASSUME NEW c, c.b \in Buffers, c.at \in Nat, NEW i \in 0 .. Base * Base - 1,
         c.at + 2 <= BuffLen
  PROVE  /\ InsertInt(c, i).b \in Buffers
         /\ InsertInt(c, i).at = c.at + 2
         /\ Holds(InsertInt(c, i).b, c.at, Int1(i))
         /\ SameUpTo(c.b, InsertInt(c, i).b, c.at)
<1> DEFINE bytes == IntBytes(i)
           at    == c.at
           b     == c.b
           w     == Write(b, at, bytes)
<1>1. /\ bytes \in Seq(Bytes) /\ Len(bytes) = 2
      /\ bytes[1] = i % Base /\ bytes[2] = i \div Base
  BY TwoBytes DEF IntBytes
<1>2. InsertInt(c, i).b = w /\ InsertInt(c, i).at = at + 2
  BY DEF InsertInt, SizeOfInt
<1>3. b \in Buffers /\ at \in Nat /\ at + 2 <= BuffLen
  OBVIOUS
<1> HIDE DEF bytes, at, b
<1>4. /\ w \in Buffers /\ SameUpTo(b, w, at)
      /\ \A x \in 1 .. Len(bytes) : w[at + x] = bytes[x]
  BY <1>1, <1>3, WriteFacts
<1>5. w[at + 1] = i % Base /\ w[at + 2] = i \div Base
  BY <1>1, <1>4
<1>6. Int1(i).kind = "int" /\ Int1(i).i = i
  BY DEF Int1
<1> HIDE DEF w
<1>7. Holds(w, at, Int1(i))
  BY <1>5, <1>6 DEF Holds
<1> QED BY <1>2, <1>4, <1>7 DEF at, b

LEMMA StrInserted ==
  ASSUME NEW c, c.b \in Buffers, c.at \in Nat, NEW s \in Strings,
         c.at + Len(s) + 3 <= BuffLen
  PROVE  /\ InsertStr(c, s).b \in Buffers
         /\ InsertStr(c, s).at = c.at + Len(s) + 3
         /\ Holds(InsertStr(c, s).b, c.at, Str(s))
         /\ SameUpTo(c.b, InsertStr(c, s).b, c.at)
<1> DEFINE at    == c.at
           b     == c.b
           l     == Len(s)
           head  == IntBytes(l + 1)
           body  == Append(s, NUL)
           bytes == head \o body
           w     == Write(b, at, bytes)
<1>1. /\ s \in Seq(Bytes) /\ l \in Nat /\ l + 1 \in 0 .. Base * Base - 1
  BY StringFacts
<1>2. b \in Buffers /\ at \in Nat /\ at + l + 3 <= BuffLen
  OBVIOUS
<1>3. NUL \in Bytes
  BY BaseAssumption DEF NUL, Bytes
<1>4. /\ body \in Seq(Bytes) /\ Len(body) = l + 1 /\ body[l + 1] = NUL
      /\ \A x \in 1 .. l : body[x] = s[x]
  BY <1>1, <1>3, AppendProperties
<1>5. SubSeq(body, 1, l + 1) = body
  BY <1>4, SubSeqFull
<1>6. InsertStr(c, s).b = Write(b, at, head \o SubSeq(body, 1, l + 1))
      /\ InsertStr(c, s).at = at + Len(head \o SubSeq(body, 1, l + 1))
  BY DEF InsertStr, StrLen
<1> HIDE DEF body, at, b, l
<1>7. /\ head \in Seq(Bytes) /\ Len(head) = 2
      /\ head[1] = (l + 1) % Base /\ head[2] = (l + 1) \div Base
  BY <1>1, TwoBytes DEF IntBytes
<1> HIDE DEF head
<1>8. /\ bytes \in Seq(Bytes) /\ Len(bytes) = l + 3
      /\ \A x \in 1 .. l + 3 : bytes[x] = IF x <= 2 THEN head[x] ELSE body[x - 2]
  <2>1. /\ bytes \in Seq(Bytes) /\ Len(bytes) = Len(head) + Len(body)
        /\ \A x \in 1 .. Len(head) + Len(body) :
             bytes[x] = IF x <= Len(head) THEN head[x] ELSE body[x - Len(head)]
    BY <1>4, <1>7, ConcatProperties
  <2>2. Len(head) + Len(body) = l + 3
    BY <1>1, <1>4, <1>7
  <2> QED BY <1>7, <2>1, <2>2
<1>9. InsertStr(c, s).b = w /\ InsertStr(c, s).at = at + l + 3
  <2>1. InsertStr(c, s).b = w /\ InsertStr(c, s).at = at + Len(bytes)
    BY <1>5, <1>6, Zenon
  <2> HIDE DEF bytes
  <2> QED BY <1>1, <1>2, <1>8, <2>1
<1> HIDE DEF bytes
<1>10. /\ w \in Buffers /\ SameUpTo(b, w, at)
       /\ \A x \in 1 .. l + 3 : w[at + x] = bytes[x]
  <2>1. at + Len(bytes) <= BuffLen
    BY <1>1, <1>2, <1>8
  <2>2. /\ w \in Buffers /\ SameUpTo(b, w, at)
        /\ \A x \in 1 .. Len(bytes) : w[at + x] = bytes[x]
    BY <1>2, <1>8, <2>1, WriteFacts
  <2> QED BY <1>8, <2>2
<1> HIDE DEF w
<1>11. w[at + 1] = (l + 1) % Base /\ w[at + 2] = (l + 1) \div Base
  BY <1>1, <1>7, <1>8, <1>10
<1>12. ASSUME NEW x \in 1 .. l PROVE w[at + 2 + x] = s[x]
  <2>1. x + 2 \in 1 .. l + 3 /\ ~(x + 2 <= 2) /\ (x + 2) - 2 = x /\ at + (x + 2) = at + 2 + x
    BY <1>1, <1>2
  <2> QED BY <1>4, <1>8, <1>10, <2>1
<1>13. w[at + 3 + l] = NUL
  <2>1. l + 3 \in 1 .. l + 3 /\ ~(l + 3 <= 2) /\ (l + 3) - 2 = l + 1 /\ at + (l + 3) = at + 3 + l
    BY <1>1, <1>2
  <2> QED BY <1>4, <1>8, <1>10, <2>1
<1>14. Str(s).kind = "string" /\ Str(s).s = s
  BY DEF Str
<1>15. Holds(w, at, Str(s))
  BY <1>11, <1>12, <1>13, <1>14 DEF Holds, l
<1> QED BY <1>9, <1>10, <1>15 DEF at, b, l

LEMMA FieldFacts ==
  ASSUME NEW f \in Fields
  PROVE  /\ Width(f) \in Nat \ {0}
         /\ \/ f.kind = "int" /\ f.i \in 0 .. Base * Base - 1 /\ f = Int1(f.i) /\ Width(f) = 2
            \/ f.kind # "int" /\ f.s \in Strings /\ f = Str(f.s) /\ Width(f) = Len(f.s) + 3
<1>1. CASE \E i \in 0 .. Base * Base - 1 : f = Int1(i)
  BY <1>1 DEF Width, Int1
<1>2. CASE \E s \in Strings : f = Str(s)
  <2>1. PICK s \in Strings : f = Str(s)
    BY <1>2
  <2>2. f.kind = "string" /\ f.s = s
    BY <2>1 DEF Str
  <2>3. Len(s) \in Nat
    BY StringFacts
  <2> QED BY <2>1, <2>2, <2>3 DEF Width
<1> QED BY <1>1, <1>2 DEF Fields

\* A field is where it was inserted, behind the older ones.
LEMMA FieldInserted ==
  ASSUME NEW c, c.b \in Buffers, c.at \in Nat, NEW m, NEW n \in DOMAIN m, m[n] \in Fields,
         c.at + Width(m[n]) <= BuffLen
  PROVE  /\ InsertField(c, m, n).b \in Buffers
         /\ InsertField(c, m, n).at = c.at + Width(m[n])
         /\ Holds(InsertField(c, m, n).b, c.at, m[n])
         /\ SameUpTo(c.b, InsertField(c, m, n).b, c.at)
<1> DEFINE f == m[n]
<1>1. CASE f.kind = "int"
  <2>1. f.i \in 0 .. Base * Base - 1 /\ f = Int1(f.i) /\ Width(f) = 2
    BY <1>1, FieldFacts
  <2>2. InsertField(c, m, n) = InsertInt(c, f.i)
    BY <1>1 DEF InsertField
  <2> QED BY <2>1, <2>2, IntInserted
<1>2. CASE f.kind # "int"
  <2>1. f.s \in Strings /\ f = Str(f.s) /\ Width(f) = Len(f.s) + 3 /\ Len(f.s) \in Nat
    BY <1>2, FieldFacts, StringFacts
  <2>2. InsertField(c, m, n) = InsertStr(c, f.s)
    BY <1>2 DEF InsertField
  <2>3. c.at + Len(f.s) + 3 <= BuffLen /\ c.at + Len(f.s) + 3 = c.at + Width(f)
    BY <2>1
  <2> QED BY <2>1, <2>2, <2>3, StrInserted
<1> QED BY <1>1, <1>2

\* What is written behind a field leaves it alone.
LEMMA FieldStays ==
  ASSUME NEW b, NEW c, NEW at \in Nat, NEW f \in Fields, Holds(b, at, f),
         NEW end \in Nat, at + Width(f) <= end, SameUpTo(b, c, end)
  PROVE  Holds(c, at, f)
<1>1. CASE f.kind = "int"
  <2>1. Width(f) = 2
    BY <1>1 DEF Width
  <2>2. at + 1 \in 1 .. end /\ at + 2 \in 1 .. end
    BY <2>1
  <2> QED BY <1>1, <2>2 DEF Holds, SameUpTo
<1>2. CASE f.kind # "int"
  <2> DEFINE l == Len(f.s)
  <2>1. l \in Nat /\ Width(f) = l + 3
    BY <1>2, FieldFacts, StringFacts
  <2> HIDE DEF l
  <2>2. /\ at + 1 \in 1 .. end /\ at + 2 \in 1 .. end /\ at + 3 + l \in 1 .. end
        /\ \A x \in 1 .. l : at + 2 + x \in 1 .. end
    BY <2>1
  <2> QED BY <1>2, <2>2 DEF Holds, SameUpTo, l
<1> QED BY <1>1, <1>2

\* The int in front of a field.
LEMMA IntRead ==
  ASSUME NEW d, NEW f \in Fields, Holds(d.b, d.at, f)
  PROVE  GetInt(d) = IF f.kind = "int" THEN f.i ELSE Len(f.s) + 1
<1>1. CASE f.kind = "int"
  <2> DEFINE i == f.i
  <2>1. d.b[d.at + 1] = i % Base /\ d.b[d.at + 2] = i \div Base
    BY <1>1 DEF Holds
  <2>2. i \in 0 .. Base * Base - 1
    BY <1>1, FieldFacts
  <2> HIDE DEF i
  <2>3. (i % Base) + Base * (i \div Base) = i
    BY <2>2, TwoBytes
  <2>4. GetInt(d) = i
    BY <2>1, <2>3 DEF GetInt
  <2> QED BY <1>1, <2>4 DEF i
<1>2. CASE f.kind # "int"
  <2> DEFINE i == Len(f.s) + 1
  <2>1. d.b[d.at + 1] = i % Base /\ d.b[d.at + 2] = i \div Base
    BY <1>2 DEF Holds
  <2>2. i \in 0 .. Base * Base - 1
    BY <1>2, FieldFacts, StringFacts
  <2> HIDE DEF i
  <2>3. (i % Base) + Base * (i \div Base) = i
    BY <2>2, TwoBytes
  <2>4. GetInt(d) = i
    BY <2>1, <2>3 DEF GetInt
  <2> QED BY <1>2, <2>4 DEF i
<1> QED BY <1>1, <1>2

\* A string decoded through the stack ends at its own NUL.
LEMMA StringRead ==
  ASSUME NEW stack \in Buffers, NEW s \in Strings, Len(s) + 1 <= BuffLen,
         \A x \in 1 .. Len(s) : stack[x] = s[x], stack[Len(s) + 1] = NUL
  PROVE  StackString(stack) = s
<1> DEFINE l == Len(s)
           IsEnd(x) == stack[x] = NUL /\ \A y \in 1 .. x - 1 : stack[y] # NUL
<1>1. l \in Nat /\ s \in Seq(Bytes) /\ BuffLen \in Nat /\ \A x \in 1 .. l : s[x] # NUL
  BY StringFacts, LenAssumption, BaseAssumption DEF NUL
<1>2. l + 1 \in 1 .. BuffLen /\ IsEnd(l + 1)
  BY <1>1
<1>3. ASSUME NEW x \in 1 .. BuffLen, IsEnd(x) PROVE x = l + 1
  <2>1. CASE x < l + 1
    <3>1. x \in 1 .. l
      BY <1>1, <2>1
    <3> QED BY <1>1, <1>3, <3>1
  <2>2. CASE x > l + 1
    <3>1. l + 1 \in 1 .. x - 1
      BY <1>1, <2>2
    <3> QED BY <1>3, <3>1
  <2> QED BY <1>1, <2>1, <2>2
<1>4. (CHOOSE x \in 1 .. BuffLen : IsEnd(x)) = l + 1
  BY <1>2, <1>3
<1>5. StackString(stack) = SubSeq(stack, 1, (CHOOSE x \in 1 .. BuffLen : IsEnd(x)) - 1)
  BY Zenon DEF StackString
<1>6. StackString(stack) = SubSeq(stack, 1, l)
  <2>1. (l + 1) - 1 = l
    BY <1>1
  <2> QED BY <1>4, <1>5, <2>1
<1> HIDE DEF l
<1>7. /\ SubSeq(stack, 1, l) \in Seq(Bytes) /\ Len(SubSeq(stack, 1, l)) = l
      /\ \A x \in 1 .. l : SubSeq(stack, 1, l)[x] = stack[x]
  <2>1. \A x \in 1 .. l : stack[x] \in Bytes
    BY <1>1, <1>2 DEF Buffers
  <2>2. /\ SubSeq(stack, 1, l) \in Seq(Bytes)
        /\ Len(SubSeq(stack, 1, l)) = IF 1 <= l THEN l - 1 + 1 ELSE 0
        /\ \A x \in 1 .. l - 1 + 1 : SubSeq(stack, 1, l)[x] = stack[1 + x - 1]
    BY <1>1, <2>1, SubSeqProperties
  <2> QED BY <1>1, <2>2
<1>8. SubSeq(stack, 1, l) = s
  BY <1>1, <1>7, SeqEqual DEF l
<1> QED BY <1>6, <1>8

\* A get call at a field returns it and moves behind it.
LEMMA FieldGot ==
  ASSUME NEW d, d.b \in Buffers, d.stack \in Buffers, d.at \in Nat,
         NEW f \in Fields, Holds(d.b, d.at, f), d.at + Width(f) <= BuffLen,
         NEW kinds, NEW n \in DOMAIN kinds, kinds[n] = f.kind
  PROVE  /\ GetField(d, kinds, n).b = d.b
         /\ GetField(d, kinds, n).at = d.at + Width(f)
         /\ GetField(d, kinds, n).stack \in Buffers
         /\ GetField(d, kinds, n).out = Append(d.out, f)
<1>1. CASE f.kind = "int"
  <2>1. GetInt(d) = f.i /\ f = Int1(f.i) /\ Width(f) = 2
    BY <1>1, IntRead, FieldFacts
  <2>2. GetField(d, kinds, n) = [b |-> d.b, at |-> d.at + 2, stack |-> d.stack,
                                 out |-> Append(d.out, Int1(GetInt(d)))]
    BY <1>1 DEF GetField, SizeOfInt
  <2> QED BY <2>1, <2>2
<1>2. CASE f.kind # "int"
  <2> DEFINE s     == f.s
             l     == Len(s)
             at    == d.at
             b     == d.b
             bytes == SubSeq(b, at + 3, at + l + 3)
             st    == d.stack
             w     == Write(st, 0, bytes)
  <2>1. /\ s \in Strings /\ f = Str(s) /\ Width(f) = l + 3 /\ l \in Nat
        /\ GetInt(d) = l + 1
    BY <1>2, IntRead, FieldFacts, StringFacts
  <2>2. GetField(d, kinds, n) = [b |-> b, at |-> at + 2 + GetInt(d), stack |-> CopyToStack(d, d.stack),
                                 out |-> Append(d.out, Str(StackString(CopyToStack(d, d.stack))))]
    BY <1>2 DEF GetField, SizeOfInt
  <2>3. /\ at \in Nat /\ b \in Buffers /\ at + l + 3 <= BuffLen /\ BuffLen \in Nat
        /\ st \in Buffers
    BY <2>1, LenAssumption
  <2>4. /\ \A x \in 1 .. l : b[at + 2 + x] = s[x]
        /\ b[at + 3 + l] = NUL
    BY <1>2 DEF Holds
  <2>5. CopyToStack(d, d.stack) = Write(st, 0, SubSeq(b, at + 2 + 1, at + 2 + (l + 1)))
    BY <2>1 DEF CopyToStack, SizeOfInt
  <2> HIDE DEF s, l, at, b, st
  <2>6. at + 2 + 1 = at + 3 /\ at + 2 + (l + 1) = at + l + 3
    BY <2>1, <2>3
  <2>7. CopyToStack(d, d.stack) = w
    BY <2>5, <2>6
  <2>8. /\ bytes \in Seq(Bytes) /\ Len(bytes) = l + 1
        /\ \A x \in 1 .. l + 1 : bytes[x] = b[at + 2 + x]
    <3>1. \A x \in at + 3 .. at + l + 3 : b[x] \in Bytes
      BY <2>1, <2>3 DEF Buffers
    <3>2. /\ bytes \in Seq(Bytes)
          /\ Len(bytes) = IF at + 3 <= at + l + 3 THEN (at + l + 3) - (at + 3) + 1 ELSE 0
          /\ \A x \in 1 .. (at + l + 3) - (at + 3) + 1 : bytes[x] = b[(at + 3) + x - 1]
      BY <2>1, <2>3, <3>1, SubSeqProperties
    <3>3. at + 3 <= at + l + 3 /\ (at + l + 3) - (at + 3) + 1 = l + 1
      BY <2>1, <2>3
    <3>4. \A x \in 1 .. l + 1 : (at + 3) + x - 1 = at + 2 + x
      BY <2>1, <2>3
    <3> HIDE DEF bytes
    <3> QED BY <3>2, <3>3, <3>4
  <2> HIDE DEF bytes
  <2>9. 0 + Len(bytes) <= BuffLen /\ l + 1 <= BuffLen
    BY <2>1, <2>3, <2>8
  <2>10. w \in Buffers /\ \A x \in 1 .. Len(bytes) : w[0 + x] = bytes[x]
    <3>1. 0 \in Nat
      OBVIOUS
    <3> QED BY <2>3, <2>8, <2>9, <3>1, WriteFacts, Zenon
  <2> HIDE DEF w
  <2>11. (\A x \in 1 .. l : w[x] = s[x]) /\ w[l + 1] = NUL
    <3>1. ASSUME NEW x \in 1 .. l + 1 PROVE w[x] = b[at + 2 + x]
      BY <2>1, <2>8, <2>10
    <3>2. at + 2 + (l + 1) = at + 3 + l /\ l + 1 \in 1 .. l + 1 /\ \A x \in 1 .. l : x \in 1 .. l + 1
      BY <2>1, <2>3
    <3> QED BY <2>4, <3>1, <3>2
  <2>12. StackString(w) = s
    BY <2>1, <2>9, <2>10, <2>11, StringRead DEF l
  <2>13. at + 2 + GetInt(d) = at + Width(f)
    BY <2>1, <2>3
  <2> QED BY <2>1, <2>2, <2>7, <2>10, <2>12, <2>13 DEF at, b
<1> QED BY <1>1, <1>2

-----------------------------------------------------------------------------
(* A message: up to four fields, one behind the other.                     *)

FieldWidth(m, n) == IF n \in DOMAIN m THEN Width(m[n]) ELSE 0

\* The offset of the n-th field; Offset(m, 5) is total_len.
Offset(m, n) ==
  (IF n > 1 THEN FieldWidth(m, 1) ELSE 0) + (IF n > 2 THEN FieldWidth(m, 2) ELSE 0)
    + (IF n > 3 THEN FieldWidth(m, 3) ELSE 0) + (IF n > 4 THEN FieldWidth(m, 4) ELSE 0)

IsMessage(m) == m \in Seq(Fields) /\ Len(m) \in 1 .. 4 /\ Offset(m, 5) <= BuffLen

\* The first n fields of m lie in buffer b.
Laid(b, m, n) == \A k \in 1 .. n : k \in DOMAIN m => Holds(b, Offset(m, k), m[k])

LEMMA FieldWidthFacts ==
  ASSUME NEW m, m \in Seq(Fields), NEW n \in Nat
  PROVE  /\ FieldWidth(m, n) \in Nat
         /\ n \in DOMAIN m => m[n] \in Fields /\ FieldWidth(m, n) = Width(m[n])
<1>1. n \in DOMAIN m => m[n] \in Fields
  BY LenProperties, ElementOfSeq
<1> QED BY <1>1, FieldFacts DEF FieldWidth

LEMMA OffsetFacts ==
  ASSUME NEW m, IsMessage(m)
  PROVE  /\ Offset(m, 1) = 0
         /\ \A n \in 1 .. 5 : Offset(m, n) \in Nat /\ Offset(m, n) <= Offset(m, 5)
         /\ \A n \in 1 .. 4 : Offset(m, n + 1) = Offset(m, n) + FieldWidth(m, n)
         /\ \A n \in 1 .. 4 : \A k \in 1 .. n - 1 : Offset(m, k + 1) <= Offset(m, n)
         /\ Offset(m, 5) <= BuffLen
<1>1. /\ FieldWidth(m, 1) \in Nat /\ FieldWidth(m, 2) \in Nat
      /\ FieldWidth(m, 3) \in Nat /\ FieldWidth(m, 4) \in Nat
  BY FieldWidthFacts DEF IsMessage
<1>2. /\ Offset(m, 1) = 0 /\ Offset(m, 2) = FieldWidth(m, 1)
      /\ Offset(m, 3) = FieldWidth(m, 1) + FieldWidth(m, 2)
      /\ Offset(m, 4) = FieldWidth(m, 1) + FieldWidth(m, 2) + FieldWidth(m, 3)
      /\ Offset(m, 5) = FieldWidth(m, 1) + FieldWidth(m, 2) + FieldWidth(m, 3) + FieldWidth(m, 4)
  BY <1>1 DEF Offset
<1>3. 1 .. 4 = {1, 2, 3, 4} /\ 1 .. 5 = {1, 2, 3, 4, 5}
  OBVIOUS
<1>4. \A n \in 1 .. 5 : Offset(m, n) \in Nat /\ Offset(m, n) <= Offset(m, 5)
  BY <1>1, <1>2, <1>3
<1>5. \A n \in 1 .. 4 : Offset(m, n + 1) = Offset(m, n) + FieldWidth(m, n)
  <2>1. /\ Offset(m, 1 + 1) = Offset(m, 1) + FieldWidth(m, 1)
        /\ Offset(m, 2 + 1) = Offset(m, 2) + FieldWidth(m, 2)
        /\ Offset(m, 3 + 1) = Offset(m, 3) + FieldWidth(m, 3)
        /\ Offset(m, 4 + 1) = Offset(m, 4) + FieldWidth(m, 4)
    BY <1>1, <1>2
  <2> QED BY <1>3, <2>1
<1>6. /\ Offset(m, 2) <= Offset(m, 2) /\ Offset(m, 2) <= Offset(m, 3) /\ Offset(m, 2) <= Offset(m, 4)
      /\ Offset(m, 3) <= Offset(m, 3) /\ Offset(m, 3) <= Offset(m, 4) /\ Offset(m, 4) <= Offset(m, 4)
  BY <1>1, <1>2
<1>7. \A n \in 1 .. 4 : \A k \in 1 .. n - 1 : Offset(m, k + 1) <= Offset(m, n)
  <2>1. \A n \in 1 .. 4 : \A k \in 1 .. n - 1 :
          <<k + 1, n>> \in {<<2, 2>>, <<2, 3>>, <<2, 4>>, <<3, 3>>, <<3, 4>>, <<4, 4>>}
    OBVIOUS
  <2> QED BY <1>6, <2>1
<1> QED BY <1>2, <1>4, <1>5, <1>7 DEF IsMessage

\* What lies in a buffer lies in every buffer that agrees with it so far.
LEMMA LaidStays ==
  ASSUME NEW m, IsMessage(m), NEW n \in 0 .. 4, NEW b, NEW c, Laid(b, m, n),
         SameUpTo(b, c, Offset(m, n + 1))
  PROVE  Laid(c, m, n)
<1> SUFFICES ASSUME NEW k \in 1 .. n, k \in DOMAIN m
             PROVE  Holds(c, Offset(m, k), m[k])
  BY DEF Laid
<1>1. m[k] \in Fields /\ FieldWidth(m, k) = Width(m[k])
  BY FieldWidthFacts DEF IsMessage
<1>2. /\ k \in 1 .. 4 /\ n + 1 \in 1 .. 5 /\ k \in 1 .. 5
      /\ (n + 1 = 5 \/ (n + 1 \in 1 .. 4 /\ k \in 1 .. (n + 1) - 1))
  OBVIOUS
<1>3. /\ Offset(m, k) \in Nat /\ Offset(m, n + 1) \in Nat
      /\ Offset(m, k + 1) = Offset(m, k) + Width(m[k])
  BY <1>1, <1>2, OffsetFacts
<1>4. k + 1 \in 1 .. 5
  BY <1>2
<1>5. Offset(m, k + 1) <= Offset(m, n + 1)
  BY <1>2, <1>4, OffsetFacts
<1>6. Holds(b, Offset(m, k), m[k])
  BY DEF Laid
<1> QED BY <1>1, <1>3, <1>5, <1>6, FieldStays

LEMMA EncodeStep ==
  ASSUME NEW m, IsMessage(m), NEW n \in 1 .. 4, NEW c, c.b \in Buffers,
         c.at = Offset(m, n), Laid(c.b, m, n - 1)
  PROVE  /\ InsertField(c, m, n).b \in Buffers
         /\ InsertField(c, m, n).at = Offset(m, n + 1)
         /\ Laid(InsertField(c, m, n).b, m, n)
<1>1. CASE n \notin DOMAIN m
  <2>1. InsertField(c, m, n) = c
    BY <1>1 DEF InsertField
  <2>2. FieldWidth(m, n) = 0
    BY <1>1 DEF FieldWidth
  <2>3. Offset(m, n + 1) = Offset(m, n)
    BY <2>2, OffsetFacts
  <2>4. \A k \in 1 .. n : k = n \/ k \in 1 .. n - 1
    OBVIOUS
  <2>5. Laid(c.b, m, n)
    BY <1>1, <2>4 DEF Laid
  <2> QED BY <2>1, <2>3, <2>5
<1>2. CASE n \in DOMAIN m
  <2> DEFINE c2 == InsertField(c, m, n)
  <2>1. m[n] \in Fields /\ FieldWidth(m, n) = Width(m[n])
    BY <1>2, FieldWidthFacts DEF IsMessage
  <2>2. /\ c.at \in Nat /\ n \in 1 .. 5 /\ n + 1 \in 1 .. 5
        /\ Offset(m, n + 1) = Offset(m, n) + Width(m[n])
        /\ Offset(m, n + 1) <= Offset(m, 5) /\ Offset(m, 5) <= BuffLen /\ Offset(m, 5) \in Nat
        /\ Offset(m, n + 1) \in Nat
    BY <2>1, OffsetFacts
  <2>3. c.at + Width(m[n]) <= BuffLen
    BY <2>2, LenAssumption
  <2>4. /\ c2.b \in Buffers /\ c2.at = c.at + Width(m[n])
        /\ Holds(c2.b, c.at, m[n]) /\ SameUpTo(c.b, c2.b, c.at)
    BY <1>2, <2>1, <2>2, <2>3, FieldInserted
  <2> HIDE DEF c2
  <2>5. Laid(c2.b, m, n - 1)
    <3>1. n - 1 \in 0 .. 4 /\ (n - 1) + 1 = n
      OBVIOUS
    <3> QED BY <2>4, <3>1, LaidStays
  <2>6. \A k \in 1 .. n : k = n \/ k \in 1 .. n - 1
    OBVIOUS
  <2>7. Laid(c2.b, m, n)
    BY <2>4, <2>5, <2>6 DEF Laid
  <2> QED BY <2>2, <2>4, <2>7 DEF c2
<1> QED BY <1>1, <1>2

LEMMA EncodeLays ==
  ASSUME NEW m, IsMessage(m), NEW b \in Buffers
  PROVE  /\ Encode(b, m).b \in Buffers
         /\ Encode(b, m).at = Offset(m, 5)
         /\ Laid(Encode(b, m).b, m, 4)
<1> DEFINE c0 == [b |-> b, at |-> 0]
           c1 == InsertField(c0, m, 1)
           c2 == InsertField(c1, m, 2)
           c3 == InsertField(c2, m, 3)
           c4 == InsertField(c3, m, 4)
<1>0. c0.b \in Buffers /\ c0.at = Offset(m, 1) /\ Laid(c0.b, m, 1 - 1)
  BY OffsetFacts DEF Laid
<1>1. Encode(b, m) = c4
  BY Zenon DEF Encode
<1> HIDE DEF c0
<1>2. c1.b \in Buffers /\ c1.at = Offset(m, 1 + 1) /\ Laid(c1.b, m, 1)
  BY <1>0, EncodeStep
<1> HIDE DEF c1
<1>3. c2.b \in Buffers /\ c2.at = Offset(m, 2 + 1) /\ Laid(c2.b, m, 2)
  <2>1. c1.at = Offset(m, 2) /\ Laid(c1.b, m, 2 - 1)
    BY <1>2
  <2> QED BY <1>2, <2>1, EncodeStep
<1> HIDE DEF c2
<1>4. c3.b \in Buffers /\ c3.at = Offset(m, 3 + 1) /\ Laid(c3.b, m, 3)
  <2>1. c2.at = Offset(m, 3) /\ Laid(c2.b, m, 3 - 1)
    BY <1>3
  <2> QED BY <1>3, <2>1, EncodeStep
<1> HIDE DEF c3
<1>5. c4.b \in Buffers /\ c4.at = Offset(m, 4 + 1) /\ Laid(c4.b, m, 4)
  <2>1. c3.at = Offset(m, 4) /\ Laid(c3.b, m, 4 - 1)
    BY <1>4
  <2> QED BY <1>4, <2>1, EncodeStep
<1> HIDE DEF c4
<1> QED BY <1>1, <1>5

\* The first n fields of m, or all of them, have been read.
IsRead(out, m, n) ==
  /\ out \in Seq(Fields)
  /\ Len(out) = IF n <= Len(m) THEN n ELSE Len(m)
  /\ \A x \in 1 .. Len(out) : out[x] = m[x]

LEMMA DecodeStep ==
  ASSUME NEW m, IsMessage(m), NEW n \in 1 .. 4, NEW d, d.b \in Buffers, d.stack \in Buffers,
         d.at = Offset(m, n), Laid(d.b, m, 4), IsRead(d.out, m, n - 1)
  PROVE  /\ GetField(d, Kinds(m), n).b = d.b
         /\ GetField(d, Kinds(m), n).stack \in Buffers
         /\ GetField(d, Kinds(m), n).at = Offset(m, n + 1)
         /\ IsRead(GetField(d, Kinds(m), n).out, m, n)
<1>1. /\ DOMAIN Kinds(m) = DOMAIN m /\ DOMAIN m = 1 .. Len(m) /\ Len(m) \in Nat
      /\ \A k \in DOMAIN m : Kinds(m)[k] = m[k].kind
  BY LenProperties DEF Kinds, IsMessage
<1>2. CASE n \notin DOMAIN m
  <2>1. GetField(d, Kinds(m), n) = d
    BY <1>1, <1>2 DEF GetField
  <2>2. FieldWidth(m, n) = 0
    BY <1>2 DEF FieldWidth
  <2>3. Offset(m, n + 1) = Offset(m, n)
    BY <2>2, OffsetFacts
  <2>4. IsRead(d.out, m, n)
    <3>1. (IF n <= Len(m) THEN n ELSE Len(m)) = IF n - 1 <= Len(m) THEN n - 1 ELSE Len(m)
      BY <1>1, <1>2
    <3> QED BY <3>1 DEF IsRead
  <2> QED BY <2>1, <2>3, <2>4
<1>3. CASE n \in DOMAIN m
  <2> DEFINE d2 == GetField(d, Kinds(m), n)
  <2>1. m[n] \in Fields /\ FieldWidth(m, n) = Width(m[n])
    BY <1>3, FieldWidthFacts DEF IsMessage
  <2>2. /\ d.at \in Nat /\ n \in 1 .. 5 /\ n + 1 \in 1 .. 5
        /\ Offset(m, n + 1) = Offset(m, n) + Width(m[n])
        /\ Offset(m, n + 1) <= Offset(m, 5) /\ Offset(m, 5) <= BuffLen /\ Offset(m, 5) \in Nat
        /\ Offset(m, n + 1) \in Nat
    BY <2>1, OffsetFacts
  <2>3. d.at + Width(m[n]) <= BuffLen
    BY <2>2, LenAssumption
  <2>4. Holds(d.b, d.at, m[n])
    BY <1>3 DEF Laid
  <2>5. /\ d2.b = d.b /\ d2.at = d.at + Width(m[n]) /\ d2.stack \in Buffers
        /\ d2.out = Append(d.out, m[n])
    <3> DEFINE f     == m[n]
               kinds == Kinds(m)
    <3>1. /\ d.b \in Buffers /\ d.stack \in Buffers /\ d.at \in Nat /\ f \in Fields
          /\ Holds(d.b, d.at, f) /\ d.at + Width(f) <= BuffLen
          /\ n \in DOMAIN kinds /\ kinds[n] = f.kind
      BY <1>1, <1>3, <2>1, <2>2, <2>3, <2>4
    <3> HIDE DEF f, kinds
    <3>2. /\ GetField(d, kinds, n).b = d.b /\ GetField(d, kinds, n).at = d.at + Width(f)
          /\ GetField(d, kinds, n).stack \in Buffers
          /\ GetField(d, kinds, n).out = Append(d.out, f)
      BY <3>1, FieldGot
    <3> QED BY <3>2 DEF f, kinds
  <2> HIDE DEF d2
  <2> DEFINE out == d.out
  <2>6. out \in Seq(Fields) /\ Len(out) = n - 1 /\ \A x \in 1 .. n - 1 : out[x] = m[x]
    BY <1>1, <1>3 DEF IsRead
  <2> HIDE DEF out
  <2>7. /\ Append(out, m[n]) \in Seq(Fields) /\ Len(Append(out, m[n])) = n
        /\ \A x \in 1 .. n : Append(out, m[n])[x] = m[x]
    <3>1. /\ Append(out, m[n]) \in Seq(Fields) /\ Len(Append(out, m[n])) = Len(out) + 1
          /\ \A x \in 1 .. Len(out) : Append(out, m[n])[x] = out[x]
          /\ Append(out, m[n])[Len(out) + 1] = m[n]
      BY <2>1, <2>6, AppendProperties
    <3>2. (n - 1) + 1 = n /\ \A x \in 1 .. n : x = n \/ x \in 1 .. n - 1
      OBVIOUS
    <3> QED BY <2>6, <3>1, <3>2
  <2>8. IsRead(Append(out, m[n]), m, n)
    BY <1>1, <1>3, <2>7 DEF IsRead
  <2> QED BY <2>2, <2>5, <2>8 DEF d2, out
<1> QED BY <1>2, <1>3

LEMMA DecodeReads ==
  ASSUME NEW m, IsMessage(m), NEW b \in Buffers, Laid(b, m, 4), NEW stack \in Buffers
  PROVE  /\ Decode(b, stack, Kinds(m)).out = m
         /\ Decode(b, stack, Kinds(m)).stack \in Buffers
<1> DEFINE kinds == Kinds(m)
           d0 == [b |-> b, at |-> 0, stack |-> stack, out |-> <<>>]
           d1 == GetField(d0, kinds, 1)
           d2 == GetField(d1, kinds, 2)
           d3 == GetField(d2, kinds, 3)
           d4 == GetField(d3, kinds, 4)
<1>0. m \in Seq(Fields) /\ Len(m) \in 1 .. 4
  BY DEF IsMessage
<1>1. Decode(b, stack, kinds) = d4
  BY Zenon DEF Decode
<1>2. /\ d0.b = b /\ d0.stack \in Buffers /\ d0.at = Offset(m, 1)
      /\ IsRead(d0.out, m, 1 - 1)
  BY <1>0, OffsetFacts DEF IsRead
<1> HIDE DEF d0
<1>3. d1.b = b /\ d1.stack \in Buffers /\ d1.at = Offset(m, 1 + 1) /\ IsRead(d1.out, m, 1)
  BY <1>2, DecodeStep
<1> HIDE DEF d1
<1>4. d2.b = b /\ d2.stack \in Buffers /\ d2.at = Offset(m, 2 + 1) /\ IsRead(d2.out, m, 2)
  <2>1. d1.at = Offset(m, 2) /\ IsRead(d1.out, m, 2 - 1)
    BY <1>3
  <2> QED BY <1>3, <2>1, DecodeStep
<1> HIDE DEF d2
<1>5. d3.b = b /\ d3.stack \in Buffers /\ d3.at = Offset(m, 3 + 1) /\ IsRead(d3.out, m, 3)
  <2>1. d2.at = Offset(m, 3) /\ IsRead(d2.out, m, 3 - 1)
    BY <1>4
  <2> QED BY <1>4, <2>1, DecodeStep
<1> HIDE DEF d3
<1>6. d4.stack \in Buffers /\ IsRead(d4.out, m, 4)
  <2>1. d3.at = Offset(m, 4) /\ IsRead(d3.out, m, 4 - 1)
    BY <1>5
  <2> QED BY <1>5, <2>1, DecodeStep
<1> HIDE DEF d4
<1>7. d4.out \in Seq(Fields) /\ Len(d4.out) = Len(m) /\ \A x \in 1 .. Len(m) : d4.out[x] = m[x]
  BY <1>0, <1>6 DEF IsRead
<1>8. d4.out = m
  BY <1>0, <1>7, SeqEqual
<1> QED BY <1>1, <1>6, <1>8

-----------------------------------------------------------------------------
(* The messages the program sends are messages in this sense.              *)

\* The longest message has a word, an int and two strings.
LEMMA LongestFits ==
  ASSUME NEW a \in Strings, NEW b \in Strings
  PROVE  /\ Len(a) \in Nat /\ Len(b) \in Nat
         /\ 2 + (Len(a) + 3) + (Len(b) + 3) <= BuffLen
         /\ \A w \in Words : /\ w \in Strings /\ Len(w) \in Nat
                            /\ (Len(w) + 3) + 2 + (Len(a) + 3) + (Len(b) + 3) <= BuffLen
<1>1. Len(a) \in Nat /\ Len(b) \in Nat
  BY StringFacts
<1>2. \A w \in Words : /\ w \in Strings /\ Len(w) \in Nat
                       /\ (Len(w) + 3) + 2 + (Len(a) + 3) + (Len(b) + 3) <= BuffLen
  <2> TAKE w \in Words
  <2>1. w \in Strings
    BY WordsAssumption
  <2>2. Len(w) \in Nat
    BY <2>1, StringFacts
  <2> QED BY <1>1, <2>1, <2>2, LenAssumption
<1>3. PICK w \in Words : TRUE
  BY WordsAssumption
<1> QED BY <1>1, <1>2, <1>3, LenAssumption

LEMMA IntField ==
  ASSUME NEW i, i \in Ints \/ i \in {0, 1}
  PROVE  Int1(i) \in Fields /\ Width(Int1(i)) = 2
<1>1. i \in 0 .. Base * Base - 1
  <2>1. 0 \in 0 .. Base * Base - 1 /\ 1 \in 0 .. Base * Base - 1
    <3>1. Base * Base >= Base
      BY BaseAssumption
    <3>2. Base * Base \in Nat
      BY BaseAssumption
    <3> QED BY <3>1, <3>2, BaseAssumption
  <2> QED BY <2>1, IntsAssumption
<1> QED BY <1>1 DEF Fields, Width, Int1

LEMMA StrField ==
  ASSUME NEW s \in Strings
  PROVE  Str(s) \in Fields /\ Width(Str(s)) = Len(s) + 3
BY DEF Fields, Width, Str

LEMMA OneFits ==
  ASSUME NEW f1 \in Fields, Width(f1) <= BuffLen
  PROVE  IsMessage(<<f1>>)
<1> DEFINE m == <<f1>>
<1>1. /\ m \in Seq(Fields) /\ Len(m) = 1 /\ DOMAIN m = 1 .. 1 /\ m[1] = f1
  OBVIOUS
<1> HIDE DEF m
<1>2. /\ FieldWidth(m, 1) = Width(f1) /\ FieldWidth(m, 2) = 0
      /\ FieldWidth(m, 3) = 0 /\ FieldWidth(m, 4) = 0
  BY <1>1 DEF FieldWidth
<1>3. Offset(m, 5) <= BuffLen
  BY <1>2, FieldFacts DEF Offset
<1> QED BY <1>1, <1>3 DEF IsMessage, m

LEMMA TwoFit ==
  ASSUME NEW f1 \in Fields, NEW f2 \in Fields, Width(f1) + Width(f2) <= BuffLen
  PROVE  IsMessage(<<f1, f2>>)
<1> DEFINE m == <<f1, f2>>
<1>1. /\ m \in Seq(Fields) /\ Len(m) = 2 /\ DOMAIN m = 1 .. 2 /\ m[1] = f1 /\ m[2] = f2
  OBVIOUS
<1> HIDE DEF m
<1>2. /\ FieldWidth(m, 1) = Width(f1) /\ FieldWidth(m, 2) = Width(f2)
      /\ FieldWidth(m, 3) = 0 /\ FieldWidth(m, 4) = 0
  BY <1>1 DEF FieldWidth
<1>3. Offset(m, 5) <= BuffLen
  BY <1>2, FieldFacts DEF Offset
<1> QED BY <1>1, <1>3 DEF IsMessage, m

LEMMA ThreeFit ==
  ASSUME NEW f1 \in Fields, NEW f2 \in Fields, NEW f3 \in Fields,
         Width(f1) + Width(f2) + Width(f3) <= BuffLen
  PROVE  IsMessage(<<f1, f2, f3>>)
<1> DEFINE m == <<f1, f2, f3>>
<1>1. /\ m \in Seq(Fields) /\ Len(m) = 3 /\ DOMAIN m = 1 .. 3
      /\ m[1] = f1 /\ m[2] = f2 /\ m[3] = f3
  OBVIOUS
<1> HIDE DEF m
<1>2. /\ FieldWidth(m, 1) = Width(f1) /\ FieldWidth(m, 2) = Width(f2)
      /\ FieldWidth(m, 3) = Width(f3) /\ FieldWidth(m, 4) = 0
  BY <1>1 DEF FieldWidth
<1>3. Offset(m, 5) <= BuffLen
  BY <1>2, FieldFacts DEF Offset
<1> QED BY <1>1, <1>3 DEF IsMessage, m

LEMMA FourFit ==
  ASSUME NEW f1 \in Fields, NEW f2 \in Fields, NEW f3 \in Fields, NEW f4 \in Fields,
         Width(f1) + Width(f2) + Width(f3) + Width(f4) <= BuffLen
  PROVE  IsMessage(<<f1, f2, f3, f4>>)
<1> DEFINE m == <<f1, f2, f3, f4>>
<1>1. /\ m \in Seq(Fields) /\ Len(m) = 4 /\ DOMAIN m = 1 .. 4
      /\ m[1] = f1 /\ m[2] = f2 /\ m[3] = f3 /\ m[4] = f4
  OBVIOUS
<1> HIDE DEF m
<1>2. /\ FieldWidth(m, 1) = Width(f1) /\ FieldWidth(m, 2) = Width(f2)
      /\ FieldWidth(m, 3) = Width(f3) /\ FieldWidth(m, 4) = Width(f4)
  BY <1>1 DEF FieldWidth
<1>3. Offset(m, 5) <= BuffLen
  BY <1>2, FieldFacts DEF Offset
<1> QED BY <1>1, <1>3 DEF IsMessage, m

LEMMA MessagesFit ==
  ASSUME NEW m \in Messages
  PROVE  IsMessage(m)
<1>0. BuffLen \in Nat /\ BuffLen >= 2
  BY LenAssumption
<1>1. ASSUME NEW k \in {0, 1}, NEW a \in Strings, NEW b \in Strings
      PROVE  IsMessage(LogMessage(k, a, b))
  <2>1. Width(Int1(k)) + Width(Str(a)) + Width(Str(b)) <= BuffLen
    BY <1>0, IntField, StrField, LongestFits
  <2> QED BY <2>1, IntField, StrField, ThreeFit DEF LogMessage
<1>2. ASSUME NEW a \in Strings, NEW b \in Strings, NEW fd \in Ints
      PROVE  IsMessage(MetaMessage(a, b, fd))
  <2>1. Width(Str(a)) + Width(Str(b)) + Width(Int1(fd)) <= BuffLen
    BY <1>0, IntField, StrField, LongestFits
  <2> QED BY <2>1, IntField, StrField, ThreeFit DEF MetaMessage
<1>3. ASSUME NEW w \in Words, NEW k \in {0, 1}, NEW a \in Strings, NEW b \in Strings
      PROVE  IsMessage(LogRequest(w, k, a, b))
  <2>1. w \in Strings
    BY LongestFits
  <2>2. Width(Str(w)) + Width(Int1(k)) + Width(Str(a)) + Width(Str(b)) <= BuffLen
    BY <1>0, <2>1, IntField, StrField, LongestFits
  <2> QED BY <2>1, <2>2, IntField, StrField, FourFit DEF LogRequest
<1>4. ASSUME NEW w \in Words, NEW a \in Strings, NEW b \in Strings
      PROVE  IsMessage(LogAnswer(w, a, b))
  <2>1. w \in Strings
    BY LongestFits
  <2>2. Width(Str(w)) + Width(Str(a)) + Width(Str(b)) <= BuffLen
    BY <1>0, <2>1, StrField, LongestFits
  <2> QED BY <2>1, <2>2, StrField, ThreeFit DEF LogAnswer
<1>5. ASSUME NEW a \in Strings, NEW b \in Strings
      PROVE  IsMessage(PairMessage(a, b))
  <2>1. Width(Str(a)) + Width(Str(b)) <= BuffLen
    BY <1>0, StrField, LongestFits
  <2> QED BY <2>1, StrField, TwoFit DEF PairMessage
<1>6. ASSUME NEW a \in Strings
      PROVE  IsMessage(StrMessage(a))
  <2>1. Width(Str(a)) <= BuffLen
    BY <1>0, StrField, LongestFits
  <2> QED BY <2>1, StrField, OneFits DEF StrMessage
<1>7. ASSUME NEW i \in Ints
      PROVE  IsMessage(IntMessage(i))
  BY <1>0, IntField, OneFits DEF IntMessage
<1>8. CASE m \in LogMessages
  BY <1>1, <1>8 DEF LogMessages
<1>9. CASE m \in {MetaMessage(a, b, fd) : a, b \in Strings, fd \in Ints}
  BY <1>2, <1>9
<1>10. CASE m \in {LogRequest(w, k, a, b) : w \in Words, k \in {0, 1}, a, b \in Strings}
  BY <1>3, <1>10
<1>11. CASE m \in {LogAnswer(w, a, b) : w \in Words, a, b \in Strings}
  BY <1>4, <1>11
<1>12. CASE m \in {PairMessage(a, b) : a, b \in Strings}
  BY <1>5, <1>12
<1>13. CASE m \in {StrMessage(a) : a \in Strings}
  BY <1>6, <1>13
<1>14. CASE m \in {IntMessage(i) : i \in Ints}
  BY <1>7, <1>14
<1> QED BY <1>8, <1>9, <1>10, <1>11, <1>12, <1>13, <1>14 DEF Messages

-----------------------------------------------------------------------------
(* The round trip.                                                         *)

\* The inductive invariant: the bytes of the message are where they belong, in
\* the buffer of the phase.
Travels ==
  /\ sendBuff \in Buffers /\ recvBuff \in Buffers /\ tmp \in Buffers
  /\ phase \in {"encode", "send", "decode"}
  /\ phase # "encode" => msg \in Messages
  /\ got \in Messages \cup {<<>>}
  /\ phase = "send" => total = Offset(msg, 5) /\ Laid(sendBuff, msg, 4)
  /\ phase = "decode" => Laid(recvBuff, msg, 4)
  /\ phase = "encode" => got = msg

LEMMA TravelsInit == Init => Travels
<1> SUFFICES ASSUME Init PROVE Travels
  OBVIOUS
<1>1. Zeros \in Buffers
  BY BaseAssumption DEF Zeros, Buffers, Bytes, NUL
<1> QED BY <1>1 DEF Init, Travels

LEMMA TravelsNext == Travels /\ [Next]_vars => Travels'
<1> SUFFICES ASSUME Travels, [Next]_vars PROVE Travels'
  OBVIOUS
<1>1. CASE \E m \in Messages : EncodeMessage(m)
  <2>1. PICK m \in Messages : EncodeMessage(m)
    BY <1>1
  <2>2. IsMessage(m) /\ sendBuff \in Buffers
    BY MessagesFit DEF Travels
  <2>3. /\ Encode(sendBuff, m).b \in Buffers /\ Encode(sendBuff, m).at = Offset(m, 5)
        /\ Laid(Encode(sendBuff, m).b, m, 4)
    BY <2>2, EncodeLays
  <2>4. /\ msg' = m /\ sendBuff' = Encode(sendBuff, m).b /\ total' = Encode(sendBuff, m).at
        /\ phase' = "send" /\ recvBuff' = recvBuff /\ tmp' = tmp /\ got' = got
    BY <2>1 DEF EncodeMessage
  <2> QED BY <2>3, <2>4 DEF Travels
<1>2. CASE Send
  <2>1. /\ phase = "send" /\ recvBuff' = Write(recvBuff, 0, SubSeq(sendBuff, 1, total))
        /\ phase' = "decode" /\ sendBuff' = sendBuff /\ tmp' = tmp /\ msg' = msg /\ got' = got
    BY <1>2 DEF Send
  <2>2. /\ sendBuff \in Buffers /\ recvBuff \in Buffers /\ msg \in Messages
        /\ total = Offset(msg, 5) /\ Laid(sendBuff, msg, 4)
    BY <2>1 DEF Travels
  <2>3. IsMessage(msg)
    BY <2>2, MessagesFit
  <2>4. total \in Nat /\ total <= BuffLen /\ BuffLen \in Nat
    BY <2>2, <2>3, OffsetFacts, LenAssumption
  <2> DEFINE bytes == SubSeq(sendBuff, 1, total)
             w     == Write(recvBuff, 0, bytes)
  <2>5. bytes \in Seq(Bytes) /\ Len(bytes) = total /\ \A x \in 1 .. total : bytes[x] = sendBuff[x]
    <3>1. \A x \in 1 .. total : sendBuff[x] \in Bytes
      BY <2>2, <2>4 DEF Buffers
    <3>2. /\ bytes \in Seq(Bytes)
          /\ Len(bytes) = IF 1 <= total THEN total - 1 + 1 ELSE 0
          /\ \A x \in 1 .. total - 1 + 1 : bytes[x] = sendBuff[1 + x - 1]
      BY <2>4, <3>1, SubSeqProperties
    <3> HIDE DEF bytes
    <3> QED BY <2>4, <3>2
  <2> HIDE DEF bytes
  <2>6. w \in Buffers /\ \A x \in 1 .. Len(bytes) : w[0 + x] = bytes[x]
    <3>1. 0 \in Nat /\ 0 + Len(bytes) <= BuffLen
      BY <2>4, <2>5
    <3> QED BY <2>2, <2>5, <3>1, WriteFacts, Zenon
  <2>7. recvBuff' = w
    BY <2>1 DEF bytes
  <2> HIDE DEF w
  <2>8. SameUpTo(sendBuff, w, Offset(msg, 4 + 1))
    BY <2>2, <2>4, <2>5, <2>6 DEF SameUpTo
  <2>9. Laid(w, msg, 4)
    BY <2>2, <2>3, <2>8, LaidStays
  <2> QED BY <2>1, <2>2, <2>6, <2>7, <2>9 DEF Travels
<1>3. CASE DecodeMessage
  <2> DEFINE d == Decode(recvBuff, tmp, Kinds(msg))
  <2>1. /\ phase = "decode" /\ got' = d.out /\ tmp' = d.stack /\ phase' = "encode"
        /\ sendBuff' = sendBuff /\ recvBuff' = recvBuff /\ msg' = msg
    BY <1>3 DEF DecodeMessage
  <2>2. /\ recvBuff \in Buffers /\ tmp \in Buffers /\ msg \in Messages /\ Laid(recvBuff, msg, 4)
        /\ sendBuff \in Buffers
    BY <2>1 DEF Travels
  <2>3. d.out = msg /\ d.stack \in Buffers
    BY <2>2, MessagesFit, DecodeReads
  <2> HIDE DEF d
  <2> QED BY <2>1, <2>2, <2>3 DEF Travels
<1>4. CASE UNCHANGED vars
  BY <1>4 DEF Travels, vars
<1> QED BY <1>1, <1>2, <1>3, <1>4 DEF Next

\* Whatever older messages the buffers hold and whatever is on the stack, the
\* receiver has decoded the message that was encoded.
THEOREM DecodedIsEncoded == Spec => []RoundTrip
<1>1. Travels => RoundTrip
  BY DEF Travels, RoundTrip
<1> QED BY TravelsInit, TravelsNext, <1>1, PTL DEF Spec

-----------------------------------------------------------------------------
(* The order of the log.  The bytes of an entry are its kind, the length   *)
(* of the key, the key, the length of the value and the value, with NULs   *)
(* between them; a length has two bytes, the low one first.  Two entries   *)
(* first differ where their fields do.                                     *)

\* The two bytes of the length of a string of l chars.
Lo(l) == (l + 1) % Base
Hi(l) == (l + 1) \div Base

\* The bytes of the log entry of kind k with key a and value v.
IsEntry(e, k, a, v) ==
  /\ e \in Seq(Bytes) /\ Len(e) = Len(a) + Len(v) + 8
  /\ e[1] = k /\ e[2] = 0 /\ e[3] = Lo(Len(a)) /\ e[4] = Hi(Len(a))
  /\ \A x \in 1 .. Len(a) : e[4 + x] = a[x]
  /\ e[5 + Len(a)] = 0 /\ e[6 + Len(a)] = Lo(Len(v)) /\ e[7 + Len(a)] = Hi(Len(v))
  /\ \A x \in 1 .. Len(v) : e[7 + Len(a) + x] = v[x]
  /\ e[8 + Len(a) + Len(v)] = 0

\* a is below b at x, and equal before.
LessAt(a, b, x) == a[x] < b[x] /\ \A y \in 1 .. x - 1 : a[y] = b[y]

\* The first place where the bytes of d and e differ has the smaller one in d.
Differ(d, e) == \E x \in 1 .. Len(d) : x \in 1 .. Len(e) /\ LessAt(d, e, x)

\* A string of l chars comes before one of n by the bytes of their lengths.
LenLess(l, n) == Lo(l) < Lo(n) \/ (Lo(l) = Lo(n) /\ Hi(l) < Hi(n))

\* The order of the fields of two entries, spelled out.
EntryLess(k, a, v, j, c, w) ==
  \/ k < j
  \/ k = j /\ LenLess(Len(a), Len(c))
  \/ k = j /\ Len(a) = Len(c) /\ \E x \in 1 .. Len(a) : LessAt(a, c, x)
  \/ k = j /\ a = c /\ LenLess(Len(v), Len(w))
  \/ k = j /\ a = c /\ Len(v) = Len(w) /\ \E x \in 1 .. Len(v) : LessAt(v, w, x)

\* Sequences of one length are compared at the first place where they differ.
LEMMA SameLenLess ==
  ASSUME NEW S, NEW a \in Seq(S), NEW c \in Seq(S), Len(a) = Len(c)
  PROVE  BytesLess(a, c) <=> \E x \in 1 .. Len(a) : LessAt(a, c, x)
<1>1. DOMAIN a = 1 .. Len(a) /\ DOMAIN c = 1 .. Len(a)
  BY LenProperties
<1>2. ~IsStrictPrefix(a, c)
  <2>1. SubSeq(a, 1, Len(a)) = a /\ SubSeq(c, 1, Len(a)) = c
    BY SubSeqFull
  <2> QED BY <2>1 DEF IsStrictPrefix, IsPrefix
<1> QED BY <1>1, <1>2 DEF BytesLess, LessAt

LEMMA OneLess ==
  ASSUME NEW i \in Nat, NEW j \in Nat
  PROVE  BytesLess(<<i>>, <<j>>) <=> i < j
<1> DEFINE a == <<i>>
           c == <<j>>
<1>1. a \in Seq(Nat) /\ c \in Seq(Nat) /\ Len(a) = 1 /\ Len(c) = 1 /\ a[1] = i /\ c[1] = j
  OBVIOUS
<1> HIDE DEF a, c
<1>2. BytesLess(a, c) <=> \E x \in 1 .. 1 : LessAt(a, c, x)
  BY <1>1, SameLenLess
<1>3. (\E x \in 1 .. 1 : LessAt(a, c, x)) <=> i < j
  BY <1>1 DEF LessAt
<1> QED BY <1>2, <1>3 DEF a, c

\* The two bytes of a length determine it.
LEMMA LenBytes ==
  ASSUME NEW a \in Strings, NEW c \in Strings
  PROVE  /\ Lo(Len(a)) \in Bytes /\ Hi(Len(a)) \in Bytes
         /\ Lo(Len(a)) = Lo(Len(c)) /\ Hi(Len(a)) = Hi(Len(c)) => Len(a) = Len(c)
<1> DEFINE l == Len(a) + 1
           n == Len(c) + 1
<1>1. l \in 0 .. Base * Base - 1 /\ n \in 0 .. Base * Base - 1 /\ Len(a) \in Nat /\ Len(c) \in Nat
  BY StringFacts
<1>2. /\ Lo(Len(a)) = l % Base /\ Hi(Len(a)) = l \div Base
      /\ Lo(Len(c)) = n % Base /\ Hi(Len(c)) = n \div Base
  BY DEF Lo, Hi
<1> HIDE DEF l, n
<1>3. l % Base \in Bytes /\ l \div Base \in Bytes /\ (l % Base) + Base * (l \div Base) = l
  BY <1>1, TwoBytes
<1>4. n % Base \in Bytes /\ n \div Base \in Bytes /\ (n % Base) + Base * (n \div Base) = n
  BY <1>1, TwoBytes
<1>5. l % Base = n % Base /\ l \div Base = n \div Base => l = n
  BY <1>3, <1>4
<1>6. l = n => Len(a) = Len(c)
  BY <1>1 DEF l, n
<1> QED BY <1>2, <1>3, <1>5, <1>6

\* Numbers of two digits are compared digit by digit.
LEMMA TwoDigits ==
  ASSUME NEW p \in Bytes, NEW q \in Bytes, NEW r \in Bytes, NEW t \in Bytes
  PROVE  p * Base + q < r * Base + t <=> p < r \/ (p = r /\ q < t)
<1>1. /\ Base \in Nat /\ p \in Nat /\ q \in Nat /\ r \in Nat /\ t \in Nat
      /\ q < Base /\ t < Base
  BY BaseAssumption DEF Bytes
<1>2. ASSUME NEW x \in Nat, NEW y \in Nat, x < y PROVE x * Base + Base <= y * Base
  <2>1. PICK z \in Nat : y = x + 1 + z
    <3>1. y - (x + 1) \in Nat /\ y = x + 1 + (y - (x + 1))
      BY <1>2
    <3> QED BY <3>1
  <2>2. y * Base = x * Base + Base + z * Base /\ z * Base \in Nat /\ x * Base \in Nat
    BY <1>1, <2>1
  <2> QED BY <1>1, <2>2
<1>3. p * Base \in Nat /\ r * Base \in Nat
  BY <1>1
<1>4. CASE p < r
  <2>1. p * Base + Base <= r * Base
    BY <1>1, <1>2, <1>4
  <2> QED BY <1>1, <1>3, <1>4, <2>1
<1>5. CASE r < p
  <2>1. r * Base + Base <= p * Base
    BY <1>1, <1>2, <1>5
  <2> QED BY <1>1, <1>3, <1>5, <2>1
<1>6. CASE p = r
  BY <1>1, <1>3, <1>6
<1> QED BY <1>1, <1>4, <1>5, <1>6

\* StoredLen orders lengths as their bytes do, and tells them apart.
LEMMA StoredLenLess ==
  ASSUME NEW a \in Strings, NEW c \in Strings
  PROVE  /\ StoredLen(Len(a)) \in Nat
         /\ StoredLen(Len(a)) < StoredLen(Len(c)) <=> LenLess(Len(a), Len(c))
         /\ StoredLen(Len(a)) = StoredLen(Len(c)) <=> Len(a) = Len(c)
<1> DEFINE p == Lo(Len(a))
           q == Hi(Len(a))
           r == Lo(Len(c))
           t == Hi(Len(c))
<1>1. p \in Bytes /\ q \in Bytes /\ r \in Bytes /\ t \in Bytes
  BY LenBytes
<1>2. StoredLen(Len(a)) = p * Base + q /\ StoredLen(Len(c)) = r * Base + t
  BY DEF StoredLen, Lo, Hi
<1>3. LenLess(Len(a), Len(c)) <=> p < r \/ (p = r /\ q < t)
  BY DEF LenLess
<1>4. p = r /\ q = t => Len(a) = Len(c)
  BY LenBytes
<1>5. Len(a) = Len(c) => StoredLen(Len(a)) = StoredLen(Len(c))
  OBVIOUS
<1> HIDE DEF p, q, r, t
<1>6. /\ p * Base + q < r * Base + t <=> p < r \/ (p = r /\ q < t)
      /\ r * Base + t < p * Base + q <=> r < p \/ (r = p /\ t < q)
  BY <1>1, TwoDigits
<1>7. p * Base + q \in Nat /\ r * Base + t \in Nat
  BY <1>1, BaseAssumption DEF Bytes
<1>8. p * Base + q = r * Base + t => p = r /\ q = t
  BY <1>1, <1>6, <1>7 DEF Bytes
<1> QED BY <1>2, <1>3, <1>4, <1>5, <1>6, <1>7, <1>8

\* A proper prefix is no entry: the lengths are at the same places.
LEMMA EntriesAlike ==
  ASSUME NEW a \in Strings, NEW v \in Strings, NEW c \in Strings, NEW w \in Strings,
         NEW k \in {0, 1}, NEW j \in {0, 1},
         NEW d, NEW e, IsEntry(d, k, a, v), IsEntry(e, j, c, w), NEW n \in Nat, n <= Len(d),
         \A x \in 1 .. n : d[x] = e[x]
  PROVE  /\ n >= 1 => k = j
         /\ n >= 3 => Lo(Len(a)) = Lo(Len(c))
         /\ n >= 4 => Len(a) = Len(c)
         /\ n >= 4 + Len(a) => a = c
         /\ n >= 6 + Len(a) => Lo(Len(v)) = Lo(Len(w))
         /\ n >= 7 + Len(a) => Len(v) = Len(w)
         /\ n >= 7 + Len(a) + Len(v) => v = w
<1> DEFINE la == Len(a)
           lc == Len(c)
           lv == Len(v)
           lw == Len(w)
<1>0. /\ la \in Nat /\ lv \in Nat /\ lc \in Nat /\ lw \in Nat
      /\ a \in Seq(Bytes) /\ c \in Seq(Bytes) /\ v \in Seq(Bytes) /\ w \in Seq(Bytes)
  BY StringFacts
<1>1. /\ d[1] = k /\ d[3] = Lo(la) /\ d[4] = Hi(la) /\ (\A x \in 1 .. la : d[4 + x] = a[x])
      /\ d[6 + la] = Lo(lv) /\ d[7 + la] = Hi(lv) /\ \A x \in 1 .. lv : d[7 + la + x] = v[x]
  BY DEF IsEntry
<1>2. /\ e[1] = j /\ e[3] = Lo(lc) /\ e[4] = Hi(lc) /\ (\A x \in 1 .. lc : e[4 + x] = c[x])
      /\ e[6 + lc] = Lo(lw) /\ e[7 + lc] = Hi(lw) /\ \A x \in 1 .. lw : e[7 + lc + x] = w[x]
  BY DEF IsEntry
<1>3. /\ Lo(la) = Lo(lc) /\ Hi(la) = Hi(lc) => la = lc
      /\ Lo(lv) = Lo(lw) /\ Hi(lv) = Hi(lw) => lv = lw
  BY LenBytes
<1> HIDE DEF la, lc, lv, lw
<1>4. /\ n >= 1 => k = j
      /\ n >= 3 => Lo(la) = Lo(lc)
      /\ n >= 4 => la = lc
  BY <1>1, <1>2, <1>3
<1>5. n >= 4 + la => a = c
  <2> SUFFICES ASSUME n >= 4 + la PROVE a = c
    OBVIOUS
  <2>1. la = lc
    BY <1>0, <1>4
  <2>2. ASSUME NEW x \in 1 .. la PROVE a[x] = c[x]
    <3>1. 4 + x \in 1 .. n
      BY <1>0
    <3> QED BY <1>1, <1>2, <2>1, <3>1
  <2> QED BY <1>0, <2>1, <2>2, SeqEqual DEF la, lc
<1>6. n >= 6 + la => Lo(lv) = Lo(lw)
  <2> SUFFICES ASSUME n >= 6 + la PROVE Lo(lv) = Lo(lw)
    OBVIOUS
  <2>1. la = lc /\ 6 + la \in 1 .. n
    BY <1>0, <1>4
  <2> QED BY <1>1, <1>2, <2>1
<1>7. n >= 7 + la => lv = lw
  <2> SUFFICES ASSUME n >= 7 + la PROVE lv = lw
    OBVIOUS
  <2>1. la = lc /\ 7 + la \in 1 .. n /\ n >= 6 + la
    BY <1>0, <1>4
  <2> QED BY <1>1, <1>2, <1>3, <1>6, <2>1
<1>8. n >= 7 + la + lv => v = w
  <2> SUFFICES ASSUME n >= 7 + la + lv PROVE v = w
    OBVIOUS
  <2>1. la = lc /\ lv = lw
    BY <1>0, <1>4, <1>7
  <2>2. ASSUME NEW x \in 1 .. lv PROVE v[x] = w[x]
    <3>1. 7 + la + x \in 1 .. n
      BY <1>0
    <3> QED BY <1>1, <1>2, <2>1, <3>1
  <2> QED BY <1>0, <2>1, <2>2, SeqEqual DEF lv, lw
<1> QED BY <1>4, <1>5, <1>6, <1>7, <1>8 DEF la, lc, lv, lw

\* Where the bytes of two entries first differ, their fields do.
LEMMA BytesToFields ==
  ASSUME NEW a \in Strings, NEW v \in Strings, NEW c \in Strings, NEW w \in Strings,
         NEW k \in {0, 1}, NEW j \in {0, 1},
         NEW d, NEW e, IsEntry(d, k, a, v), IsEntry(e, j, c, w),
         NEW x \in 1 .. Len(d), LessAt(d, e, x)
  PROVE  EntryLess(k, a, v, j, c, w)
<1> DEFINE la == Len(a)
           lv == Len(v)
<1>0. la \in Nat /\ lv \in Nat /\ Len(c) \in Nat /\ Len(w) \in Nat
  BY StringFacts
<1>1. /\ Len(d) = la + lv + 8
      /\ d[1] = k /\ d[2] = 0 /\ d[3] = Lo(la) /\ d[4] = Hi(la) /\ d[5 + la] = 0
      /\ d[6 + la] = Lo(lv) /\ d[7 + la] = Hi(lv) /\ d[8 + la + lv] = 0
      /\ (\A y \in 1 .. la : d[4 + y] = a[y]) /\ \A y \in 1 .. lv : d[7 + la + y] = v[y]
  BY DEF IsEntry
<1>2. /\ e[1] = j /\ e[2] = 0 /\ e[3] = Lo(Len(c)) /\ e[4] = Hi(Len(c)) /\ e[5 + Len(c)] = 0
      /\ e[6 + Len(c)] = Lo(Len(w)) /\ e[7 + Len(c)] = Hi(Len(w)) /\ e[8 + Len(c) + Len(w)] = 0
      /\ (\A y \in 1 .. Len(c) : e[4 + y] = c[y])
      /\ \A y \in 1 .. Len(w) : e[7 + Len(c) + y] = w[y]
  BY DEF IsEntry
<1>3. d[x] < e[x] /\ \A y \in 1 .. x - 1 : d[y] = e[y]
  BY DEF LessAt
<1> HIDE DEF la, lv
<1>4. /\ x - 1 \in Nat /\ x - 1 <= Len(d) /\ x \in 1 .. la + lv + 8
  BY <1>0, <1>1
<1>5. /\ x - 1 >= 1 => k = j
      /\ x - 1 >= 3 => Lo(la) = Lo(Len(c))
      /\ x - 1 >= 4 => la = Len(c)
      /\ x - 1 >= 4 + la => a = c
      /\ x - 1 >= 6 + la => Lo(lv) = Lo(Len(w))
      /\ x - 1 >= 7 + la => lv = Len(w)
  <2> DEFINE n == x - 1
  <2>1. n \in Nat /\ n <= Len(d) /\ \A y \in 1 .. n : d[y] = e[y]
    BY <1>3, <1>4
  <2> HIDE DEF n
  <2>2. /\ n >= 1 => k = j
        /\ n >= 3 => Lo(Len(a)) = Lo(Len(c))
        /\ n >= 4 => Len(a) = Len(c)
        /\ n >= 4 + Len(a) => a = c
        /\ n >= 6 + Len(a) => Lo(Len(v)) = Lo(Len(w))
        /\ n >= 7 + Len(a) => Len(v) = Len(w)
    BY <2>1, EntriesAlike
  <2> QED BY <2>2 DEF la, lv, n
<1>6. CASE x = 1
  BY <1>1, <1>2, <1>3, <1>6 DEF EntryLess
<1>7. CASE x \in {3, 4}
  <2>1. k = j /\ (x = 4 => Lo(la) = Lo(Len(c)))
    BY <1>5, <1>7
  <2>2. LenLess(la, Len(c))
    BY <1>1, <1>2, <1>3, <1>7, <2>1 DEF LenLess
  <2> QED BY <2>1, <2>2 DEF EntryLess, la
<1>8. CASE x \in 5 .. 4 + la
  <2> DEFINE z == x - 4
  <2>1. k = j /\ la = Len(c) /\ z \in 1 .. la /\ 4 + z = x
    BY <1>0, <1>5, <1>8
  <2> HIDE DEF z
  <2>2. a[z] < c[z]
    BY <1>1, <1>2, <1>3, <2>1
  <2>3. ASSUME NEW y \in 1 .. z - 1 PROVE a[y] = c[y]
    <3>1. y \in 1 .. la /\ 4 + y \in 1 .. x - 1
      BY <1>0, <2>1
    <3> QED BY <1>1, <1>2, <1>3, <2>1, <3>1
  <2>4. LessAt(a, c, z)
    BY <2>2, <2>3 DEF LessAt
  <2> QED BY <2>1, <2>4 DEF EntryLess, la
<1>9. CASE x \in {6 + la, 7 + la}
  <2>1. k = j /\ la = Len(c) /\ a = c /\ (x = 7 + la => Lo(lv) = Lo(Len(w)))
    BY <1>0, <1>5, <1>9
  <2>2. LenLess(lv, Len(w))
    BY <1>1, <1>2, <1>3, <1>9, <2>1 DEF LenLess
  <2> QED BY <2>1, <2>2 DEF EntryLess, lv
<1>10. CASE x \in 8 + la .. 7 + la + lv
  <2> DEFINE z == x - (7 + la)
  <2>1. k = j /\ la = Len(c) /\ a = c /\ lv = Len(w) /\ z \in 1 .. lv /\ 7 + la + z = x
    BY <1>0, <1>5, <1>10
  <2> HIDE DEF z
  <2>2. v[z] < w[z]
    BY <1>1, <1>2, <1>3, <2>1
  <2>3. ASSUME NEW y \in 1 .. z - 1 PROVE v[y] = w[y]
    <3>1. y \in 1 .. lv /\ 7 + la + y \in 1 .. x - 1
      BY <1>0, <2>1
    <3> QED BY <1>1, <1>2, <1>3, <2>1, <3>1
  <2>4. LessAt(v, w, z)
    BY <2>2, <2>3 DEF LessAt
  <2> QED BY <2>1, <2>4 DEF EntryLess, lv
<1>11. CASE x \in {2, 5 + la, 8 + la + lv}
  <2>1. d[x] = 0
    BY <1>1, <1>11
  <2>2. e[x] = 0
    <3>1. CASE x = 2
      BY <1>2, <3>1
    <3>2. CASE x = 5 + la
      <4>1. la = Len(c)
        BY <1>0, <1>5, <3>2
      <4> QED BY <1>2, <3>2, <4>1
    <3>3. CASE x = 8 + la + lv
      <4>1. la = Len(c) /\ lv = Len(w)
        BY <1>0, <1>5, <3>3
      <4> QED BY <1>2, <3>3, <4>1
    <3> QED BY <1>11, <3>1, <3>2, <3>3
  <2> QED BY <1>3, <2>1, <2>2
<1>12. \/ x = 1 \/ x \in {3, 4} \/ x \in 5 .. 4 + la
       \/ x \in {6 + la, 7 + la} \/ x \in 8 + la .. 7 + la + lv
       \/ x \in {2, 5 + la, 8 + la + lv}
  BY <1>0, <1>4
<1> QED BY <1>6, <1>7, <1>8, <1>9, <1>10, <1>11, <1>12

\* Where the fields of two entries first differ, their bytes do.
LEMMA FieldsToBytes ==
  ASSUME NEW a \in Strings, NEW v \in Strings, NEW c \in Strings, NEW w \in Strings,
         NEW k \in {0, 1}, NEW j \in {0, 1},
         NEW d, NEW e, IsEntry(d, k, a, v), IsEntry(e, j, c, w),
         EntryLess(k, a, v, j, c, w)
  PROVE  Differ(d, e)
<1> DEFINE la == Len(a)
           lv == Len(v)
           lc == Len(c)
           lw == Len(w)
<1>0. la \in Nat /\ lv \in Nat /\ lc \in Nat /\ lw \in Nat
  BY StringFacts
<1>1. /\ Len(d) = la + lv + 8
      /\ d[1] = k /\ d[2] = 0 /\ d[3] = Lo(la) /\ d[4] = Hi(la) /\ d[5 + la] = 0
      /\ d[6 + la] = Lo(lv) /\ d[7 + la] = Hi(lv)
      /\ (\A y \in 1 .. la : d[4 + y] = a[y]) /\ \A y \in 1 .. lv : d[7 + la + y] = v[y]
  BY DEF IsEntry
<1>2. /\ Len(e) = lc + lw + 8
      /\ e[1] = j /\ e[2] = 0 /\ e[3] = Lo(lc) /\ e[4] = Hi(lc) /\ e[5 + lc] = 0
      /\ e[6 + lc] = Lo(lw) /\ e[7 + lc] = Hi(lw)
      /\ (\A y \in 1 .. lc : e[4 + y] = c[y]) /\ \A y \in 1 .. lw : e[7 + lc + y] = w[y]
  BY DEF IsEntry
<1>3. \/ k < j
      \/ k = j /\ LenLess(la, lc)
      \/ k = j /\ la = lc /\ \E x \in 1 .. la : LessAt(a, c, x)
      \/ k = j /\ a = c /\ LenLess(lv, lw)
      \/ k = j /\ a = c /\ lv = lw /\ \E x \in 1 .. lv : LessAt(v, w, x)
  BY DEF EntryLess
<1>4. a = c => la = lc
  OBVIOUS
<1> HIDE DEF la, lv, lc, lw
<1>5. SUFFICES \E x \in 1 .. Len(d) : /\ x \in 1 .. Len(e) /\ d[x] < e[x]
                                       /\ \A y \in 1 .. x - 1 : d[y] = e[y]
  BY DEF LessAt, Differ
<1>6. CASE k < j
  <2>1. 1 \in 1 .. Len(d) /\ 1 \in 1 .. Len(e) /\ d[1] < e[1] /\ \A y \in 1 .. 1 - 1 : d[y] = e[y]
    BY <1>0, <1>1, <1>2, <1>6
  <2> QED BY <2>1
<1>7. CASE k = j /\ LenLess(la, lc)
  <2>1. {3, 4} \subseteq 1 .. Len(d) /\ {3, 4} \subseteq 1 .. Len(e)
    BY <1>0, <1>1, <1>2
  <2>2. d[1] = e[1] /\ d[2] = e[2]
    BY <1>1, <1>2, <1>7
  <2>3. CASE d[3] < e[3]
    <3>1. 1 .. 3 - 1 = {1, 2}
      OBVIOUS
    <3> QED BY <2>1, <2>2, <2>3, <3>1
  <2>4. CASE d[3] = e[3] /\ d[4] < e[4]
    <3>1. 1 .. 4 - 1 = {1, 2, 3}
      OBVIOUS
    <3> QED BY <2>1, <2>2, <2>4, <3>1
  <2> QED BY <1>1, <1>2, <1>7, <2>3, <2>4 DEF LenLess
<1>8. CASE k = j /\ la = lc /\ \E x \in 1 .. la : LessAt(a, c, x)
  <2>1. PICK z \in 1 .. la : a[z] < c[z] /\ \A y \in 1 .. z - 1 : a[y] = c[y]
    BY <1>8 DEF LessAt
  <2>2. 4 + z \in 1 .. Len(d) /\ 4 + z \in 1 .. Len(e)
    BY <1>0, <1>1, <1>2, <1>8
  <2>3. d[4 + z] < e[4 + z]
    BY <1>1, <1>2, <1>8, <2>1
  <2>4. ASSUME NEW y \in 1 .. (4 + z) - 1 PROVE d[y] = e[y]
    <3>1. CASE y \in {1, 2, 3, 4}
      BY <1>1, <1>2, <1>8, <3>1
    <3>2. CASE y > 4
      <4> DEFINE i == y - 4
      <4>1. i \in 1 .. z - 1 /\ i \in 1 .. la /\ 4 + i = y
        BY <1>0, <3>2
      <4> HIDE DEF i
      <4> QED BY <1>1, <1>2, <1>8, <2>1, <4>1
    <3> QED BY <3>1, <3>2
  <2> QED BY <2>2, <2>3, <2>4
<1>9. ASSUME k = j, a = c
      PROVE  /\ la = lc
             /\ \A y \in 1 .. 5 + la : d[y] = e[y]
  <2>1. la = lc
    BY <1>4, <1>9
  <2>2. ASSUME NEW y \in 1 .. 5 + la PROVE d[y] = e[y]
    <3>1. CASE y \in {1, 2, 3, 4, 5 + la}
      BY <1>1, <1>2, <1>9, <2>1, <3>1
    <3>2. CASE y > 4 /\ y # 5 + la
      <4> DEFINE i == y - 4
      <4>1. i \in 1 .. la /\ 4 + i = y
        BY <1>0, <3>2
      <4> HIDE DEF i
      <4> QED BY <1>1, <1>2, <1>9, <2>1, <4>1
    <3> QED BY <1>0, <3>1, <3>2
  <2> QED BY <2>1, <2>2
<1>10. CASE k = j /\ a = c /\ LenLess(lv, lw)
  <2>1. la = lc /\ \A y \in 1 .. 5 + la : d[y] = e[y]
    BY <1>9, <1>10
  <2>2. {6 + la, 7 + la} \subseteq 1 .. Len(d) /\ {6 + la, 7 + la} \subseteq 1 .. Len(e)
    BY <1>0, <1>1, <1>2, <2>1
  <2>3. CASE d[6 + la] < e[6 + la]
    <3>1. (6 + la) - 1 = 5 + la
      BY <1>0
    <3> QED BY <2>1, <2>2, <2>3, <3>1
  <2>4. CASE d[6 + la] = e[6 + la] /\ d[7 + la] < e[7 + la]
    <3>1. \A y \in 1 .. (7 + la) - 1 : y \in 1 .. 5 + la \/ y = 6 + la
      BY <1>0
    <3> QED BY <2>1, <2>2, <2>4, <3>1
  <2> QED BY <1>1, <1>2, <1>10, <2>1, <2>3, <2>4 DEF LenLess
<1>11. CASE k = j /\ a = c /\ lv = lw /\ \E x \in 1 .. lv : LessAt(v, w, x)
  <2>1. PICK z \in 1 .. lv : v[z] < w[z] /\ \A y \in 1 .. z - 1 : v[y] = w[y]
    BY <1>11 DEF LessAt
  <2>2. la = lc /\ \A y \in 1 .. 5 + la : d[y] = e[y]
    BY <1>9, <1>11
  <2>3. 7 + la + z \in 1 .. Len(d) /\ 7 + la + z \in 1 .. Len(e)
    BY <1>0, <1>1, <1>2, <1>11, <2>2
  <2>4. d[7 + la + z] < e[7 + la + z]
    BY <1>1, <1>2, <1>11, <2>1, <2>2
  <2>5. ASSUME NEW y \in 1 .. (7 + la + z) - 1 PROVE d[y] = e[y]
    <3>1. CASE y \in 1 .. 5 + la
      BY <2>2, <3>1
    <3>2. CASE y \in {6 + la, 7 + la}
      BY <1>1, <1>2, <1>11, <2>2, <3>2
    <3>3. CASE y > 7 + la
      <4> DEFINE i == y - (7 + la)
      <4>1. i \in 1 .. z - 1 /\ i \in 1 .. lv /\ 7 + la + i = y
        BY <1>0, <3>3
      <4> HIDE DEF i
      <4> QED BY <1>1, <1>2, <1>11, <2>1, <2>2, <4>1
    <3> QED BY <1>0, <3>1, <3>2, <3>3
  <2> QED BY <2>3, <2>4, <2>5
<1> QED BY <1>3, <1>6, <1>7, <1>8, <1>10, <1>11

\* The bytes of two entries are in the order of their fields.
LEMMA EntryOrder ==
  ASSUME NEW a \in Strings, NEW v \in Strings, NEW c \in Strings, NEW w \in Strings,
         NEW k \in {0, 1}, NEW j \in {0, 1},
         NEW d, NEW e, IsEntry(d, k, a, v), IsEntry(e, j, c, w)
  PROVE  BytesLess(d, e) <=> EntryLess(k, a, v, j, c, w)
<1>0. Len(a) \in Nat /\ Len(v) \in Nat /\ Len(c) \in Nat /\ Len(w) \in Nat
  BY StringFacts
<1>1. /\ d \in Seq(Bytes) /\ Len(d) = Len(a) + Len(v) + 8
      /\ e \in Seq(Bytes) /\ Len(e) = Len(c) + Len(w) + 8
  BY DEF IsEntry
<1>2. DOMAIN d = 1 .. Len(d) /\ DOMAIN e = 1 .. Len(e) /\ Len(d) \in Nat /\ Len(e) \in Nat
  BY <1>1, LenProperties
<1>3. ~IsStrictPrefix(d, e)
  <2> SUFFICES ASSUME IsStrictPrefix(d, e) PROVE FALSE
    OBVIOUS
  <2>1. Len(d) <= Len(e) /\ SubSeq(d, 1, Len(d)) = SubSeq(e, 1, Len(d)) /\ d # e
    BY DEF IsStrictPrefix, IsPrefix
  <2>2. SubSeq(d, 1, Len(d)) = d
    BY <1>1, SubSeqFull
  <2>3. \A x \in 1 .. Len(d) : e[x] \in Bytes
    BY <1>1, <1>2, <2>1, ElementOfSeq
  <2>4. \A x \in 1 .. Len(d) - 1 + 1 : SubSeq(e, 1, Len(d))[x] = e[1 + x - 1]
    BY <1>2, <2>3, SubSeqProperties
  <2>5. \A x \in 1 .. Len(d) : d[x] = e[x]
    BY <1>2, <2>1, <2>2, <2>4
  <2>6. /\ Len(d) >= 4 => Len(a) = Len(c)
        /\ Len(d) >= 7 + Len(a) => Len(v) = Len(w)
    <3> DEFINE n == Len(d)
    <3>1. n \in Nat /\ n <= Len(d) /\ \A x \in 1 .. n : d[x] = e[x]
      BY <1>2, <2>5
    <3> HIDE DEF n
    <3>2. /\ n >= 4 => Len(a) = Len(c)
          /\ n >= 7 + Len(a) => Len(v) = Len(w)
      BY <3>1, EntriesAlike
    <3> QED BY <3>2 DEF n
  <2>7. Len(a) = Len(c) /\ Len(v) = Len(w)
    BY <1>0, <1>1, <2>6
  <2>8. Len(d) = Len(e)
    BY <1>1, <2>7
  <2>9. d = e
    BY <1>1, <2>5, <2>8, SeqEqual
  <2> QED BY <2>1, <2>9
<1>4. BytesLess(d, e) <=> Differ(d, e)
  BY <1>2, <1>3 DEF BytesLess, LessAt, Differ
<1>5. Differ(d, e) => EntryLess(k, a, v, j, c, w)
  BY BytesToFields DEF Differ
<1>6. EntryLess(k, a, v, j, c, w) => Differ(d, e)
  BY FieldsToBytes
<1> QED BY <1>4, <1>5, <1>6

LEMMA FieldOrder ==
  ASSUME NEW a \in Strings, NEW v \in Strings, NEW c \in Strings, NEW w \in Strings,
         NEW k \in {0, 1}, NEW j \in {0, 1}
  PROVE  FieldsLess(LogMessage(k, a, v), LogMessage(j, c, w)) <=> EntryLess(k, a, v, j, c, w)
<1> DEFINE m == LogMessage(k, a, v)
           n == LogMessage(j, c, w)
           F(e) == <<<<e[1].i>>, <<StoredLen(Len(e[2].s))>>, e[2].s,
                                 <<StoredLen(Len(e[3].s))>>, e[3].s>>
           sa == StoredLen(Len(a))
           sv == StoredLen(Len(v))
           sc == StoredLen(Len(c))
           sw == StoredLen(Len(w))
<1>0. /\ Len(a) \in Nat /\ Len(v) \in Nat /\ Len(c) \in Nat /\ Len(w) \in Nat
      /\ a \in Seq(Bytes) /\ c \in Seq(Bytes) /\ v \in Seq(Bytes) /\ w \in Seq(Bytes)
  BY StringFacts
<1>1. FieldsLess(m, n) <=> \E x \in 1 .. 5 : /\ BytesLess(F(m)[x], F(n)[x])
                                           /\ \A y \in 1 .. x - 1 : F(m)[y] = F(n)[y]
  BY Zenon DEF FieldsLess
<1>2. /\ m[1].i = k /\ m[2].s = a /\ m[3].s = v
      /\ n[1].i = j /\ n[2].s = c /\ n[3].s = w
  BY DEF LogMessage, Int1, Str
<1> DEFINE f == F(m)
           g == F(n)
<1>3. /\ f[1] = <<k>> /\ f[2] = <<sa>> /\ f[3] = a /\ f[4] = <<sv>> /\ f[5] = v
      /\ g[1] = <<j>> /\ g[2] = <<sc>> /\ g[3] = c /\ g[4] = <<sw>> /\ g[5] = w
  <2> HIDE DEF m, n
  <2> QED BY <1>2
<1>4. FieldsLess(m, n) <=> \E x \in 1 .. 5 : BytesLess(f[x], g[x]) /\ \A y \in 1 .. x - 1 : f[y] = g[y]
  BY <1>1, Zenon
<1>5. /\ sa \in Nat /\ sv \in Nat /\ sc \in Nat /\ sw \in Nat
      /\ sa < sc <=> LenLess(Len(a), Len(c))
      /\ sv < sw <=> LenLess(Len(v), Len(w))
      /\ sa = sc <=> Len(a) = Len(c)
      /\ sv = sw <=> Len(v) = Len(w)
  BY StoredLenLess
<1> HIDE DEF F, f, g, m, n, sa, sv, sc, sw
<1>6. (\E x \in 1 .. 5 : BytesLess(f[x], g[x]) /\ \A y \in 1 .. x - 1 : f[y] = g[y]) <=>
        \/ BytesLess(f[1], g[1])
        \/ BytesLess(f[2], g[2]) /\ f[1] = g[1]
        \/ BytesLess(f[3], g[3]) /\ f[1] = g[1] /\ f[2] = g[2]
        \/ BytesLess(f[4], g[4]) /\ f[1] = g[1] /\ f[2] = g[2] /\ f[3] = g[3]
        \/ BytesLess(f[5], g[5]) /\ f[1] = g[1] /\ f[2] = g[2] /\ f[3] = g[3] /\ f[4] = g[4]
  <2>1. /\ 1 .. 5 = {1, 2, 3, 4, 5} /\ 1 .. 1 - 1 = {} /\ 1 .. 2 - 1 = {1} /\ 1 .. 3 - 1 = {1, 2}
        /\ 1 .. 4 - 1 = {1, 2, 3} /\ 1 .. 5 - 1 = {1, 2, 3, 4}
    OBVIOUS
  <2> DEFINE P(x) == BytesLess(f[x], g[x]) /\ \A y \in 1 .. x - 1 : f[y] = g[y]
  <2>2. /\ P(1) <=> BytesLess(f[1], g[1])
        /\ P(2) <=> BytesLess(f[2], g[2]) /\ f[1] = g[1]
        /\ P(3) <=> BytesLess(f[3], g[3]) /\ f[1] = g[1] /\ f[2] = g[2]
        /\ P(4) <=> BytesLess(f[4], g[4]) /\ f[1] = g[1] /\ f[2] = g[2] /\ f[3] = g[3]
        /\ P(5) <=> /\ BytesLess(f[5], g[5]) /\ f[1] = g[1] /\ f[2] = g[2] /\ f[3] = g[3]
                    /\ f[4] = g[4]
    BY <2>1
  <2>3. (\E x \in 1 .. 5 : P(x)) <=> (P(1) \/ P(2) \/ P(3) \/ P(4) \/ P(5))
    <3> HIDE DEF P
    <3> QED BY <2>1
  <2> QED BY <2>2, <2>3, Zenon
<1>7. /\ f[1] = g[1] <=> k = j
      /\ f[2] = g[2] <=> Len(a) = Len(c)
      /\ f[4] = g[4] <=> Len(v) = Len(w)
      /\ f[3] = g[3] <=> a = c
  BY <1>3, <1>5
<1>8. /\ BytesLess(f[1], g[1]) <=> k < j
      /\ BytesLess(f[2], g[2]) <=> LenLess(Len(a), Len(c))
      /\ BytesLess(f[4], g[4]) <=> LenLess(Len(v), Len(w))
  BY <1>3, <1>5, OneLess
<1>9. /\ Len(a) = Len(c) => (BytesLess(f[3], g[3]) <=> \E x \in 1 .. Len(a) : LessAt(a, c, x))
      /\ Len(v) = Len(w) => (BytesLess(f[5], g[5]) <=> \E x \in 1 .. Len(v) : LessAt(v, w, x))
  BY <1>0, <1>3, SameLenLess
<1>10. a = c => Len(a) = Len(c)
  OBVIOUS
<1> QED BY <1>4, <1>6, <1>7, <1>8, <1>9, <1>10, Zenon DEF EntryLess, m, n

\* The bytes of a log entry.
LEMMA EntryLaid ==
  ASSUME NEW a \in Strings, NEW v \in Strings, NEW k \in {0, 1},
         NEW b \in Buffers, Laid(b, LogMessage(k, a, v), 4)
  PROVE  IsEntry(SubSeq(b, 1, Offset(LogMessage(k, a, v), 5)), k, a, v)
<1> DEFINE la == Len(a)
           lv == Len(v)
           m  == LogMessage(k, a, v)
           f1 == Int1(k)
           f2 == Str(a)
           f3 == Str(v)
<1>0. la \in Nat /\ lv \in Nat /\ Base \in Nat /\ BuffLen \in Nat
  BY StringFacts, BaseAssumption, LenAssumption
<1>1. /\ f1 \in Fields /\ f2 \in Fields /\ f3 \in Fields
      /\ Width(f1) = 2 /\ Width(f2) = la + 3 /\ Width(f3) = lv + 3
  BY IntField, StrField
<1>2. /\ f1.kind = "int" /\ f1.i = k /\ f2.kind = "string" /\ f2.s = a
      /\ f3.kind = "string" /\ f3.s = v
  BY DEF Int1, Str
<1>3. m = <<f1, f2, f3>>
  BY DEF LogMessage
<1>4. k \in Bytes
  BY <1>0, BaseAssumption DEF Bytes
<1>5. Laid(b, m, 4)
  OBVIOUS
<1>6. 2 + (la + 3) + (lv + 3) <= BuffLen
  BY LongestFits
<1> HIDE DEF la, lv, m, f1, f2, f3
<1>7. DOMAIN m = 1 .. 3 /\ m[1] = f1 /\ m[2] = f2 /\ m[3] = f3
  BY <1>3
<1>8. FieldWidth(m, 1) = 2 /\ FieldWidth(m, 2) = la + 3
      /\ FieldWidth(m, 3) = lv + 3 /\ FieldWidth(m, 4) = 0
  BY <1>1, <1>7 DEF FieldWidth
<1>9. Offset(m, 1) = 0 /\ Offset(m, 2) = 2 /\ Offset(m, 3) = la + 5 /\ Offset(m, 5) = la + lv + 8
  BY <1>0, <1>8 DEF Offset
<1>10. Holds(b, 0, f1) /\ Holds(b, 2, f2) /\ Holds(b, la + 5, f3)
  <2>1. \A i \in 1 .. 3 : i \in 1 .. 4
    OBVIOUS
  <2> QED BY <1>5, <1>7, <1>9, <2>1 DEF Laid
<1>11. b[1] = k /\ b[2] = 0
  <2>1. b[0 + 1] = k % Base /\ b[0 + 2] = k \div Base
    BY <1>2, <1>10 DEF Holds
  <2> QED BY <1>4, <2>1, OneByte
<1>12. /\ b[3] = Lo(la) /\ b[4] = Hi(la) /\ b[5 + la] = 0
       /\ \A x \in 1 .. la : b[4 + x] = a[x]
  <2>1. /\ b[2 + 1] = (la + 1) % Base /\ b[2 + 2] = (la + 1) \div Base /\ b[2 + 3 + la] = NUL
        /\ \A x \in 1 .. la : b[2 + 2 + x] = a[x]
    BY <1>2, <1>10 DEF Holds, la
  <2> QED BY <1>0, <2>1 DEF NUL, Lo, Hi
<1>13. /\ b[6 + la] = Lo(lv) /\ b[7 + la] = Hi(lv) /\ b[8 + la + lv] = 0
       /\ \A x \in 1 .. lv : b[7 + la + x] = v[x]
  <2>1. /\ b[la + 5 + 1] = (lv + 1) % Base /\ b[la + 5 + 2] = (lv + 1) \div Base
        /\ b[la + 5 + 3 + lv] = NUL
        /\ \A x \in 1 .. lv : b[la + 5 + 2 + x] = v[x]
    BY <1>2, <1>10 DEF Holds, lv
  <2>2. /\ la + 5 + 1 = 6 + la /\ la + 5 + 2 = 7 + la /\ la + 5 + 3 + lv = 8 + la + lv
        /\ \A x \in 1 .. lv : la + 5 + 2 + x = 7 + la + x
    BY <1>0
  <2> QED BY <2>1, <2>2 DEF NUL, Lo, Hi
<1> DEFINE t == la + lv + 8
           e == SubSeq(b, 1, t)
<1>14. t \in Nat /\ t >= 8 /\ t <= BuffLen
  BY <1>0, <1>6
<1>15. e \in Seq(Bytes) /\ Len(e) = t /\ \A x \in 1 .. t : e[x] = b[x]
  <2> HIDE DEF t
  <2>1. \A x \in 1 .. t : b[x] \in Bytes
    BY <1>0, <1>14 DEF Buffers
  <2>2. /\ e \in Seq(Bytes)
        /\ Len(e) = IF 1 <= t THEN t - 1 + 1 ELSE 0
        /\ \A x \in 1 .. t - 1 + 1 : e[x] = b[1 + x - 1]
    BY <1>14, <2>1, SubSeqProperties
  <2> HIDE DEF e
  <2> QED BY <1>14, <2>2
<1> HIDE DEF e
<1>16. /\ {1, 2, 3, 4, 5 + la, 6 + la, 7 + la, 8 + la + lv} \subseteq 1 .. t
       /\ (\A x \in 1 .. la : 4 + x \in 1 .. t) /\ \A x \in 1 .. lv : 7 + la + x \in 1 .. t
  BY <1>0
<1>17. /\ e[1] = k /\ e[2] = 0 /\ e[3] = Lo(la) /\ e[4] = Hi(la)
       /\ (\A x \in 1 .. la : e[4 + x] = a[x])
       /\ e[5 + la] = 0 /\ e[6 + la] = Lo(lv) /\ e[7 + la] = Hi(lv)
       /\ (\A x \in 1 .. lv : e[7 + la + x] = v[x])
       /\ e[8 + la + lv] = 0
  <2> HIDE DEF t
  <2> QED BY <1>11, <1>12, <1>13, <1>15, <1>16
<1>18. IsEntry(e, k, a, v)
  BY <1>15, <1>17 DEF IsEntry, la, lv
<1> QED BY <1>9, <1>18 DEF e, m

LEMMA TravelsOrders == Travels => LogOrder
<1> DEFINE e == Encode(Zeros, got)
<1> SUFFICES ASSUME Travels, phase = "send", msg \in LogMessages, got \in LogMessages
             PROVE  BytesLess(SubSeq(sendBuff, 1, total), SubSeq(e.b, 1, e.at))
                      <=> FieldsLess(msg, got)
  BY Zenon DEF LogOrder
<1>1. sendBuff \in Buffers /\ total = Offset(msg, 5) /\ Laid(sendBuff, msg, 4)
  BY DEF Travels
<1>2. PICK k \in {0, 1}, a \in Strings, v \in Strings : msg = LogMessage(k, a, v)
  BY DEF LogMessages
<1>3. PICK j \in {0, 1}, c \in Strings, w \in Strings : got = LogMessage(j, c, w)
  BY DEF LogMessages
<1>4. Zeros \in Buffers
  BY BaseAssumption DEF Zeros, Buffers, Bytes, NUL
<1>5. IsMessage(got)
  BY MessagesFit DEF Messages
<1>6. e.b \in Buffers /\ e.at = Offset(got, 5) /\ Laid(e.b, got, 4)
  BY <1>4, <1>5, EncodeLays
<1> HIDE DEF e
<1>7. IsEntry(SubSeq(sendBuff, 1, total), k, a, v)
  BY <1>1, <1>2, EntryLaid
<1>8. IsEntry(SubSeq(e.b, 1, e.at), j, c, w)
  BY <1>3, <1>6, EntryLaid
<1>9. BytesLess(SubSeq(sendBuff, 1, total), SubSeq(e.b, 1, e.at)) <=> EntryLess(k, a, v, j, c, w)
  BY <1>7, <1>8, EntryOrder
<1>10. FieldsLess(msg, got) <=> EntryLess(k, a, v, j, c, w)
  BY <1>2, <1>3, FieldOrder
<1> QED BY <1>9, <1>10

\* The log database, whose keys are the encoded entries, has them in the order
\* of their fields, a length counting as its low byte and then its high one.
THEOREM LogInFieldOrder == Spec => []LogOrder
BY TravelsInit, TravelsNext, TravelsOrders, PTL DEF Spec
=============================================================================
