---------------------------- MODULE HandleBuff ----------------------------
(***************************************************************************)
(* The encoding of everything the nodes send and store (handle_buff.cpp,   *)
(* LOG::to_slice, Control_meta::to_slice) and its way through the buffers: *)
(* a message is encoded in send_buff over an older one, its first bytes    *)
(* travel into receive_buff over an older one, and strings are decoded     *)
(* through an array on the stack that nobody clears.                       *)
(*                                                                         *)
(* A byte is a number below Base, a char is a byte other than NUL (0), and *)
(* an int has two bytes, the low one first.                                *)
(***************************************************************************)
EXTENDS Integers, SequencesExt

CONSTANTS Base,      \* the number of values of a byte
          Strings,   \* the strings that are sent
          Words,     \* those that are commands or ok
          Ints,      \* the ints that are sent: node numbers and sizes
          BuffLen    \* MAXLINE

ASSUME BaseAssumption == Base \in Nat /\ Base > 2
ASSUME StringsAssumption == Strings \subseteq Seq(1 .. Base - 1)
ASSUME WordsAssumption == Words \subseteq Strings /\ Words # {}
ASSUME IntsAssumption == Ints \subseteq 0 .. Base * Base - 1
\* Every length fits in an int, and every message (a word, an int and two strings
\* at most) in a buffer.
ASSUME LenAssumption ==
  /\ BuffLen \in Nat /\ BuffLen >= 2
  /\ \A w \in Words, s \in Strings :
       Len(s) + 1 < Base * Base /\ (Len(w) + 3) + 2 + 2 * (Len(s) + 3) <= BuffLen

NUL == 0
SizeOfInt == 2

IntBytes(i) == <<i % Base, i \div Base>>

\* bytes written into buffer b from offset at on: memcpy to b.
Write(b, at, bytes) ==
  [x \in 1 .. BuffLen |->
     IF x \in at + 1 .. at + Len(bytes) THEN bytes[x - at] ELSE b[x]]

-----------------------------------------------------------------------------
(* The functions of handle_buff.cpp.  A cursor is the buffer and the       *)
(* offset of the next object in it.                                        *)

\* Mutant: the terminating NUL is not counted, and so not sent.
StrLenWithoutNul(s) == Len(s)

\* The length insert_str_to_buff stores: the NUL is counted.
StrLen(s) == Len(s) + 1

\* Mutant: every string takes Base bytes, padded with NULs.
InsertStrPadded(c, s) ==
  LET bytes == IntBytes(Base) \o [x \in 1 .. Base |-> IF x <= Len(s) THEN s[x] ELSE NUL]
  IN  [b |-> Write(c.b, c.at, bytes), at |-> c.at + Len(bytes)]

InsertStr(c, s) ==
  LET bytes == IntBytes(StrLen(s)) \o SubSeq(Append(s, NUL), 1, StrLen(s))
  IN  [b |-> Write(c.b, c.at, bytes), at |-> c.at + Len(bytes)]

InsertInt(c, i) ==
  [b |-> Write(c.b, c.at, IntBytes(i)), at |-> c.at + SizeOfInt]

GetInt(c) == c.b[c.at + 1] + Base * c.b[c.at + 2]

\* memcpy of the string's bytes to the array on the stack.
CopyToStack(c, stack) ==
  Write(stack, 0, SubSeq(c.b, c.at + SizeOfInt + 1, c.at + SizeOfInt + GetInt(c)))

\* std::string(tmp): the chars before the first NUL of the array.
StackString(stack) ==
  LET end == CHOOSE x \in 1 .. BuffLen :
               /\ stack[x] = NUL
               /\ \A y \in 1 .. x - 1 : stack[y] # NUL
  IN  SubSeq(stack, 1, end - 1)

-----------------------------------------------------------------------------
(* Messages: lists of strings and ints, in the layouts the program uses.   *)

Str(s) == [kind |-> "string", s |-> s, i |-> 0]

Int1(i) == [kind |-> "int", s |-> <<>>, i |-> i]

\* The three fields of LOG::to_slice: kind, key, value.
LogMessage(k, key, val) == <<Int1(k), Str(key), Str(val)>>

\* The three fields of Control_meta::to_slice.
MetaMessage(lo, hi, fd) == <<Str(lo), Str(hi), Int1(fd)>>

\* The LOG request: the command, and LogMessage behind it.
LogRequest(w, k, key, val) == <<Str(w), Int1(k), Str(key), Str(val)>>

\* The answer to LOG: ok and the bounds that log_log predicts.
LogAnswer(w, lo, hi) == <<Str(w), Str(lo), Str(hi)>>

\* A command with its argument (GET, TEST), and a key with its value.
PairMessage(a, b) == <<Str(a), Str(b)>>

\* A command without an argument, ok, and the value GET answers.
StrMessage(s) == <<Str(s)>>

\* The answer to SIZE and LESS_OR_EQUAL_ONE.
IntMessage(i) == <<Int1(i)>>

LogMessages == {LogMessage(k, a, b) : k \in {0, 1}, a, b \in Strings}

Messages ==
  LogMessages
    \cup {MetaMessage(a, b, fd) : a, b \in Strings, fd \in Ints}
    \cup {LogRequest(w, k, a, b) : w \in Words, k \in {0, 1}, a, b \in Strings}
    \cup {LogAnswer(w, a, b) : w \in Words, a, b \in Strings}
    \cup {PairMessage(a, b) : a, b \in Strings}
    \cup {StrMessage(s) : s \in Strings}
    \cup {IntMessage(i) : i \in Ints}

\* One insert call: the n-th field of m, if it has as many.
InsertField(c, m, n) ==
  IF n \notin DOMAIN m THEN c
  ELSE IF m[n].kind = "int" THEN InsertInt(c, m[n].i) ELSE InsertStr(c, m[n].s)

\* One insert call after the other, from the start of the buffer: four at most.
Encode(buff, m) ==
  LET first  == InsertField([b |-> buff, at |-> 0], m, 1)
      second == InsertField(first, m, 2)
      third  == InsertField(second, m, 3)
  IN  InsertField(third, m, 4)

\* One get call: the field, the cursor behind it and the stack it leaves.
GetField(d, kinds, n) ==
  IF n \notin DOMAIN kinds THEN d
  ELSE IF kinds[n] = "int"
  THEN [b |-> d.b, at |-> d.at + SizeOfInt, stack |-> d.stack,
        out |-> Append(d.out, Int1(GetInt(d)))]
  ELSE LET stack == CopyToStack(d, d.stack)
       IN  [b |-> d.b, at |-> d.at + SizeOfInt + GetInt(d), stack |-> stack,
            out |-> Append(d.out, Str(StackString(stack)))]

Decode(buff, stack, kinds) ==
  LET first  == GetField([b |-> buff, at |-> 0, stack |-> stack, out |-> <<>>], kinds, 1)
      second == GetField(first, kinds, 2)
      third  == GetField(second, kinds, 3)
  IN  GetField(third, kinds, 4)

-----------------------------------------------------------------------------
VARIABLES
  sendBuff, recvBuff, tmp,  \* the buffers and the array on the stack
  total,                    \* total_len of the message in sendBuff
  msg,                      \* that message
  got,                      \* what the receiver has decoded
  phase                     \* "encode", "send" or "decode"

vars == <<sendBuff, recvBuff, tmp, total, msg, got, phase>>

Zeros == [x \in 1 .. BuffLen |-> NUL]

Kinds(m) == [x \in 1 .. Len(m) |-> m[x].kind]

EncodeMessage(m) ==
  /\ phase = "encode"
  /\ msg' = m
  /\ sendBuff' = Encode(sendBuff, m).b
  /\ total' = Encode(sendBuff, m).at
  /\ phase' = "send"
  /\ UNCHANGED <<recvBuff, tmp, got>>

\* send_to of total_len bytes, and receive_from.
Send ==
  /\ phase = "send"
  /\ recvBuff' = Write(recvBuff, 0, SubSeq(sendBuff, 1, total))
  /\ phase' = "decode"
  /\ UNCHANGED <<sendBuff, tmp, total, msg, got>>

DecodeMessage ==
  LET d == Decode(recvBuff, tmp, Kinds(msg))
  IN  /\ phase = "decode"
      /\ got' = d.out
      /\ tmp' = d.stack
      /\ phase' = "encode"
      /\ UNCHANGED <<sendBuff, recvBuff, total, msg>>

Init ==
  /\ sendBuff = Zeros /\ recvBuff = Zeros /\ tmp = Zeros
  /\ total = 0 /\ msg = <<>> /\ got = <<>>
  /\ phase = "encode"

Next ==
  \/ \E m \in Messages : EncodeMessage(m)
  \/ Send
  \/ DecodeMessage

Spec == Init /\ [][Next]_vars

-----------------------------------------------------------------------------
(* Properties.                                                             *)

\* The receiver decodes what the sender encoded, whatever longer messages the
\* buffers held before and whatever the stack holds.
RoundTrip == phase = "encode" => got = msg

\* The bytewise order RocksDB gives to two keys.
BytesLess(a, b) ==
  \/ IsStrictPrefix(a, b)
  \/ \E x \in DOMAIN a \cap DOMAIN b : /\ a[x] < b[x]
                                      /\ \A y \in 1 .. x - 1 : a[y] = b[y]

\* A length as RocksDB's order sees it: the low byte of the int comes first and
\* decides, so that a length of Base is below one of 1.
StoredLen(len) == ((len + 1) % Base) * Base + (len + 1) \div Base

\* The order of two log entries by kind, length and text of the key, length and
\* text of the value: the order the other modules give to the log.
FieldsLess(m, n) ==
  LET fields(e) == <<<<e[1].i>>, <<StoredLen(Len(e[2].s))>>, e[2].s,
                                 <<StoredLen(Len(e[3].s))>>, e[3].s>>
  IN  \E x \in 1 .. 5 : /\ BytesLess(fields(m)[x], fields(n)[x])
                        /\ \A y \in 1 .. x - 1 : fields(m)[y] = fields(n)[y]

\* The log database, whose keys are encoded entries, keeps two of them in the
\* order of their fields, whatever their lengths: the entry just encoded and the
\* one before it.
LogOrder ==
  (phase = "send" /\ msg \in LogMessages /\ got \in LogMessages) =>
    LET e == Encode(Zeros, got)
    IN  BytesLess(SubSeq(sendBuff, 1, total), SubSeq(e.b, 1, e.at))
          <=> FieldsLess(msg, got)
=============================================================================
