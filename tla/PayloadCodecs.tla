------------------------------ MODULE PayloadCodecs ------------------------------
(***************************************************************************)
(* How payloads are put together: fossil deltas (src/centrifuge/fossil.py, *)
(* apply_delta()), and protobuf messages with their lengths in one frame   *)
(* (src/centrifuge/codecs.py).  Pure functions, compared with what they    *)
(* are to compute on small inputs; the radices are constants, 64, 256 and  *)
(* 128 in the code.                                                        *)
(*                                                                         *)
(* A byte below Radix stands for the base-64 digit of that value, the five *)
(* bytes above for the characters a delta is made of.  That the server     *)
(* encodes deltas as Encoded does is external.                             *)
(***************************************************************************)
EXTENDS Integers, Sequences, SequencesExt

CONSTANTS
    Radix,       \* of the numbers in a delta
    ByteRadix,   \* of a byte; a checksum has four
    Group,       \* of a byte of a varint, without its top bit
    MaxSource, MaxScript, MaxMessage   \* lengths: a source, the commands of a delta, a message

Word == ByteRadix * ByteRadix * ByteRadix * ByteRadix

ASSUME RadixAssumption ==
    /\ {Radix, ByteRadix, Group} \subseteq Nat \ {0, 1} /\ ByteRadix >= Radix + 5
    /\ {MaxSource, MaxScript, MaxMessage} \subseteq Nat

\* What the deltas here make fits the 32 bits that get_int() keeps.
ASSUME SizeAssumption == MaxScript * (MaxSource + 2) < Word

NewLine == Radix
At == Radix + 1
Comma == Radix + 2
Colon == Radix + 3
Semicolon == Radix + 4
Failure == <<-1>>   \* ValueError or IndexError

-----------------------------------------------------------------------------
(* Numbers as sequences of digits, highest first; both codecs have them *)

\* n, and n divided by the base again and again.
Quotients(n, base) ==
    LET quotient[i \in 0..n] == IF i = 0 THEN n ELSE quotient[i - 1] \div base IN quotient

Digits(n, base) ==
    LET quotient == Quotients(n, base)
        last == CHOOSE i \in 0..n : quotient[i] < base /\ \A j \in 0..(i - 1) : quotient[j] >= base
    IN  [i \in 1..(last + 1) |-> quotient[last + 1 - i] % base]

Values(digits, base) ==
    LET value[i \in 0..Len(digits)] == IF i = 0 THEN 0 ELSE value[i - 1] * base + digits[i] IN value
Value(digits, base) == Values(digits, base)[Len(digits)]

Sums(s) == LET sum[i \in 0..Len(s)] == IF i = 0 THEN 0 ELSE sum[i - 1] + s[i] IN sum
Total(s) == Sums(s)[Len(s)]

-----------------------------------------------------------------------------
(* apply_delta() *)

IsDigit(b) == b < Radix

\* Reader.get_int() at position p: the number, and the position of what ends it.  At the
\* end of the buffer "self.pos -= 1" goes back to the last byte, whatever it is.
GetInt(a, p) ==
    LET ends == {i \in p..Len(a) : ~IsDigit(a[i])}
        stop == IF ends = {} THEN Len(a) + 1 ELSE CHOOSE i \in ends : \A j \in ends : i <= j
    IN  [v   |-> Value(SubSeq(a, p, stop - 1), Radix) % Word,
         pos |-> IF ends = {} THEN Len(a) ELSE stop]

\* Four bytes as one number, high byte first.
Number(a, b, c, d) == d + ByteRadix * (c + ByteRadix * (b + ByteRadix * a))

\* checksum(): four sums of the complete words, then what is left, high bytes first.
Checksum(arr) ==
    LET n == Len(arr) \div 4
        sum == [k \in 1..4 |-> Total([i \in 1..n |-> arr[4 * (i - 1) + k]])]
        left == SubSeq(arr, 4 * n + 1, Len(arr)) \o <<0, 0, 0>>
    IN  (Number(sum[1], sum[2], sum[3], sum[4]) + Number(left[1], left[2], left[3], 0)) % Word

\* put_array(): a Python slice, cut at the end of the array.
Slice(a, start, end) == SubSeq(a, start + 1, IF end < Len(a) THEN end ELSE Len(a))

\* The end of what is copied may be one past the end of the source.
FaultyPastEnd(source, ofst, cnt) == ofst + cnt > Len(source) + 1

PastEnd(source, ofst, cnt) == ofst + cnt > Len(source)

\* One round of the loop: d.st is "run", "done" or "failed".
Round(source, delta, limit, d) ==
    LET cnt == GetInt(delta, d.pos)
        op == delta[cnt.pos]
        next == cnt.pos + 1
        ofst == GetInt(delta, next)
        total == d.total + cnt.v
        failed == [d EXCEPT !.st = "failed"]
        goesOn(out, pos) == [st |-> "run", out |-> d.out \o out, pos |-> pos, total |-> total]
    IN  CASE op = At ->
               IF delta[ofst.pos] # Comma \/ total > limit \/ PastEnd(source, ofst.v, cnt.v)
               THEN failed
               ELSE goesOn(Slice(source, ofst.v, ofst.v + cnt.v), ofst.pos + 1)
          [] op = Colon ->
               IF total > limit \/ cnt.v > Len(delta) - cnt.pos THEN failed
               ELSE goesOn(Slice(delta, cnt.pos, cnt.pos + cnt.v), next + cnt.v)
          [] op = Semicolon ->
               IF cnt.v # Checksum(d.out) \/ d.total # limit THEN failed
               ELSE [d EXCEPT !.st = "done"]
          [] OTHER -> failed

\* The state of the loop after n rounds; a round takes at least one byte of the delta.
Rounds(source, delta, limit, start) ==
    LET after[n \in 0..Len(delta)] ==
            IF n = 0 THEN start
            ELSE LET d == after[n - 1] IN
                 IF d.st = "run" /\ d.pos <= Len(delta) THEN Round(source, delta, limit, d) ELSE d
    IN  after

ApplyDelta(source, delta) ==
    LET limit == GetInt(delta, 1)
        start == [st |-> "run", out |-> <<>>, pos |-> limit.pos + 1, total |-> 0]
        result == Rounds(source, delta, limit.v, start)[Len(delta)]
    IN  IF delta = <<>> THEN Failure
        ELSE IF delta[limit.pos] # NewLine THEN Failure
        ELSE IF result.st = "done" THEN result.out ELSE Failure

-----------------------------------------------------------------------------
(* What a delta means *)

Copy(o, n) == [op |-> At, ofst |-> o, cnt |-> n, data |-> <<>>]
Insert(data) == [op |-> Colon, ofst |-> 0, cnt |-> Len(data), data |-> data]

Fits(source, c) == c.op = Colon \/ c.ofst + c.cnt <= Len(source)
Meant(source, c) == IF c.op = Colon THEN c.data ELSE Slice(source, c.ofst, c.ofst + c.cnt)
Written(c) == Digits(c.cnt, Radix) \o IF c.op = Colon THEN <<Colon>> \o c.data
                               ELSE <<At>> \o Digits(c.ofst, Radix) \o <<Comma>>

\* Big-endian words of four bytes, added.
ReferenceChecksum(arr) ==
    LET weight == <<ByteRadix * ByteRadix * ByteRadix, ByteRadix * ByteRadix, ByteRadix, 1>>
    IN  Total([i \in 1..Len(arr) |-> arr[i] * weight[((i - 1) % 4) + 1]]) % Word

Size(script) == Total([i \in 1..Len(script) |-> script[i].cnt])
Target(source, script) == FlattenSeq([i \in 1..Len(script) |-> Meant(source, script[i])])

\* A delta for `script', which says what it makes of the source.
Encoded(source, script) ==
    Digits(Size(script), Radix) \o <<NewLine>>
        \o FlattenSeq([i \in 1..Len(script) |-> Written(script[i])])
        \o Digits(ReferenceChecksum(Target(source, script)), Radix) \o <<Semicolon>>

-----------------------------------------------------------------------------
(* Varints and frames *)

\* _varint_encode(): groups, low ones first; Group is added to all but the last one.
VarintEncode(number) ==
    LET group == Digits(number, Group)
        n == Len(group)
    IN  [i \in 1..n |-> IF i < n THEN group[n + 1 - i] + Group ELSE group[1]]

\* The last group is not told from the others.
FaultyLastGroup(b) == b <= Group

LastGroup(b) == b < Group

\* _varint_decode() at position p.
VarintDecode(buffer, p) ==
    LET stop == CHOOSE i \in p..Len(buffer) : LastGroup(buffer[i]) /\ \A j \in p..(i - 1) : ~LastGroup(buffer[j])
        group == [i \in 1..(stop + 1 - p) |-> buffer[stop + 1 - i] % Group]
    IN  [v |-> Value(group, Group), pos |-> stop + 1]

\* encode_commands() and decode_replies() of the protobuf codec.
EncodeFrame(ms) == FlattenSeq([i \in 1..Len(ms) |-> VarintEncode(Len(ms[i])) \o ms[i]])

\* A round of the loop takes the next message: d.ms, and the position after it.
NextMessage(data, d) ==
    LET length == VarintDecode(data, d.pos)
        end == length.pos + length.v
    IN  [ms |-> Append(d.ms, SubSeq(data, length.pos, end - 1)), pos |-> end]

Messages(data) ==
    LET after[n \in 0..Len(data)] ==
            IF n = 0 THEN [ms |-> <<>>, pos |-> 1]
            ELSE LET d == after[n - 1] IN IF d.pos > Len(data) THEN d ELSE NextMessage(data, d)
    IN  after

DecodeFrame(data) == Messages(data)[Len(data)].ms

-----------------------------------------------------------------------------
(* Properties, over all small inputs *)

Upto(S, n) == UNION {[1..k -> S] : k \in 0..n}
Sources == {[i \in 1..n |-> (3 * i + 1) % ByteRadix] : n \in 0..MaxSource}
Scripts == Upto({Copy(o, n) : o, n \in 0..(MaxSource + 1)} \cup {Insert(s) : s \in Upto({0, Semicolon}, 2)}, MaxScript)

\* A delta is applied as the server meant it, a copy past the end of the source is
\* refused, and a delta cut short anywhere is refused, never applied in part: the way
\* get_int() steps back at the end of the buffer does no harm (apply_delta()).
Agrees(source, script) ==
    LET delta == Encoded(source, script)
    IN  IF \A i \in 1..Len(script) : Fits(source, script[i])
        THEN /\ ApplyDelta(source, delta) = Target(source, script)
             /\ \A n \in 0..(Len(delta) - 1) : ApplyDelta(source, SubSeq(delta, 1, n)) = Failure
        ELSE ApplyDelta(source, delta) = Failure

DeltasAgree == \A source \in Sources, script \in Scripts : Agrees(source, script)

\* Messages that are put in one frame come out of it, whatever their lengths.
FramesAgree ==
    \A ms \in Upto({[i \in 1..n |-> i] : n \in 0..MaxMessage}, 2) : DecodeFrame(EncodeFrame(ms)) = ms
=============================================================================
