---------------------------- MODULE KeyEncoding ----------------------------
(***************************************************************************)
(* The order-preserving encoding of rows and index entries (db/table.go):  *)
(* the keys of the B+tree are compared as byte strings, and that order has *)
(* to be the order of the column values they stand for.                    *)
(*                                                                         *)
(* A byte string is a sequence of numbers below 256.  An integer has       *)
(* IntBytes bytes, 8 in the code.  The table prefix, four bytes in big     *)
(* endian order, is one element.                                           *)
(***************************************************************************)
EXTENDS Integers, Sequences, SequencesExt

CONSTANT IntBytes   \* bytes of an integer

ASSUME IntBytesAssumption == IntBytes \in Nat \ {0}

TYPE_BYTES == 1
TYPE_INT64 == 2

\* Table cells.
StrVal(s) == [Type |-> TYPE_BYTES, I64 |-> 0, Str |-> s]
IntVal(n) == [Type |-> TYPE_INT64, I64 |-> n, Str |-> <<>>]

\* A step of a computation, and what comes after it, given its result.
Then(result, Rest(_)) == Rest(result)

-----------------------------------------------------------------------------
(* Byte strings.                                                           *)

\* bytes.Compare, the order of the keys of a tree.
Compare(a, b) ==
    LET order(m, n) == IF m < n THEN -1 ELSE IF m = n THEN 0 ELSE 1
        differ == {i \in DOMAIN a \cap DOMAIN b : a[i] # b[i]}
    IN  IF differ = {} THEN order(Len(a), Len(b)) ELSE order(a[Min(differ)], b[Min(differ)])

-----------------------------------------------------------------------------
(* Encoding.                                                               *)

\* 256 ^ k, and with it the number of integers.
pow256[k \in 0 .. IntBytes] == IF k = 0 THEN 1 ELSE 256 * pow256[k - 1]

intRange == pow256[IntBytes]

\* What is left of u without its k lowest bytes.
shifted(u) ==
    LET without[k \in 0 .. IntBytes] == IF k = 0 THEN u ELSE without[k - 1] \div 256
    IN  without

bigEndian(u) == Then(shifted(u), LAMBDA without :
                     [i \in 1 .. IntBytes |-> without[IntBytes - i] % 256])

\* Mutant: the sign bit is not flipped.
encodeIntPlain(n) == bigEndian(n % intRange)

\* Two's complement with the sign bit flipped, in big endian order.
encodeInt(n) == bigEndian(((n % intRange) + intRange \div 2) % intRange)

\* 00 becomes 01 01 and 01 becomes 01 02, so that 00 can end a string.
escapeString(s) ==
    FlattenSeq([i \in DOMAIN s |-> IF s[i] <= 1 THEN <<1, s[i] + 1>> ELSE <<s[i]>>])

encodeValue(v) ==
    <<v.Type>> \o (IF v.Type = TYPE_INT64 THEN encodeInt(v.I64)
                   ELSE Append(escapeString(v.Str), 0))

encodeValues(vals) == FlattenSeq([i \in DOMAIN vals |-> encodeValue(vals[i])])

encodeKey(prefix, vals) == <<prefix>> \o encodeValues(vals)

\* The columns that are missing are +inf (ff) or -inf (nothing).
encodeKeyPartial(prefix, vals, cmp) ==
    encodeKey(prefix, vals) \o (IF cmp \in {"GT", "LE"} THEN <<255>> ELSE <<>>)

-----------------------------------------------------------------------------
(* Decoding.  An assert that fails is ok = FALSE.                          *)

decodeInt(b) ==
    LET u[i \in 0 .. IntBytes] == IF i = 0 THEN 0 ELSE 256 * u[i - 1] + b[i]
        n == (u[IntBytes] + intRange \div 2) % intRange
    IN  IF n < intRange \div 2 THEN n ELSE n - intRange

unescapeString(s) ==
    LET from[i \in 1 .. Len(s) + 2] ==
            IF i > Len(s) THEN <<>>
            ELSE IF s[i] = 1 THEN <<s[i + 1] - 1>> \o from[i + 2] ELSE <<s[i]>> \o from[i + 1]
    IN  from[1]

\* One column, of the given type, is taken from the front of d.rest.
decodeValue(d, type) ==
    LET body == Tail(d.rest)
        value(s) == IF type = TYPE_INT64 THEN IntVal(decodeInt(s))
                    ELSE StrVal(unescapeString(SubSeq(s, 1, Len(s) - 1)))
    IN  IF ~d.ok \/ d.rest = <<>> THEN [d EXCEPT !.ok = FALSE]
        ELSE Then(IF type = TYPE_INT64 THEN IntBytes ELSE SelectInSeq(body, LAMBDA b : b = 0),
            LAMBDA len :
                IF Head(d.rest) # type \/ Len(body) < len \/ len = 0 THEN [d EXCEPT !.ok = FALSE]
                ELSE [ok   |-> TRUE,
                      vals |-> Append(d.vals, value(SubSeq(body, 1, len))),
                      rest |-> SubSeq(body, len + 1, Len(body))])

decodeValues(in, types) ==
    LET decoded[i \in 0 .. Len(types)] ==
            IF i = 0 THEN [ok |-> TRUE, vals |-> <<>>, rest |-> in]
            ELSE Then(decoded[i - 1], LAMBDA d : decodeValue(d, types[i]))
    IN  Then(decoded[Len(types)], LAMBDA d : [d EXCEPT !.ok = @ /\ d.rest = <<>>])

decodeKey(in, types) == decodeValues(Tail(in), types)
=============================================================================
