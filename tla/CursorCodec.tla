----------------------------- MODULE CursorCodec -----------------------------
(***************************************************************************)
(* The cursor of a listing, resource_repository.cpp: the position of the   *)
(* last row of a page, "updated_at|id", in base64.                         *)
(*                                                                         *)
(* A position is [at, id].  A text is a sequence of bytes, a cursor a      *)
(* sequence of indices into kBase64Chars, with 64 for '='.  PostgreSQL     *)
(* writes the texts of times and ids and reads them again; TextAssumption  *)
(* is all that matters of them.                                            *)
(***************************************************************************)
EXTENDS Integers, FiniteSets, Sequences

CONSTANTS
  TimeText,  \* text of every time, to_char() with microseconds
  IdText     \* text of every id

Pad == 64
Bar == 124

\* to_char() leaves nothing of a timestamp out and puts no bar into it.
ASSUME TextAssumption ==
  /\ \A t \in DOMAIN TimeText : TimeText[t] \in Seq((0..255) \ {Bar}) \ {<<>>}
  /\ \A i \in DOMAIN IdText : IdText[i] \in Seq(0..255) \ {<<>>}
  /\ \A t, u \in DOMAIN TimeText : TimeText[t] = TimeText[u] => t = u
  /\ \A i, j \in DOMAIN IdText : IdText[i] = IdText[j] => i = j

\* updated_at + "|" + id
Text(p) == TimeText[p.at] \o <<Bar>> \o IdText[p.id]

\* The bits from .. from + w - 1, counted from the left, of the digits in s,
\* which have d bits each; zeros follow the last.  The loops of the code shift
\* the digits through val and take the same bits out of it.
Bits(s, d, from, w) ==
  LET At(k) == IF k <= Len(s) THEN s[k] ELSE 0
      k     == from \div d + 1
  IN  ((At(k) * 2^d + At(k + 1)) \div 2^(2 * d - (from % d) - w)) % 2^w

base64_encode(in) ==
  LET n == (8 * Len(in) + 5) \div 6
  IN  [k \in 1..n |-> Bits(in, 8, 6 * (k - 1), 6)] \o [k \in 1..((-n) % 4) |-> Pad]

\* Characters that are not in kBase64Chars are passed over, '=' too.
Digits(in) ==
  LET kept[i \in 0..Len(in)] == IF i = 0 THEN <<>>
                                ELSE IF in[i] = Pad THEN kept[i - 1]
                                ELSE Append(kept[i - 1], in[i])
  IN  kept[Len(in)]

\* Bits that do not fill a byte are dropped.
base64_decode(in) ==
  LET digits == Digits(in)
  IN  [k \in 1..((6 * Len(digits)) \div 8) |-> Bits(digits, 6, 8 * (k - 1), 8)]

encode_cursor(p) == base64_encode(Text(p))

\* decoded.find('|') + 1, or 0 for npos.
Separator(decoded) ==
  LET bars == {i \in DOMAIN decoded : decoded[i] = Bar}
  IN  IF bars = {} THEN 0 ELSE CHOOSE i \in bars : \A j \in bars : i <= j

\* decode_cursor() throws InvalidCursorError.
Malformed(cursor) ==
  LET decoded == base64_decode(cursor)
  IN  Separator(decoded) \in {0, 1, Len(decoded)}

\* The text before and the text after the bar, as PostgreSQL reads them.
decode_cursor(cursor) ==
  LET decoded == base64_decode(cursor)
      sep     == Separator(decoded)
      time    == SubSeq(decoded, 1, sep - 1)
      uuid    == SubSeq(decoded, sep + 1, Len(decoded))
  IN  [at |-> CHOOSE t \in DOMAIN TimeText : TimeText[t] = time,
       id |-> CHOOSE i \in DOMAIN IdText : IdText[i] = uuid]

=============================================================================
