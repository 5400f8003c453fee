---------------------------- MODULE StringValue -----------------------------
(***************************************************************************)
(* The string part of a value of the interpreter (interpreter/rxvmvars.h)  *)
(* and the instructions that work on it (interpreter/rxvmintp.c), in the   *)
(* build with UTF-8.  A value has a buffer of bytes and four numbers that  *)
(* belong together: its length in bytes and in characters, and a position  *)
(* in bytes and in characters, which is moved relative to where it is.     *)
(*                                                                         *)
(* A buffer is modelled by the bytes of the string in it and the end of    *)
(* what was last written there; what lies behind the string is never read. *)
(* No character is NUL, at which utf8nlen stops counting.                  *)
(***************************************************************************)
EXTENDS Integers, Sequences, FiniteSets, SequencesExt

CONSTANTS
  Value,                          \* the registers
  Character,                      \* the code points of a program
  Literal,                        \* its string constants
  SMALLEST_STRING_BUFFER_LENGTH,  \* 32 in the source
  MaxChars                        \* bound: characters in each register

ASSUME StringAssumption ==
  /\ \A c \in Character : c \in Nat /\ 0 < c /\ c < 1114112
  /\ 32 \in Character
  /\ Literal \subseteq Seq(Character)
  /\ SMALLEST_STRING_BUFFER_LENGTH \in Nat \ {0}
  /\ MaxChars \in [Value -> Nat]

VARIABLES
  value,   \* register -> string part of its value
  result   \* the integer the last instruction returned, 0 if it returns none

vars == <<value, result>>

-----------------------------------------------------------------------------
(* UTF-8 (utf8/utf.h) *)

(* A continuation byte has the bits 10 at its top.                         *)
Continues(b) == b \div 64 = 2

LowBits(n) == 128 + (n % 64)

utf8catcodepoint(c) ==
  CASE c < 128 -> <<c>>
    [] 128 <= c /\ c < 2048 -> <<192 + (c \div 64), LowBits(c)>>
    [] 2048 <= c /\ c < 65536 -> <<224 + (c \div 4096), LowBits(c \div 64), LowBits(c)>>
    [] 65536 <= c -> <<240 + (c \div 262144), LowBits(c \div 4096), LowBits(c \div 64), LowBits(c)>>

utf8codepointcalcsize(b) ==
  CASE b \div 8 = 30 -> 4
    [] b \div 16 = 14 -> 3
    [] b \div 32 = 6 -> 2
    [] b < 192 \/ b >= 248 -> 1

Encode(s) ==
  LET bytes[n \in 0 .. Len(s)] ==
        IF n = 0 THEN << >> ELSE bytes[n - 1] \o utf8catcodepoint(s[n]) IN
  bytes[Len(s)]

(* The byte at offset p of a buffer; there is nothing to see outside.      *)
At(bytes, p) == IF p \in 0 .. Len(bytes) - 1 THEN bytes[p + 1] ELSE 0

utf8codepoint(bytes, p) ==
  LET low(i) == At(bytes, p + i) % 64
      size == utf8codepointcalcsize(At(bytes, p)) IN
  CASE size = 4 -> (At(bytes, p) % 8) * 262144 + low(1) * 4096 + low(2) * 64 + low(3)
    [] size = 3 -> (At(bytes, p) % 16) * 4096 + low(1) * 64 + low(2)
    [] size = 2 -> (At(bytes, p) % 32) * 64 + low(1)
    [] size = 1 -> At(bytes, p)

(* The bytes from p back to the first byte of the character before it.     *)
OneByteBack(bytes, p) == 1
SizeAhead(bytes, p) == utf8codepointcalcsize(At(bytes, p))
utf8rcodepointcalcsize(bytes, p) ==
  CHOOSE n \in 1 .. 4 :
    ~Continues(At(bytes, p - n)) /\ \A k \in 1 .. n - 1 : Continues(At(bytes, p - k))

-----------------------------------------------------------------------------
(* Buffers *)

(* Three shifts copy each bit to the seven below it, so that the last bit  *)
(* is set if one of the last eight was: up to 256 that makes the smallest  *)
(* power of two.                                                           *)
buffer_size(n) ==
  LET spread[x \in 0 .. n - 1] ==
        IF x = 0 THEN 0 ELSE 2 * spread[x \div 2] + (IF x % 256 = 0 THEN 0 ELSE 1) IN
  IF n <= SMALLEST_STRING_BUFFER_LENGTH THEN SMALLEST_STRING_BUFFER_LENGTH
  ELSE 1 + spread[n - 1]

\* "written" is where the last write to the buffer ended.
NoString == [string_value |-> << >>, allocated |-> FALSE, string_length |-> 0, written |-> 0,
             string_buffer_length |-> 0, string_pos |-> 0, string_char_pos |-> 0, string_chars |-> 0]

Const(s) == [NoString EXCEPT !.string_value = Encode(s), !.string_length = Len(Encode(s)),
                             !.string_chars = Len(s)]

(* prep_string_buffer and extend_string_buffer: the latter keeps the       *)
(* bytes, and the callers of the former write all of them anew.  Their     *)
(* callers write as far as the length they ask for.                        *)
ExtendIfEmpty(v, length) ==
  [v EXCEPT !.string_length = length, !.written = length, !.allocated = TRUE,
            !.string_buffer_length = IF v.allocated THEN @ ELSE buffer_size(length)]
extend_string_buffer(v, length) ==
  [v EXCEPT !.string_length = length, !.written = length, !.allocated = TRUE,
            !.string_buffer_length =
              IF v.allocated /\ length <= v.string_buffer_length THEN @ ELSE buffer_size(length)]

-----------------------------------------------------------------------------
(* Operations on values *)

KeepPosition(v) == v
Rewound(v) == [v EXCEPT !.string_pos = 0, !.string_char_pos = 0]

set_const_string(v, from) ==
  Rewound([extend_string_buffer(v, from.string_length)
             EXCEPT !.string_value = from.string_value, !.string_chars = from.string_chars])

(* An empty string is copied as no buffer, whose length nobody looks at.   *)
copy_string_value(dest, source) ==
  LET new == IF source.string_length # 0 THEN extend_string_buffer(dest, source.string_length)
             ELSE [dest EXCEPT !.string_length = 0, !.written = 0, !.allocated = FALSE,
                               !.string_buffer_length = 0] IN
  [new EXCEPT !.string_value = source.string_value, !.string_chars = source.string_chars,
              !.string_pos = source.string_pos, !.string_char_pos = source.string_char_pos]

Gap(gap) == IF gap THEN <<32>> ELSE << >>

(* string_append, and string_sappend with a blank between.                 *)
string_append(v1, gap, v2) ==
  Rewound([extend_string_buffer(v1, v1.string_length + Len(Gap(gap)) + v2.string_length)
             EXCEPT !.string_value = @ \o Gap(gap) \o v2.string_value,
                    !.string_chars = @ + Len(Gap(gap)) + v2.string_chars])

(* If v2 is v1, its length is read when it is the new one already: what is *)
(* copied behind the string is the string, which memcpy finds untouched in *)
(* whatever order it goes, and as much again behind that.                  *)
string_append_itself(v, gap) ==
  LET length == 2 * v.string_length + Len(Gap(gap)) IN
  [string_append(v, gap, v) EXCEPT !.written = v.string_length + Len(Gap(gap)) + length]

(* string_concat, string_sconcat and their variants with a constant give   *)
(* v1 a new buffer.                                                        *)
string_concat(v1, v2, gap, v3) ==
  LET length == v2.string_length + Len(Gap(gap)) + v3.string_length IN
  Rewound([v1 EXCEPT !.string_value = v2.string_value \o Gap(gap) \o v3.string_value,
                     !.allocated = TRUE, !.string_length = length, !.written = length,
                     !.string_buffer_length = buffer_size(length),
                     !.string_chars = v2.string_chars + Len(Gap(gap)) + v3.string_chars])

string_concat_char(v1, c) ==
  LET char == utf8catcodepoint(c) IN
  [extend_string_buffer(v1, v1.string_length + Len(char))
     EXCEPT !.string_pos = v1.string_length, !.string_char_pos = v1.string_chars,
            !.string_value = @ \o char, !.string_chars = @ + 1]

(* One character on or back.                                               *)
Forward(v) ==
  [v EXCEPT !.string_pos = @ + utf8codepointcalcsize(At(v.string_value, @)), !.string_char_pos = @ + 1]
Backward(v) ==
  [v EXCEPT !.string_pos = @ - utf8rcodepointcalcsize(v.string_value, @), !.string_char_pos = @ - 1]
Repeat(Step(_), v, n) ==
  LET after[k \in 0 .. n] == IF k = 0 THEN v ELSE Step(after[k - 1]) IN after[n]

(* The last character, found from the end of the bytes.                    *)
AtEnd(v) ==
  [v EXCEPT !.string_pos = v.string_length - utf8rcodepointcalcsize(v.string_value, v.string_length),
            !.string_char_pos = v.string_chars - 1]

(* string_set_byte_pos takes the shortest of the ways from the position,   *)
(* from the start and from the end.                                        *)
string_set_byte_pos(v, new) ==
  LET diff == new - v.string_char_pos IN
  IF diff = 1 THEN Forward(v)
  ELSE IF diff = -1 THEN Backward(v)
  ELSE IF diff > 1
       THEN IF v.string_chars - 1 - new < diff
            THEN Repeat(Backward, AtEnd(v), v.string_chars - 1 - new)
            ELSE Repeat(Forward, v, diff)
  ELSE IF new <= -diff THEN Repeat(Forward, Rewound(v), new)
  ELSE Repeat(Backward, v, -diff)

CodePoint(v) == utf8codepoint(v.string_value, v.string_pos)

(* The bytes decide; the longer one of two strings that are equal so far   *)
(* is greater.  The comparison with zero binds before the assignment, so a *)
(* difference of the bytes counts as one, whatever its sign.               *)
Differ(b1, b2) == \E i \in 1 .. Min({Len(b1), Len(b2)}) : b1[i] # b2[i]
string_cmp(v1, v2) ==
  LET difference == v1.string_length - v2.string_length IN
  IF Differ(v1.string_value, v2.string_value) \/ difference > 0 THEN 1
  ELSE IF difference < 0 THEN -1 ELSE 0

-----------------------------------------------------------------------------
(* Instructions *)

Init == value = [r \in Value |-> NoString] /\ result = 0

Return(i) == result' = i
Move(r, v) == value' = [value EXCEPT ![r] = v]
Put(r, v) == Move(r, v) /\ Return(0)
Positions(r) == 0 .. value[r].string_chars - 1

LOAD(r) == \E s \in Literal : Put(r, set_const_string(value[r], Const(s)))
COPY(r) == \E s \in Value : Put(r, copy_string_value(value[r], value[s]))

APPEND(r) ==
  \E gap \in BOOLEAN :
    \/ \E s \in Value \ {r} : Put(r, string_append(value[r], gap, value[s]))
    \/ Put(r, string_append_itself(value[r], gap))
CONCAT(r) ==
  \E s \in Value, gap \in BOOLEAN :
    \/ \E t \in Value : Put(r, string_concat(value[r], value[s], gap, value[t]))
    \/ \E t \in Literal : \/ Put(r, string_concat(value[r], value[s], gap, Const(t)))
                         \/ Put(r, string_concat(value[r], Const(t), gap, value[s]))
APPENDCHAR(r) == \E c \in Character : Put(r, string_concat_char(value[r], c))

(* The position of the source is left at the character that is taken.      *)
CONCCHAR(r) ==
  \E s \in Value : \E p \in Positions(s) :
    LET v2 == string_set_byte_pos(value[s], p)
        placed == [value EXCEPT ![s] = v2] IN
    value' = [placed EXCEPT ![r] = string_concat_char(@, CodePoint(v2))] /\ Return(0)

(* A program asks for positions in the string only.                        *)
SETSTRPOS(r) ==
  \E p \in Positions(r) : Put(r, string_set_byte_pos(value[r], p))
STRCHAR(r) ==
  \E p \in Positions(r) :
    LET v == string_set_byte_pos(value[r], p) IN Move(r, v) /\ Return(CodePoint(v))
STRCHAR_HERE(r) == value[r].string_chars > 0 /\ Return(CodePoint(value[r])) /\ UNCHANGED value
STRLEN(r) == Return(value[r].string_chars) /\ UNCHANGED value
GETSTRPOS(r) == Return(value[r].string_char_pos) /\ UNCHANGED value

(* FNDBLNK and FNDNBLNK go from character to character, from p on.         *)
Visited(v, p, n) ==
  LET after[k \in 0 .. n] == IF k = 0 THEN v ELSE string_set_byte_pos(after[k - 1], p + k - 1) IN
  after[n]
Found(v, p, blank) ==
  {q \in p .. v.string_chars - 1 : (CodePoint(Visited(v, p, q - p + 1)) = 32) = blank}
FNDBLNK(r) ==
  \E blank \in BOOLEAN, p \in 0 .. value[r].string_chars :
    LET v == value[r]
        found == Found(v, p, blank) IN
    \/ \E q \in found :
         (\A h \in found : q <= h) /\ Move(r, Visited(v, p, q - p + 1)) /\ Return(q)
    \/ found = {} /\ Move(r, Visited(v, p, v.string_chars - p)) /\ Return(-v.string_chars)

SEQ(r) ==
  \E s \in Value :
    Return(IF string_cmp(value[r], value[s]) = 0 THEN 1 ELSE 0) /\ UNCHANGED value

Next ==
  /\ \E r \in Value :
       \/ LOAD(r) \/ COPY(r) \/ APPEND(r) \/ CONCAT(r) \/ APPENDCHAR(r) \/ CONCCHAR(r)
       \/ SETSTRPOS(r) \/ STRCHAR(r) \/ STRCHAR_HERE(r) \/ STRLEN(r) \/ GETSTRPOS(r)
       \/ FNDBLNK(r) \/ SEQ(r)
  /\ \A r \in Value : value'[r].string_chars <= MaxChars[r]

Spec == Init /\ [][Next]_vars

-----------------------------------------------------------------------------
(* Properties *)

Byte == {b \in Nat : b < 256}
StringPart ==
  [string_value : Seq(Byte), allocated : BOOLEAN, string_length : Nat, written : Nat,
   string_buffer_length : Nat, string_pos : Nat, string_char_pos : Nat, string_chars : Nat]

TypeOK == value \in [Value -> StringPart] /\ result \in Int

(* The characters a program sees in a value: those whose UTF-8 it holds.   *)
Texts == UNION {BoundedSeq(Character, MaxChars[r]) : r \in Value}
Encodings == {Encode(s) : s \in Texts}
TextOf == [bytes \in Encodings |-> CHOOSE s \in Texts : Encode(s) = bytes]
WellFormed(v) == v.string_value \in Encodings
Text(v) == IF WellFormed(v) THEN TextOf[v.string_value] ELSE << >>

(* A string has all of its bytes, and a buffer that they fit in: every     *)
(* memcpy of rxvmvars.h from it relies on both.                            *)
StringInBuffer ==
  \A r \in Value :
    /\ value[r].string_length = Len(value[r].string_value)
    /\ value[r].string_length > 0 => value[r].allocated
    /\ value[r].allocated => value[r].string_length <= value[r].string_buffer_length

(* buffer_size "returns required buffer size": nothing was written behind  *)
(* the end of a buffer.                                                    *)
Overrun(v) == v.written > v.string_buffer_length
BufferHolds == \A r \in Value : ~Overrun(value[r])

(* Only the append of a string to itself writes behind a buffer: whatever  *)
(* an instruction puts together from other strings and characters, also    *)
(* after an overrun, it asks for enough room first.                        *)
OverrunsOnlyItself ==
  [][\A r \in Value :
       Overrun(value'[r]) =>
         \/ /\ value'[r].written = value[r].written
            /\ value'[r].string_buffer_length = value[r].string_buffer_length
         \/ \E gap \in BOOLEAN : value'[r] = string_append_itself(value[r], gap)]_vars

(* A value holds string_chars characters in UTF-8.  Its byte position is   *)
(* that of the character at its character position, which is in the string *)
(* unless it is empty: string_set_byte_pos asserts that before it moves.   *)
CursorAtCharacter ==
  \A r \in Value :
    LET v == value[r] text == Text(v) IN
    /\ WellFormed(v) /\ v.string_chars = Len(text)
    /\ v.string_char_pos < v.string_chars \/ (v.string_chars = 0 /\ v.string_char_pos = 0)
    /\ v.string_pos = Len(Encode(SubSeq(text, 1, v.string_char_pos)))

(* The values of the interpreter are the strings and positions of          *)
(* StringSpec, and its instructions return what is asked for there.        *)
Strings == INSTANCE StringSpec WITH
  Blank <- 32,
  chars <- [r \in Value |-> Text(value[r])],
  cursor <- [r \in Value |-> value[r].string_char_pos]
StringsAsSpecified == Strings!Spec

=============================================================================
