-------------------------- MODULE StringValue_proofs --------------------------
(***************************************************************************)
(* Proofs about StringValue: for any strings, of any length, the byte      *)
(* position of a value is that of the character it is meant to be at, a    *)
(* string fits in its buffer, only an append of a string to itself writes  *)
(* behind one, and the instructions do what StringSpec says of characters. *)
(*                                                                         *)
(* The text s of a value is followed along.  The facts about one character *)
(* (div and mod) give those about a sequence of characters, those give     *)
(* that a position moves to the next or the last one, and those that a     *)
(* value is sound after each function of rxvmvars.h.                       *)
(***************************************************************************)
EXTENDS StringValue, SequenceTheorems, WellFoundedInduction, TLAPS

-----------------------------------------------------------------------------
(* The UTF-8 of one character *)

(* A character of UTF-8, as StringAssumption says of those of a program.   *)
Char == {c \in Nat : 0 < c /\ c < 1114112}

LEMMA Characters == Character \subseteq Char /\ 32 \in Character
  BY StringAssumption DEF Char

LEMMA LowBitsContinue ==
  ASSUME NEW n \in Nat
  PROVE  /\ LowBits(n) \in Byte /\ Continues(LowBits(n))
         /\ LowBits(n) % 64 = n % 64
  BY SMT DEF LowBits, Byte, Continues

(* The spellings of a character: its bytes, what the first one tells, that *)
(* the others are no first bytes, and how the character is found again.    *)
Spelt1(c, b0) ==
  /\ utf8catcodepoint(c) = <<b0>> /\ utf8codepointcalcsize(b0) = 1 /\ ~ Continues(b0)
  /\ b0 = c
Spelt2(c, b0, b1) ==
  /\ utf8catcodepoint(c) = <<b0, b1>> /\ utf8codepointcalcsize(b0) = 2 /\ ~ Continues(b0)
  /\ Continues(b1) /\ (b0 % 32) * 64 + (b1 % 64) = c
Spelt3(c, b0, b1, b2) ==
  /\ utf8catcodepoint(c) = <<b0, b1, b2>> /\ utf8codepointcalcsize(b0) = 3 /\ ~ Continues(b0)
  /\ Continues(b1) /\ Continues(b2) /\ (b0 % 16) * 4096 + (b1 % 64) * 64 + (b2 % 64) = c
Spelt4(c, b0, b1, b2, b3) ==
  /\ utf8catcodepoint(c) = <<b0, b1, b2, b3>> /\ utf8codepointcalcsize(b0) = 4 /\ ~ Continues(b0)
  /\ Continues(b1) /\ Continues(b2) /\ Continues(b3)
  /\ (b0 % 8) * 262144 + (b1 % 64) * 4096 + (b2 % 64) * 64 + (b3 % 64) = c

LEMMA SpeltInOne ==
  ASSUME NEW c \in Nat, c < 128
  PROVE  \E b0 \in Byte : Spelt1(c, b0)
<1>1. utf8catcodepoint(c) = <<c>>
  BY SMT DEF utf8catcodepoint
<1>2. c \in Byte
  BY SMT DEF Byte
<1>3. utf8codepointcalcsize(c) = 1 /\ ~ Continues(c)
  BY SMT DEF utf8codepointcalcsize, Continues
<1>. QED
  BY <1>1, <1>2, <1>3 DEF Spelt1

LEMMA SpeltInTwo ==
  ASSUME NEW c \in Nat, 128 <= c, c < 2048
  PROVE  \E b0 \in Byte, b1 \in Byte : Spelt2(c, b0, b1)
<1> DEFINE b0 == 192 + (c \div 64)
           b1 == LowBits(c)
<1>1. utf8catcodepoint(c) = <<b0, b1>>
  BY SMT DEF utf8catcodepoint
<1>2. b0 \in Byte /\ utf8codepointcalcsize(b0) = 2 /\ ~ Continues(b0)
  BY SMT DEF Byte, utf8codepointcalcsize, Continues
<1>3. b1 \in Byte /\ Continues(b1) /\ b1 % 64 = c % 64
  BY LowBitsContinue
<1>4. b0 % 32 = c \div 64
  BY SMT
<1> HIDE DEF b0, b1
<1>5. (b0 % 32) * 64 + (b1 % 64) = c
  BY SMT, <1>3, <1>4
<1>6. Spelt2(c, b0, b1)
  BY SMT, <1>1, <1>2, <1>3, <1>5 DEF Spelt2
<1>. QED
  BY <1>2, <1>3, <1>6

LEMMA SpeltInThree ==
  ASSUME NEW c \in Nat, 2048 <= c, c < 65536
  PROVE  \E b0 \in Byte, b1 \in Byte, b2 \in Byte : Spelt3(c, b0, b1, b2)
<1> DEFINE b0 == 224 + (c \div 4096)
           b1 == LowBits(c \div 64)
           b2 == LowBits(c)
<1>1. utf8catcodepoint(c) = <<b0, b1, b2>>
  BY SMT DEF utf8catcodepoint
<1>2. b0 \in Byte /\ utf8codepointcalcsize(b0) = 3 /\ ~ Continues(b0)
  BY SMT DEF Byte, utf8codepointcalcsize, Continues
<1>3. c \div 64 \in Nat
  BY SMT
<1>4. b1 \in Byte /\ Continues(b1) /\ b1 % 64 = (c \div 64) % 64
  BY SMT, <1>3, LowBitsContinue
<1>5. b2 \in Byte /\ Continues(b2) /\ b2 % 64 = c % 64
  BY LowBitsContinue
<1>6. b0 % 16 = c \div 4096
  BY SMT
<1> HIDE DEF b0, b1, b2
<1>7. (b0 % 16) * 4096 + (b1 % 64) * 64 + (b2 % 64) = c
  BY SMT, <1>4, <1>5, <1>6
<1>8. Spelt3(c, b0, b1, b2)
  BY SMT, <1>1, <1>2, <1>4, <1>5, <1>7 DEF Spelt3
<1>. QED
  BY SMT, <1>2, <1>4, <1>5, <1>8

LEMMA SpeltInFour ==
  ASSUME NEW c \in Nat, 65536 <= c, c < 1114112
  PROVE  \E b0 \in Byte, b1 \in Byte, b2 \in Byte, b3 \in Byte : Spelt4(c, b0, b1, b2, b3)
<1> DEFINE b0 == 240 + (c \div 262144)
           b1 == LowBits(c \div 4096)
           b2 == LowBits(c \div 64)
           b3 == LowBits(c)
<1>1. utf8catcodepoint(c) = <<b0, b1, b2, b3>>
  BY SMT DEF utf8catcodepoint
<1>2. b0 \in Byte /\ utf8codepointcalcsize(b0) = 4 /\ ~ Continues(b0)
  BY SMT DEF Byte, utf8codepointcalcsize, Continues
<1>3. c \div 64 \in Nat /\ c \div 4096 \in Nat
  BY SMT
<1>4. b1 \in Byte /\ Continues(b1) /\ b1 % 64 = (c \div 4096) % 64
  BY SMT, <1>3, LowBitsContinue
<1>5. b2 \in Byte /\ Continues(b2) /\ b2 % 64 = (c \div 64) % 64
  BY SMT, <1>3, LowBitsContinue
<1>6. b3 \in Byte /\ Continues(b3) /\ b3 % 64 = c % 64
  BY LowBitsContinue
<1>7. b0 % 8 = c \div 262144
  BY SMT
<1> HIDE DEF b0, b1, b2, b3
<1>8. (b0 % 8) * 262144 + (b1 % 64) * 4096 + (b2 % 64) * 64 + (b3 % 64) = c
  <2>1. c = (c \div 64) * 64 + (c % 64)
    BY SMT
  <2>2. c \div 64 = (c \div 4096) * 64 + ((c \div 64) % 64)
    BY SMT
  <2>3. c \div 4096 = (c \div 262144) * 64 + ((c \div 4096) % 64)
    BY SMT
  <2> DEFINE d1 == c \div 64
             d2 == c \div 4096
             d3 == c \div 262144
             m0 == c % 64
             m1 == (c \div 64) % 64
             m2 == (c \div 4096) % 64
  <2>4. d1 \in Nat /\ d2 \in Nat /\ d3 \in Nat /\ m0 \in Nat /\ m1 \in Nat /\ m2 \in Nat
    BY SMT
  <2>5. c = d1 * 64 + m0 /\ d1 = d2 * 64 + m1 /\ d2 = d3 * 64 + m2
    BY <2>1, <2>2, <2>3
  <2>6. b0 % 8 = d3 /\ b1 % 64 = m2 /\ b2 % 64 = m1 /\ b3 % 64 = m0
    BY <1>4, <1>5, <1>6, <1>7
  <2> HIDE DEF d1, d2, d3, m0, m1, m2
  <2>7. d3 * 262144 + m2 * 4096 + m1 * 64 + m0 = c
    BY SMT, <2>4, <2>5
  <2>. QED
    BY SMT, <2>6, <2>7
<1>9. Spelt4(c, b0, b1, b2, b3)
  BY SMT, <1>1, <1>2, <1>4, <1>5, <1>6, <1>8 DEF Spelt4
<1>. QED
  BY SMT, <1>2, <1>4, <1>5, <1>6, <1>9

LEMMA Spellings ==
  ASSUME NEW c \in Char
  PROVE  \/ \E b0 \in Byte : Spelt1(c, b0)
         \/ \E b0 \in Byte, b1 \in Byte : Spelt2(c, b0, b1)
         \/ \E b0 \in Byte, b1 \in Byte, b2 \in Byte : Spelt3(c, b0, b1, b2)
         \/ \E b0 \in Byte, b1 \in Byte, b2 \in Byte, b3 \in Byte : Spelt4(c, b0, b1, b2, b3)
<1>1. c \in Nat /\ c < 1114112
  BY SMT DEF Char
<1>2. CASE c < 128
  BY SMT, <1>1, <1>2, SpeltInOne
<1>3. CASE 128 <= c /\ c < 2048
  BY SMT, <1>1, <1>3, SpeltInTwo
<1>4. CASE 2048 <= c /\ c < 65536
  BY SMT, <1>1, <1>4, SpeltInThree
<1>5. CASE 65536 <= c
  BY SMT, <1>1, <1>5, SpeltInFour
<1>. QED
  BY SMT, <1>1, <1>2, <1>3, <1>4, <1>5

(* What a spelling says of the bytes that stand at an offset.              *)
LEMMA CharacterBytes ==
  ASSUME NEW c \in Char
  PROVE  /\ utf8catcodepoint(c) \in Seq(Byte)
         /\ Len(utf8catcodepoint(c)) \in Nat /\ 1 <= Len(utf8catcodepoint(c))
         /\ Len(utf8catcodepoint(c)) <= 4
<1>1. ASSUME NEW b0 \in Byte, Spelt1(c, b0)
      PROVE  /\ utf8catcodepoint(c) \in Seq(Byte)
             /\ Len(utf8catcodepoint(c)) \in Nat /\ 1 <= Len(utf8catcodepoint(c))
             /\ Len(utf8catcodepoint(c)) <= 4
  BY SMT, <1>1 DEF Spelt1
<1>2. ASSUME NEW b0 \in Byte, NEW b1 \in Byte, Spelt2(c, b0, b1)
      PROVE  /\ utf8catcodepoint(c) \in Seq(Byte)
             /\ Len(utf8catcodepoint(c)) \in Nat /\ 1 <= Len(utf8catcodepoint(c))
             /\ Len(utf8catcodepoint(c)) <= 4
  BY SMT, <1>2 DEF Spelt2
<1>3. ASSUME NEW b0 \in Byte, NEW b1 \in Byte, NEW b2 \in Byte, Spelt3(c, b0, b1, b2)
      PROVE  /\ utf8catcodepoint(c) \in Seq(Byte)
             /\ Len(utf8catcodepoint(c)) \in Nat /\ 1 <= Len(utf8catcodepoint(c))
             /\ Len(utf8catcodepoint(c)) <= 4
  BY SMT, <1>3 DEF Spelt3
<1>4. ASSUME NEW b0 \in Byte, NEW b1 \in Byte, NEW b2 \in Byte, NEW b3 \in Byte, Spelt4(c, b0, b1, b2, b3)
      PROVE  /\ utf8catcodepoint(c) \in Seq(Byte)
             /\ Len(utf8catcodepoint(c)) \in Nat /\ 1 <= Len(utf8catcodepoint(c))
             /\ Len(utf8catcodepoint(c)) <= 4
  BY SMT, <1>4 DEF Spelt4
<1>. QED
  BY <1>1, <1>2, <1>3, <1>4, Spellings

LEMMA LeadByte ==
  ASSUME NEW c \in Char
  PROVE  /\ ~ Continues(utf8catcodepoint(c)[1])
         /\ utf8codepointcalcsize(utf8catcodepoint(c)[1]) = Len(utf8catcodepoint(c))
<1>1. ASSUME NEW b0 \in Byte, Spelt1(c, b0)
      PROVE  /\ ~ Continues(utf8catcodepoint(c)[1])
             /\ utf8codepointcalcsize(utf8catcodepoint(c)[1]) = Len(utf8catcodepoint(c))
  BY SMT, <1>1 DEF Spelt1
<1>2. ASSUME NEW b0 \in Byte, NEW b1 \in Byte, Spelt2(c, b0, b1)
      PROVE  /\ ~ Continues(utf8catcodepoint(c)[1])
             /\ utf8codepointcalcsize(utf8catcodepoint(c)[1]) = Len(utf8catcodepoint(c))
  BY SMT, <1>2 DEF Spelt2
<1>3. ASSUME NEW b0 \in Byte, NEW b1 \in Byte, NEW b2 \in Byte, Spelt3(c, b0, b1, b2)
      PROVE  /\ ~ Continues(utf8catcodepoint(c)[1])
             /\ utf8codepointcalcsize(utf8catcodepoint(c)[1]) = Len(utf8catcodepoint(c))
  BY SMT, <1>3 DEF Spelt3
<1>4. ASSUME NEW b0 \in Byte, NEW b1 \in Byte, NEW b2 \in Byte, NEW b3 \in Byte, Spelt4(c, b0, b1, b2, b3)
      PROVE  /\ ~ Continues(utf8catcodepoint(c)[1])
             /\ utf8codepointcalcsize(utf8catcodepoint(c)[1]) = Len(utf8catcodepoint(c))
  BY SMT, <1>4 DEF Spelt4
<1>. QED
  BY <1>1, <1>2, <1>3, <1>4, Spellings

LEMMA OtherBytes ==
  ASSUME NEW c \in Char, NEW k \in Nat, 2 <= k, k <= Len(utf8catcodepoint(c))
  PROVE  Continues(utf8catcodepoint(c)[k])
<1>1. ASSUME NEW b0 \in Byte, Spelt1(c, b0)
      PROVE  Continues(utf8catcodepoint(c)[k])
  BY SMT, <1>1 DEF Spelt1
<1>2. ASSUME NEW b0 \in Byte, NEW b1 \in Byte, Spelt2(c, b0, b1)
      PROVE  Continues(utf8catcodepoint(c)[k])
  BY SMT, <1>2 DEF Spelt2
<1>3. ASSUME NEW b0 \in Byte, NEW b1 \in Byte, NEW b2 \in Byte, Spelt3(c, b0, b1, b2)
      PROVE  Continues(utf8catcodepoint(c)[k])
  BY SMT, <1>3 DEF Spelt3
<1>4. ASSUME NEW b0 \in Byte, NEW b1 \in Byte, NEW b2 \in Byte, NEW b3 \in Byte, Spelt4(c, b0, b1, b2, b3)
      PROVE  Continues(utf8catcodepoint(c)[k])
  BY SMT, <1>4 DEF Spelt4
<1>. QED
  BY <1>1, <1>2, <1>3, <1>4, Spellings

(* The bytes of c stand at the offset p.                                   *)
StandsAt(bytes, p, c) ==
  \A i \in Nat : i < Len(utf8catcodepoint(c)) => At(bytes, p + i) = utf8catcodepoint(c)[i + 1]

LEMMA Decoded ==
  ASSUME NEW c \in Char, NEW bytes, NEW p \in Nat, StandsAt(bytes, p, c)
  PROVE  /\ utf8codepointcalcsize(At(bytes, p)) = Len(utf8catcodepoint(c))
         /\ utf8codepoint(bytes, p) = c
<1>1. ASSUME NEW b0 \in Byte, Spelt1(c, b0)
      PROVE  /\ utf8codepointcalcsize(At(bytes, p)) = Len(utf8catcodepoint(c))
             /\ utf8codepoint(bytes, p) = c
  BY SMT, <1>1 DEF Spelt1, StandsAt, utf8codepoint, Byte
<1>2. ASSUME NEW b0 \in Byte, NEW b1 \in Byte, Spelt2(c, b0, b1)
      PROVE  /\ utf8codepointcalcsize(At(bytes, p)) = Len(utf8catcodepoint(c))
             /\ utf8codepoint(bytes, p) = c
  <2>1. /\ utf8catcodepoint(c) = <<b0, b1>> /\ utf8codepointcalcsize(b0) = 2
        /\ (b0 % 32) * 64 + (b1 % 64) = c
    BY SMT, <1>2 DEF Spelt2
  <2>2. Len(utf8catcodepoint(c)) = 2
    BY SMT, <2>1
  <2>3. At(bytes, p + 0) = b0 /\ At(bytes, p + 1) = b1
    BY SMT, <2>1, <2>2 DEF StandsAt
  <2>4. p + 0 = p
    BY SMT
  <2>5. utf8codepointcalcsize(At(bytes, p)) = 2
    BY <2>1, <2>3, <2>4
  <2>6. utf8codepoint(bytes, p) = c
    BY SMT, <2>1, <2>3, <2>4, <2>5 DEF utf8codepoint
  <2>. QED
    BY <2>2, <2>5, <2>6
<1>3. ASSUME NEW b0 \in Byte, NEW b1 \in Byte, NEW b2 \in Byte, Spelt3(c, b0, b1, b2)
      PROVE  /\ utf8codepointcalcsize(At(bytes, p)) = Len(utf8catcodepoint(c))
             /\ utf8codepoint(bytes, p) = c
  <2>1. /\ utf8catcodepoint(c) = <<b0, b1, b2>> /\ utf8codepointcalcsize(b0) = 3
        /\ (b0 % 16) * 4096 + (b1 % 64) * 64 + (b2 % 64) = c
    BY SMT, <1>3 DEF Spelt3
  <2>2. Len(utf8catcodepoint(c)) = 3
    BY SMT, <2>1
  <2>3. At(bytes, p + 0) = b0 /\ At(bytes, p + 1) = b1 /\ At(bytes, p + 2) = b2
    BY SMT, <2>1, <2>2 DEF StandsAt
  <2>4. p + 0 = p
    BY SMT
  <2>5. utf8codepointcalcsize(At(bytes, p)) = 3
    BY <2>1, <2>3, <2>4
  <2>6. utf8codepoint(bytes, p) = c
    BY SMT, <2>1, <2>3, <2>4, <2>5 DEF utf8codepoint
  <2>. QED
    BY <2>2, <2>5, <2>6
<1>4. ASSUME NEW b0 \in Byte, NEW b1 \in Byte, NEW b2 \in Byte, NEW b3 \in Byte, Spelt4(c, b0, b1, b2, b3)
      PROVE  /\ utf8codepointcalcsize(At(bytes, p)) = Len(utf8catcodepoint(c))
             /\ utf8codepoint(bytes, p) = c
  <2>1. /\ utf8catcodepoint(c) = <<b0, b1, b2, b3>> /\ utf8codepointcalcsize(b0) = 4
        /\ (b0 % 8) * 262144 + (b1 % 64) * 4096 + (b2 % 64) * 64 + (b3 % 64) = c
    BY SMT, <1>4 DEF Spelt4
  <2>2. Len(utf8catcodepoint(c)) = 4
    BY SMT, <2>1
  <2>3. At(bytes, p + 0) = b0 /\ At(bytes, p + 1) = b1 /\ At(bytes, p + 2) = b2 /\ At(bytes, p + 3) = b3
    BY SMT, <2>1, <2>2 DEF StandsAt
  <2>4. p + 0 = p
    BY SMT
  <2>5. utf8codepointcalcsize(At(bytes, p)) = 4
    BY <2>1, <2>3, <2>4
  <2>6. utf8codepoint(bytes, p) = c
    BY SMT, <2>1, <2>3, <2>4, <2>5 DEF utf8codepoint
  <2>. QED
    BY <2>2, <2>5, <2>6
<1>. QED
  BY <1>1, <1>2, <1>3, <1>4, Spellings

(* Back from behind a character to its first byte.                         *)
LEMMA SteppedBack ==
  ASSUME NEW c \in Char, NEW bytes, NEW p \in Nat, StandsAt(bytes, p, c)
  PROVE  utf8rcodepointcalcsize(bytes, p + Len(utf8catcodepoint(c))) = Len(utf8catcodepoint(c))
<1> DEFINE L == Len(utf8catcodepoint(c))
<1>1. L \in Nat /\ 1 <= L /\ L <= 4
  BY CharacterBytes
<1> HIDE DEF L
<1> DEFINE q == p + L
           Is(n) == ~ Continues(At(bytes, q - n)) /\ \A k \in 1 .. n - 1 : Continues(At(bytes, q - k))
<1>2. ASSUME NEW i \in Nat, i < L
      PROVE  At(bytes, p + i) = utf8catcodepoint(c)[i + 1]
  BY <1>2 DEF StandsAt, L
<1>3. ~ Continues(At(bytes, q - L))
  <2>1. q - L = p + 0 /\ 0 < L
    BY <1>1
  <2>2. At(bytes, p + 0) = utf8catcodepoint(c)[0 + 1]
    BY <1>2, <2>1
  <2>. QED
    BY <2>1, <2>2, LeadByte
<1>4. ASSUME NEW k \in 1 .. L - 1
      PROVE  Continues(At(bytes, q - k))
  <2>1. L - k \in Nat /\ L - k < L /\ q - k = p + (L - k) /\ 2 <= L - k + 1 /\ L - k + 1 <= L
        /\ L - k + 1 \in Nat
    BY <1>1
  <2>2. At(bytes, q - k) = utf8catcodepoint(c)[L - k + 1]
    BY <1>2, <2>1
  <2>3. Continues(utf8catcodepoint(c)[L - k + 1])
    BY <2>1, OtherBytes DEF L
  <2>. QED
    BY <2>2, <2>3
<1>5. L \in 1 .. 4 /\ Is(L)
  <2>1. L \in 1 .. 4
    BY <1>1
  <2>2. \A k \in 1 .. L - 1 : Continues(At(bytes, q - k))
    BY <1>4
  <2> HIDE DEF L, q
  <2>. QED
    BY <1>3, <2>1, <2>2
<1>6. ASSUME NEW n \in 1 .. 4, Is(n)
      PROVE  n = L
  <2>1. CASE n < L
    <3>1. n \in 1 .. L - 1
      BY <1>1, <2>1
    <3>. QED
      BY <1>4, <1>6, <3>1
  <2>2. CASE L < n
    <3>1. L \in 1 .. n - 1
      BY <1>1, <2>2
    <3>. QED
      BY <1>3, <1>6, <3>1
  <2>. QED
    BY <1>1, <2>1, <2>2
<1>7. utf8rcodepointcalcsize(bytes, q) = CHOOSE n \in 1 .. 4 : Is(n)
  BY DEF utf8rcodepointcalcsize
<1> HIDE DEF Is, q
<1>8. utf8rcodepointcalcsize(bytes, q) = L
  BY <1>5, <1>6, <1>7
<1>. QED
  BY <1>8 DEF q, L

-----------------------------------------------------------------------------
(* The UTF-8 of a sequence of characters.  A predicate over the numbers is *)
(* the set of those that satisfy it.                                       *)

LEMMA SetInduction ==
  ASSUME NEW T, 0 \in T, \A n \in T \cap Nat : n + 1 \in T
  PROVE  Nat \subseteq T
<1> SUFFICES ASSUME NEW m \in Nat, m \notin T PROVE FALSE
  OBVIOUS
<1> DEFINE U == Nat \ T
<1>1. IsWellFoundedOn(OpToRel(<, Nat), Nat)
  BY NatLessThanWellFounded
<1>2. U \subseteq Nat /\ U # {}
  OBVIOUS
<1>3. \E x \in U : \A y \in U : ~ (<<y, x>> \in OpToRel(<, Nat))
  BY <1>1, <1>2, WFMin
<1>4. PICK x \in U : \A y \in U : ~ (<<y, x>> \in OpToRel(<, Nat))
  BY <1>3
<1>5. \A y \in U : ~ (y < x)
  BY <1>2, <1>4 DEF OpToRel
<1>6. x - 1 \in Nat /\ x - 1 < x /\ (x - 1) + 1 = x
  OBVIOUS
<1>7. x - 1 \in T
  BY <1>5, <1>6
<1>. QED
  BY <1>6, <1>7

(* B has the bytes of the beginnings of s, up to m characters.             *)
Upto(B, s, m) ==
  /\ B \in [0 .. m -> Seq(Byte)]
  /\ B[0] = << >>
  /\ \A n \in 1 .. m : B[n] = B[n - 1] \o utf8catcodepoint(s[n])
Beginnings(B, s) == Upto(B, s, Len(s))

LEMMA BeginningsExist ==
  ASSUME NEW s \in Seq(Char)
  PROVE  \E B : Beginnings(B, s)
<1> DEFINE T == {m \in Nat : m <= Len(s) => \E B : Upto(B, s, m)}
<1>1. Len(s) \in Nat
  BY LenProperties
<1>2. 0 \in T
  <2>1. [k \in 0 .. 0 |-> << >>] \in [0 .. 0 -> Seq(Byte)]
    BY EmptySeq
  <2>2. Upto([k \in 0 .. 0 |-> << >>], s, 0)
    BY <2>1 DEF Upto
  <2>. QED
    BY <2>2
<1>3. ASSUME NEW m \in T \cap Nat
      PROVE  m + 1 \in T
  <2>1. SUFFICES ASSUME m + 1 <= Len(s) PROVE \E B : Upto(B, s, m + 1)
    OBVIOUS
  <2>2. PICK B : Upto(B, s, m)
    BY <1>1, <2>1
  <2> DEFINE b == B[m] \o utf8catcodepoint(s[m + 1])
             more == [k \in 0 .. m + 1 |-> IF k = m + 1 THEN b ELSE B[k]]
  <2>3. b \in Seq(Byte)
    <3>1. m + 1 \in 1 .. Len(s)
      BY <1>1, <2>1
    <3>2. s[m + 1] \in Char
      BY <3>1, ElementOfSeq
    <3>3. utf8catcodepoint(s[m + 1]) \in Seq(Byte)
      BY <3>2, CharacterBytes
    <3>4. B[m] \in Seq(Byte)
      BY <2>2 DEF Upto
    <3>. QED
      BY <3>3, <3>4, ConcatProperties
  <2>4. more \in [0 .. m + 1 -> Seq(Byte)]
    BY <2>2, <2>3 DEF Upto
  <2> HIDE DEF b
  <2>5. more[0] = << >> /\ more[m + 1] = b /\ \A k \in 0 .. m : more[k] = B[k]
    <3>1. B[0] = << >>
      BY <2>2 DEF Upto
    <3>2. 0 \in 0 .. m + 1 /\ m + 1 \in 0 .. m + 1 /\ \A k \in 0 .. m : k \in 0 .. m + 1 /\ k # m + 1
      OBVIOUS
    <3>. QED
      BY <3>1, <3>2
  <2> HIDE DEF more
  <2>6. ASSUME NEW n \in 1 .. m + 1
        PROVE  more[n] = more[n - 1] \o utf8catcodepoint(s[n])
    <3>1. n - 1 \in 0 .. m /\ more[n - 1] = B[n - 1]
      BY <2>5
    <3>2. CASE n = m + 1
      <4>1. n - 1 = m
        BY <3>2
      <4>. QED
        BY <2>5, <3>1, <3>2, <4>1 DEF b
    <3>3. CASE n # m + 1
      <4>1. n \in 1 .. m /\ n \in 0 .. m
        BY <3>3
      <4>. QED
        BY <2>2, <2>5, <3>1, <4>1 DEF Upto
    <3>. QED
      BY <3>2, <3>3
  <2>. QED
    BY <2>4, <2>5, <2>6 DEF Upto
<1> HIDE DEF T
<1>4. Len(s) \in T
  BY <1>1, <1>2, <1>3, SetInduction
<1>5. PICK B : Upto(B, s, Len(s))
  BY <1>1, <1>4 DEF T
<1>. QED
  BY <1>5 DEF Beginnings

(* The encoding is the last of them, the recursive function in Encode      *)
(* being the only one that goes on as they do.                             *)
LEMMA EncodeIsLast ==
  ASSUME NEW s \in Seq(Char), NEW B, Beginnings(B, s)
  PROVE  Encode(s) = B[Len(s)]
<1> DEFINE Goes(f) == f = [n \in 0 .. Len(s) |->
                            IF n = 0 THEN << >> ELSE f[n - 1] \o utf8catcodepoint(s[n])]
           E == CHOOSE f : Goes(f)
<1>1. Len(s) \in Nat
  BY LenProperties
<1>2. Encode(s) = E[Len(s)]
  BY DEF Encode
<1>3. Goes(B)
  <2> DEFINE F == [n \in 0 .. Len(s) |->
                     IF n = 0 THEN << >> ELSE B[n - 1] \o utf8catcodepoint(s[n])]
  <2>1. ASSUME NEW n \in 0 .. Len(s)
        PROVE  B[n] = F[n]
    <3>1. CASE n = 0
      BY <3>1 DEF Beginnings, Upto
    <3>2. CASE n # 0
      <4>1. n \in 1 .. Len(s)
        BY <1>1, <3>2
      <4>. QED
        BY <3>2, <4>1 DEF Beginnings, Upto
    <3>. QED
      BY <3>1, <3>2
  <2>2. B \in [0 .. Len(s) -> Seq(Byte)]
    BY DEF Beginnings, Upto
  <2>3. B = [n \in 0 .. Len(s) |-> B[n]]
    BY <2>2
  <2>4. B = F
    BY <2>1, <2>3
  <2>. QED
    BY <2>4
<1>4. Goes(E)
  <2> HIDE DEF Goes
  <2>. QED
    BY <1>3
<1>5. ASSUME NEW n \in 0 .. Len(s)
      PROVE  E[n] = IF n = 0 THEN << >> ELSE E[n - 1] \o utf8catcodepoint(s[n])
  BY <1>4
<1> HIDE DEF E, Goes
<1> DEFINE T == {n \in Nat : n <= Len(s) => E[n] = B[n]}
<1>6. 0 \in T
  <2>1. 0 \in 0 .. Len(s)
    BY <1>1
  <2>. QED
    BY <1>5, <2>1 DEF Beginnings, Upto
<1>7. ASSUME NEW n \in T \cap Nat
      PROVE  n + 1 \in T
  <2>1. SUFFICES ASSUME n + 1 <= Len(s) PROVE E[n + 1] = B[n + 1]
    OBVIOUS
  <2>2. n + 1 \in 0 .. Len(s) /\ n + 1 \in 1 .. Len(s) /\ n + 1 # 0 /\ (n + 1) - 1 = n
    BY <1>1, <2>1
  <2>3. E[n] = B[n]
    BY <1>1, <2>1
  <2>4. E[n + 1] = E[n] \o utf8catcodepoint(s[n + 1])
    BY <1>5, <2>2
  <2>5. B[n + 1] = B[n] \o utf8catcodepoint(s[n + 1])
    BY <2>2 DEF Beginnings, Upto
  <2>. QED
    BY <2>3, <2>4, <2>5
<1> HIDE DEF T
<1>8. Len(s) \in T
  BY <1>1, <1>6, <1>7, SetInduction
<1>. QED
  BY <1>1, <1>2, <1>8 DEF T

LEMMA EncodeBytes ==
  ASSUME NEW s \in Seq(Char)
  PROVE  Encode(s) \in Seq(Byte) /\ Len(Encode(s)) \in Nat
<1>1. PICK B : Beginnings(B, s)
  BY BeginningsExist
<1>2. Len(s) \in Nat /\ Len(s) \in 0 .. Len(s)
  <2>1. Len(s) \in Nat
    BY LenProperties
  <2>. QED
    BY <2>1
<1>3. Encode(s) \in Seq(Byte)
  BY <1>1, <1>2, EncodeIsLast DEF Beginnings, Upto
<1>. QED
  BY <1>3, LenProperties

LEMMA EncodeEmpty == Encode(<< >>) = << >> /\ << >> \in Seq(Char)
<1>1. << >> \in Seq(Char) /\ Len(<< >>) = 0
  BY EmptySeq
<1>2. PICK B : Beginnings(B, << >>)
  BY <1>1, BeginningsExist
<1>3. Encode(<< >>) = B[0]
  BY <1>1, <1>2, EncodeIsLast
<1>. QED
  BY <1>1, <1>2, <1>3 DEF Beginnings, Upto

(* The bytes of another character come last.                               *)
LEMMA EncodeAppend ==
  ASSUME NEW s \in Seq(Char), NEW c \in Char
  PROVE  Encode(Append(s, c)) = Encode(s) \o utf8catcodepoint(c)
<1> DEFINE t == Append(s, c)
           L == Len(s)
<1>1. L \in Nat
  BY LenProperties
<1>2. t \in Seq(Char) /\ Len(t) = L + 1 /\ (\A i \in 1 .. L : t[i] = s[i]) /\ t[L + 1] = c
  BY AppendProperties
<1> HIDE DEF t
<1>3. PICK B : Beginnings(B, t)
  BY <1>2, BeginningsExist
<1> DEFINE A == [n \in 0 .. L |-> B[n]]
<1>4. Beginnings(A, s)
  <2>1. \A n \in 0 .. L : n \in 0 .. Len(t)
    BY <1>1, <1>2
  <2>2. A \in [0 .. L -> Seq(Byte)]
    BY <1>3, <2>1 DEF Beginnings, Upto
  <2>3. A[0] = << >>
    BY <1>1, <1>3 DEF Beginnings, Upto
  <2>4. ASSUME NEW n \in 1 .. L
        PROVE  A[n] = A[n - 1] \o utf8catcodepoint(s[n])
    <3>1. n \in 1 .. Len(t) /\ n \in 0 .. L /\ n - 1 \in 0 .. L
      BY <1>1, <1>2
    <3>2. B[n] = B[n - 1] \o utf8catcodepoint(t[n])
      BY <1>3, <3>1 DEF Beginnings, Upto
    <3>. QED
      BY <1>2, <3>1, <3>2
  <2>. QED
    BY <2>2, <2>3, <2>4 DEF Beginnings, Upto
<1>5. Encode(s) = B[L]
  <2>1. Encode(s) = A[L] /\ L \in 0 .. L
    BY <1>1, <1>4, EncodeIsLast
  <2>. QED
    BY <2>1
<1>6. Encode(t) = B[L + 1]
  BY <1>2, <1>3, EncodeIsLast
<1>7. B[L + 1] = B[L] \o utf8catcodepoint(c)
  <2>1. L + 1 \in 1 .. Len(t) /\ (L + 1) - 1 = L
    BY <1>1, <1>2
  <2>. QED
    BY <1>2, <1>3, <2>1 DEF Beginnings, Upto
<1>. QED
  BY <1>5, <1>6, <1>7 DEF t

IsJoin(x, a, b) == x = a \o b

LEMMA Regrouped ==
  ASSUME NEW a \in Seq(Byte), NEW b \in Seq(Byte), NEW d \in Seq(Byte), NEW x, NEW y, NEW z,
         IsJoin(x, a, b), IsJoin(y, x, d), IsJoin(z, b, d)
  PROVE  IsJoin(y, a, z)
<1>1. (a \o b) \o d = a \o (b \o d)
  BY ConcatAssociative
<1>2. x = a \o b /\ y = x \o d /\ z = b \o d
  BY Zenon DEF IsJoin
<1>3. y = a \o z
  BY Zenon, <1>1, <1>2
<1>. QED
  BY <1>3 DEF IsJoin

LEMMA EncodeJoin ==
  ASSUME NEW s \in Seq(Char), NEW t \in Seq(Char)
  PROVE  Encode(s \o t) = Encode(s) \o Encode(t)
<1> DEFINE T == {n \in Nat : \A u \in Seq(Char) : Len(u) = n => Encode(s \o u) = Encode(s) \o Encode(u)}
<1>1. 0 \in T
  <2>1. SUFFICES ASSUME NEW u \in Seq(Char), Len(u) = 0 PROVE Encode(s \o u) = Encode(s) \o Encode(u)
    OBVIOUS
  <2>2. u = << >>
    BY <2>1, EmptySeq
  <2>3. s \o u = s
    BY <2>2, ConcatEmptySeq
  <2>4. Encode(u) = << >> /\ Encode(s) \o << >> = Encode(s)
    BY <2>2, EncodeEmpty, EncodeBytes, ConcatEmptySeq
  <2>. QED
    BY <2>3, <2>4
<1>2. ASSUME NEW n \in T \cap Nat
      PROVE  n + 1 \in T
  <2>1. SUFFICES ASSUME NEW w \in Seq(Char), Len(w) = n + 1 PROVE Encode(s \o w) = Encode(s) \o Encode(w)
    OBVIOUS
  <2>2. w # << >>
    BY <2>1, EmptySeq
  <2>3. PICK u \in Seq(Char), c \in Char : w = Append(u, c)
    BY <2>2, SequenceEmptyOrAppend
  <2>4. Len(u) = n
    <3>1. Len(w) = Len(u) + 1 /\ Len(u) \in Nat
      BY <2>3, AppendProperties, LenProperties
    <3>. QED
      BY <2>1, <3>1
  <2>5. Encode(s \o u) = Encode(s) \o Encode(u)
    BY <2>4
  <2>6. s \o w = Append(s \o u, c)
    <3>1. w = u \o <<c>> /\ <<c>> \in Seq(Char) /\ s \o u \in Seq(Char)
      BY <2>3, AppendIsConcat, ConcatProperties
    <3>2. s \o w = (s \o u) \o <<c>>
      BY <3>1, ConcatAssociative
    <3>. QED
      BY <3>1, <3>2, AppendIsConcat
  <2>7. s \o u \in Seq(Char)
    BY ConcatProperties
  <2>8. Encode(Append(s \o u, c)) = Encode(s \o u) \o utf8catcodepoint(c)
    BY <2>7, EncodeAppend
  <2>9. IsJoin(Encode(s \o w), Encode(s \o u), utf8catcodepoint(c))
    BY Zenon, <2>6, <2>8 DEF IsJoin
  <2>10. IsJoin(Encode(s \o u), Encode(s), Encode(u))
    BY Zenon, <2>5 DEF IsJoin
  <2>11. IsJoin(Encode(w), Encode(u), utf8catcodepoint(c))
    BY <2>3, EncodeAppend DEF IsJoin
  <2>12. Encode(s) \in Seq(Byte) /\ Encode(u) \in Seq(Byte) /\ utf8catcodepoint(c) \in Seq(Byte)
    BY EncodeBytes, CharacterBytes
  <2>13. IsJoin(Encode(s \o w), Encode(s), Encode(w))
    BY <2>9, <2>10, <2>11, <2>12, Regrouped
  <2>. QED
    BY Zenon, <2>13 DEF IsJoin
<1> HIDE DEF T
<1>3. Len(t) \in Nat
  BY LenProperties
<1>4. Len(t) \in T
  BY <1>1, <1>2, <1>3, SetInduction
<1>. QED
  BY <1>4 DEF T

(* Where the bytes of the character behind the first k begin.              *)
Offset(s, k) == Len(Encode(SubSeq(s, 1, k)))

LEMMA Beginning ==
  ASSUME NEW s \in Seq(Char), NEW k \in Nat, k <= Len(s)
  PROVE  /\ SubSeq(s, 1, k) \in Seq(Char) /\ Len(SubSeq(s, 1, k)) = k
         /\ \A i \in 1 .. k : SubSeq(s, 1, k)[i] = s[i]
         /\ Offset(s, k) \in Nat
<1>1. Len(s) \in Nat
  BY LenProperties
<1>2. \A i \in 1 .. k : s[i] \in Char
  <2>1. \A i \in 1 .. k : i \in 1 .. Len(s)
    BY <1>1
  <2>. QED
    BY <2>1, ElementOfSeq
<1>3. SubSeq(s, 1, k) \in Seq(Char)
  BY <1>2, SubSeqProperties
<1>4. Len(SubSeq(s, 1, k)) = k
  <2>1. Len(SubSeq(s, 1, k)) = IF 1 <= k THEN k - 1 + 1 ELSE 0
    BY <1>2, SubSeqProperties
  <2>. QED
    BY <2>1
<1>5. ASSUME NEW i \in 1 .. k
      PROVE  SubSeq(s, 1, k)[i] = s[i]
  <2>1. i \in 1 .. k - 1 + 1 /\ 1 + i - 1 = i
    OBVIOUS
  <2>2. SubSeq(s, 1, k)[i] = s[1 + i - 1]
    BY <1>2, <2>1, SubSeqProperties
  <2>. QED
    BY <2>1, <2>2
<1>6. Offset(s, k) \in Nat
  BY <1>3, EncodeBytes DEF Offset
<1>. QED
  BY <1>3, <1>4, <1>5, <1>6

LEMMA OffsetEnds ==
  ASSUME NEW s \in Seq(Char)
  PROVE  Offset(s, 0) = 0 /\ Offset(s, Len(s)) = Len(Encode(s))
<1>1. SubSeq(s, 1, 0) = << >>
  BY SubSeqEmpty
<1>2. SubSeq(s, 1, Len(s)) = s
  BY SubSeqFull
<1>3. Len(<< >>) = 0
  BY EmptySeq
<1>. QED
  BY <1>1, <1>2, <1>3, EncodeEmpty DEF Offset

LEMMA AtJoined ==
  ASSUME NEW a \in Seq(Byte), NEW b \in Seq(Byte), NEW d \in Seq(Byte), NEW i \in Nat, i < Len(b)
  PROVE  At((a \o b) \o d, Len(a) + i) = b[i + 1]
<1>1. Len(a) \in Nat /\ Len(b) \in Nat /\ Len(d) \in Nat
  BY LenProperties
<1>2. a \o b \in Seq(Byte) /\ Len(a \o b) = Len(a) + Len(b)
  BY ConcatProperties
<1>3. Len((a \o b) \o d) = Len(a) + Len(b) + Len(d)
  BY <1>2, ConcatProperties
<1>4. (a \o b)[Len(a) + i + 1] = b[i + 1]
  <2>1. Len(a) + i + 1 \in 1 .. Len(a) + Len(b) /\ ~ (Len(a) + i + 1 <= Len(a))
        /\ Len(a) + i + 1 - Len(a) = i + 1
    BY <1>1
  <2>2. (a \o b)[Len(a) + i + 1] = IF Len(a) + i + 1 <= Len(a) THEN a[Len(a) + i + 1]
                                   ELSE b[Len(a) + i + 1 - Len(a)]
    BY <2>1, ConcatProperties
  <2>. QED
    BY <2>1, <2>2
<1>5. ((a \o b) \o d)[Len(a) + i + 1] = (a \o b)[Len(a) + i + 1]
  <2>1. Len(a) + i + 1 \in 1 .. Len(a \o b) + Len(d) /\ Len(a) + i + 1 <= Len(a \o b)
    BY <1>1, <1>2
  <2>2. ((a \o b) \o d)[Len(a) + i + 1]
           = IF Len(a) + i + 1 <= Len(a \o b) THEN (a \o b)[Len(a) + i + 1]
             ELSE d[Len(a) + i + 1 - Len(a \o b)]
    BY <1>2, <2>1, ConcatProperties
  <2>. QED
    BY <2>1, <2>2
<1>6. Len(a) + i \in 0 .. Len((a \o b) \o d) - 1
  BY <1>1, <1>3
<1>. QED
  BY <1>4, <1>5, <1>6 DEF At

(* The character behind the first k stands at their offset, and the next   *)
(* one behind it.                                                          *)
LEMMA Place ==
  ASSUME NEW s \in Seq(Char), NEW k \in Nat, k < Len(s)
  PROVE  /\ s[k + 1] \in Char
         /\ StandsAt(Encode(s), Offset(s, k), s[k + 1])
         /\ Offset(s, k + 1) = Offset(s, k) + Len(utf8catcodepoint(s[k + 1]))
<1> DEFINE L == Len(s)
           h == SubSeq(s, 1, k)
           g == SubSeq(s, 1, k + 1)
           r == SubSeq(s, k + 2, L)
           c == s[k + 1]
<1>1. L \in Nat /\ k + 1 \in 1 .. L /\ 1 \in 1 .. L /\ k + 1 \in Nat /\ k + 1 <= L /\ k <= L
  <2>1. L \in Nat
    BY LenProperties
  <2>. QED
    BY <2>1
<1>2. c \in Char
  BY <1>1, ElementOfSeq
<1>3. h \in Seq(Char) /\ g \in Seq(Char)
  BY <1>1, Beginning
<1>4. g = Append(h, c)
  <2>1. g = SubSeq(s, 1, (k + 1) - 1) \o <<s[k + 1]>>
    BY <1>1, SubSeqRecursiveSecond
  <2>2. (k + 1) - 1 = k
    OBVIOUS
  <2>3. g = h \o <<c>>
    BY <2>1, <2>2
  <2>. QED
    BY <1>2, <1>3, <2>3, AppendIsConcat
<1>5. r \in Seq(Char)
  <2>1. \A i \in k + 2 .. L : i \in 1 .. L
    BY <1>1
  <2>2. \A i \in k + 2 .. L : s[i] \in Char
    BY <2>1, ElementOfSeq
  <2>3. k + 2 \in Int /\ L \in Int
    BY <1>1
  <2>. QED
    BY <2>2, <2>3, SubSeqProperties
<1>6. s = g \o r
  <2>1. 1 \in 1 .. L + 1 /\ k + 1 \in 1 - 1 .. L /\ L \in k + 1 .. L
    BY <1>1
  <2>2. SubSeq(s, 1, k + 1) \o SubSeq(s, (k + 1) + 1, L) = SubSeq(s, 1, L)
    BY <2>1, ConcatAdjacentSubSeq
  <2>3. (k + 1) + 1 = k + 2 /\ SubSeq(s, 1, L) = s
    BY SubSeqFull
  <2>. QED
    BY <2>2, <2>3
<1> HIDE DEF h, g, r, c
<1>7. Encode(g) = Encode(h) \o utf8catcodepoint(c)
  BY <1>2, <1>3, <1>4, EncodeAppend
<1>8. Encode(s) = (Encode(h) \o utf8catcodepoint(c)) \o Encode(r)
  BY <1>3, <1>5, <1>6, <1>7, EncodeJoin
<1>9. /\ Encode(h) \in Seq(Byte) /\ Encode(r) \in Seq(Byte) /\ utf8catcodepoint(c) \in Seq(Byte)
  BY <1>2, <1>3, <1>5, EncodeBytes, CharacterBytes
<1>10. Len(Encode(g)) = Len(Encode(h)) + Len(utf8catcodepoint(c))
  BY <1>7, <1>9, ConcatProperties
<1>11. StandsAt(Encode(s), Len(Encode(h)), c)
  <2>1. ASSUME NEW i \in Nat, i < Len(utf8catcodepoint(c))
        PROVE  At(Encode(s), Len(Encode(h)) + i) = utf8catcodepoint(c)[i + 1]
    BY <1>8, <1>9, <2>1, AtJoined
  <2>. QED
    BY <2>1 DEF StandsAt
<1>. QED
  BY <1>2, <1>10, <1>11 DEF Offset, h, g, c

(* The last character is found from the end.                               *)
LEMMA LastPlace ==
  ASSUME NEW s \in Seq(Char), NEW c \in Char
  PROVE  /\ Len(Encode(Append(s, c))) = Len(Encode(s)) + Len(utf8catcodepoint(c))
         /\ utf8rcodepointcalcsize(Encode(Append(s, c)), Len(Encode(Append(s, c))))
              = Len(utf8catcodepoint(c))
         /\ utf8codepoint(Encode(Append(s, c)), Len(Encode(s))) = c
<1> DEFINE t == Append(s, c)
           k == Len(s)
<1>1. k \in Nat
  BY LenProperties
<1>2. t \in Seq(Char) /\ Len(t) = k + 1 /\ (\A i \in 1 .. k : t[i] = s[i]) /\ t[k + 1] = c
  BY AppendProperties
<1> HIDE DEF t
<1>3. k < Len(t) /\ k <= Len(t) /\ k + 1 = Len(t)
  BY <1>1, <1>2
<1>4. SubSeq(t, 1, k) = s
  <2>1. /\ SubSeq(t, 1, k) \in Seq(Char) /\ Len(SubSeq(t, 1, k)) = k
        /\ \A i \in 1 .. k : SubSeq(t, 1, k)[i] = t[i]
    BY <1>1, <1>2, <1>3, Beginning
  <2>2. \A i \in 1 .. Len(SubSeq(t, 1, k)) : SubSeq(t, 1, k)[i] = s[i]
    BY <1>2, <2>1
  <2>. QED
    BY <2>1, <2>2, SeqEqual
<1>5. Offset(t, k) = Len(Encode(s)) /\ Offset(t, k + 1) = Len(Encode(t))
  BY <1>2, <1>3, <1>4, OffsetEnds DEF Offset
<1>6. /\ StandsAt(Encode(t), Len(Encode(s)), c)
      /\ Len(Encode(t)) = Len(Encode(s)) + Len(utf8catcodepoint(c))
  BY <1>1, <1>2, <1>3, <1>5, Place
<1>7. Len(Encode(s)) \in Nat
  BY EncodeBytes
<1>. QED
  BY <1>6, <1>7, SteppedBack, Decoded DEF t

LEMMA Cancelled ==
  ASSUME NEW a \in Seq(Byte), NEW b \in Seq(Byte), NEW d \in Seq(Byte), NEW x,
         IsJoin(x, a, d), IsJoin(x, b, d)
  PROVE  a = b
<1>1. \A S : \A u, w, v \in Seq(S) : u \o v = w \o v => u = w
  BY ConcatSimplifications
<1>2. a \o d = b \o d
  BY Zenon DEF IsJoin
<1>. QED
  BY Zenon, <1>1, <1>2

(* No two texts have the same bytes.                                       *)
LEMMA EncodeInjective ==
  ASSUME NEW s \in Seq(Char), NEW t \in Seq(Char), Encode(s) = Encode(t)
  PROVE  s = t
<1>1. ASSUME NEW u \in Seq(Char), Encode(u) = << >>
      PROVE  u = << >>
  <2>1. SUFFICES ASSUME u # << >> PROVE FALSE
    OBVIOUS
  <2>2. PICK x \in Seq(Char), c \in Char : u = Append(x, c)
    BY <2>1, SequenceEmptyOrAppend
  <2>3. /\ Len(Encode(u)) = Len(Encode(x)) + Len(utf8catcodepoint(c))
        /\ Len(Encode(x)) \in Nat /\ Len(utf8catcodepoint(c)) \in Nat
        /\ 1 <= Len(utf8catcodepoint(c))
    BY <2>2, LastPlace, EncodeBytes, CharacterBytes
  <2>4. Len(Encode(u)) = 0
    BY <1>1, EmptySeq
  <2>. QED
    BY <2>3, <2>4
<1> DEFINE T == {n \in Nat : \A u, w \in Seq(Char) : Len(u) = n /\ Encode(u) = Encode(w) => u = w}
<1>2. 0 \in T
  <2>1. SUFFICES ASSUME NEW u \in Seq(Char), NEW w \in Seq(Char), Len(u) = 0, Encode(u) = Encode(w)
                 PROVE  u = w
    OBVIOUS
  <2>2. u = << >>
    BY <2>1, EmptySeq
  <2>3. Encode(w) = << >>
    BY <2>1, <2>2, EncodeEmpty
  <2>. QED
    BY <1>1, <2>2, <2>3
<1>3. ASSUME NEW n \in T \cap Nat
      PROVE  n + 1 \in T
  <2>1. SUFFICES ASSUME NEW u \in Seq(Char), NEW w \in Seq(Char), Len(u) = n + 1, Encode(u) = Encode(w)
                 PROVE  u = w
    OBVIOUS
  <2>2. u # << >>
    BY <2>1, EmptySeq
  <2>3. w # << >>
    BY <1>1, <2>1, <2>2, EncodeEmpty
  <2>4. PICK x \in Seq(Char), c \in Char : u = Append(x, c)
    BY <2>2, SequenceEmptyOrAppend
  <2>5. PICK y \in Seq(Char), d \in Char : w = Append(y, d)
    BY <2>3, SequenceEmptyOrAppend
  <2>6. /\ Len(Encode(u)) = Len(Encode(x)) + Len(utf8catcodepoint(c))
        /\ utf8rcodepointcalcsize(Encode(u), Len(Encode(u))) = Len(utf8catcodepoint(c))
        /\ utf8codepoint(Encode(u), Len(Encode(x))) = c
    BY <2>4, LastPlace
  <2>7. /\ Len(Encode(w)) = Len(Encode(y)) + Len(utf8catcodepoint(d))
        /\ utf8rcodepointcalcsize(Encode(w), Len(Encode(w))) = Len(utf8catcodepoint(d))
        /\ utf8codepoint(Encode(w), Len(Encode(y))) = d
    BY <2>5, LastPlace
  <2>8. /\ Len(Encode(x)) \in Nat /\ Len(Encode(y)) \in Nat
        /\ Len(utf8catcodepoint(c)) \in Nat /\ Len(utf8catcodepoint(d)) \in Nat
    BY EncodeBytes, CharacterBytes
  <2>9. Len(Encode(x)) = Len(Encode(y))
    BY <2>1, <2>6, <2>7, <2>8
  <2>10. c = d
    BY <2>1, <2>6, <2>7, <2>9
  <2>11. IsJoin(Encode(u), Encode(x), utf8catcodepoint(c))
    BY <2>4, EncodeAppend DEF IsJoin
  <2>12. IsJoin(Encode(w), Encode(y), utf8catcodepoint(d))
    BY <2>5, EncodeAppend DEF IsJoin
  <2>13. Encode(x) \in Seq(Byte) /\ Encode(y) \in Seq(Byte) /\ utf8catcodepoint(c) \in Seq(Byte)
    BY EncodeBytes, CharacterBytes
  <2>14. Encode(x) = Encode(y)
    BY <2>1, <2>10, <2>11, <2>12, <2>13, Cancelled
  <2>15. Len(x) = n
    <3>1. Len(u) = Len(x) + 1 /\ Len(x) \in Nat
      BY <2>4, AppendProperties, LenProperties
    <3>. QED
      BY <2>1, <3>1
  <2>16. x = y
    BY <2>14, <2>15
  <2>. QED
    BY <2>4, <2>5, <2>10, <2>16
<1> HIDE DEF T
<1>4. Len(s) \in Nat
  BY LenProperties
<1>5. Len(s) \in T
  BY <1>2, <1>3, <1>4, SetInduction
<1>. QED
  BY <1>5 DEF T

-----------------------------------------------------------------------------
(* A buffer is as large as what it is to hold. *)

LastBit(x) == IF x % 256 = 0 THEN 0 ELSE 1

LEMMA Halved ==
  ASSUME NEW x \in Nat, x # 0
  PROVE  /\ x \div 2 \in Nat /\ x \div 2 < x /\ x <= 2 * (x \div 2) + LastBit(x)
         /\ LastBit(x) \in Nat
<1>1. x \div 2 \in Nat /\ x \div 2 < x
  BY SMT
<1>2. CASE x % 256 = 0
  <2>1. x = 2 * (x \div 2)
    BY SMT, <1>2
  <2>2. LastBit(x) = 0
    BY <1>2 DEF LastBit
  <2>. QED
    BY SMT, <1>1, <2>1, <2>2
<1>3. CASE x % 256 # 0
  <2>1. x <= 2 * (x \div 2) + 1
    BY SMT
  <2>2. LastBit(x) = 1
    BY <1>3 DEF LastBit
  <2>. QED
    BY SMT, <1>1, <2>1, <2>2
<1>. QED
  BY <1>2, <1>3

(* f gives the numbers up to m with their bits spread.                     *)
Spread(f, m) ==
  /\ f \in [0 .. m -> Nat]
  /\ f[0] = 0
  /\ \A x \in 1 .. m : f[x] = 2 * f[x \div 2] + LastBit(x)

LEMMA SpreadExists ==
  ASSUME NEW m \in Nat
  PROVE  \E f : Spread(f, m)
<1> DEFINE T == {n \in Nat : \E f : Spread(f, n)}
<1>1. 0 \in T
  <2>1. Spread([x \in 0 .. 0 |-> 0], 0)
    BY DEF Spread
  <2>. QED
    BY <2>1
<1>2. ASSUME NEW n \in T \cap Nat
      PROVE  n + 1 \in T
  <2>1. PICK f : Spread(f, n)
    OBVIOUS
  <2> DEFINE b == 2 * f[(n + 1) \div 2] + LastBit(n + 1)
             more == [x \in 0 .. n + 1 |-> IF x = n + 1 THEN b ELSE f[x]]
  <2>2. (n + 1) \div 2 \in 0 .. n /\ LastBit(n + 1) \in Nat
    BY Halved
  <2>3. f[(n + 1) \div 2] \in Nat
    BY <2>1, <2>2 DEF Spread
  <2>4. b \in Nat
    <3> DEFINE h == f[(n + 1) \div 2]
               l == LastBit(n + 1)
    <3>1. h \in Nat /\ l \in Nat
      BY <2>2, <2>3
    <3> HIDE DEF h, l
    <3>2. 2 * h + l \in Nat
      BY <3>1
    <3>. QED
      BY <3>2 DEF h, l
  <2> HIDE DEF b
  <2>5. \A x \in 0 .. n + 1 : x = n + 1 \/ x \in 0 .. n
    OBVIOUS
  <2>6. more \in [0 .. n + 1 -> Nat]
    BY <2>1, <2>4, <2>5 DEF Spread
  <2>7. more[n + 1] = b /\ \A x \in 0 .. n : more[x] = f[x]
    <3>1. n + 1 \in 0 .. n + 1 /\ \A x \in 0 .. n : x \in 0 .. n + 1 /\ x # n + 1
      OBVIOUS
    <3>. QED
      BY <3>1
  <2> HIDE DEF more
  <2>8. more[0] = 0
    <3>1. 0 \in 0 .. n
      OBVIOUS
    <3>. QED
      BY <2>1, <2>7, <3>1 DEF Spread
  <2>9. ASSUME NEW x \in 1 .. n + 1
        PROVE  more[x] = 2 * more[x \div 2] + LastBit(x)
    <3>1. x \div 2 \in 0 .. n
      <4>1. x \in Nat /\ x # 0
        OBVIOUS
      <4>2. x \div 2 \in Nat /\ x \div 2 < x
        BY <4>1, Halved
      <4>. QED
        BY <4>2
    <3>2. more[x \div 2] = f[x \div 2]
      BY <2>7, <3>1
    <3>3. CASE x = n + 1
      BY <2>7, <3>2, <3>3 DEF b
    <3>4. CASE x # n + 1
      <4>1. x \in 1 .. n /\ x \in 0 .. n
        BY <3>4
      <4>2. f[x] = 2 * f[x \div 2] + LastBit(x)
        BY <2>1, <4>1 DEF Spread
      <4>3. more[x] = f[x]
        BY <2>7, <4>1
      <4>. QED
        BY <3>2, <4>2, <4>3
    <3>. QED
      BY <3>3, <3>4
  <2>10. Spread(more, n + 1)
    BY <2>6, <2>8, <2>9 DEF Spread
  <2>. QED
    BY <2>10
<1> HIDE DEF T
<1>3. m \in T
  BY <1>1, <1>2, SetInduction
<1>. QED
  BY <1>3 DEF T

LEMMA SpreadGrows ==
  ASSUME NEW m \in Nat, NEW f, Spread(f, m), NEW x \in 0 .. m
  PROVE  f[x] \in Nat /\ x <= f[x]
<1> DEFINE T == {n \in Nat : \A y \in 0 .. n : y <= m => y <= f[y]}
<1>1. f \in [0 .. m -> Nat]
  BY DEF Spread
<1>2. 0 \in T
  <2>1. f[0] = 0
    BY DEF Spread
  <2>. QED
    BY <2>1
<1>3. ASSUME NEW n \in T \cap Nat
      PROVE  n + 1 \in T
  <2>1. SUFFICES ASSUME NEW y \in 0 .. n + 1, y <= m PROVE y <= f[y]
    OBVIOUS
  <2>2. CASE y \in 0 .. n
    BY <2>1, <2>2
  <2>3. CASE y = n + 1
    <3>1. y \in Nat /\ y # 0 /\ y \in 1 .. m
      BY <2>1, <2>3
    <3>2. /\ y \div 2 \in Nat /\ y \div 2 < y /\ y <= 2 * (y \div 2) + LastBit(y)
          /\ LastBit(y) \in Nat
      BY <3>1, Halved
    <3>3. f[y] = 2 * f[y \div 2] + LastBit(y)
      BY <3>1 DEF Spread
    <3> DEFINE h == y \div 2
               l == LastBit(y)
    <3>4. h \in 0 .. n /\ h <= m /\ h \in 0 .. m /\ l \in Nat /\ y <= 2 * h + l /\ f[y] = 2 * f[h] + l
      BY <2>3, <3>1, <3>2, <3>3
    <3> HIDE DEF h, l
    <3>5. h <= f[h] /\ f[h] \in Nat
      BY <1>1, <3>4
    <3>. QED
      BY <3>4, <3>5
  <2>. QED
    BY <2>2, <2>3
<1> HIDE DEF T
<1>4. x \in Nat /\ x \in 0 .. x /\ x <= m
  OBVIOUS
<1>5. x \in T
  BY <1>2, <1>3, <1>4, SetInduction
<1>. QED
  BY <1>1, <1>4, <1>5 DEF T

LEMMA BufferLarge ==
  ASSUME NEW n \in Nat
  PROVE  buffer_size(n) \in Nat /\ n <= buffer_size(n)
<1> DEFINE M == SMALLEST_STRING_BUFFER_LENGTH
           Goes(f) == f = [x \in 0 .. n - 1 |->
                             IF x = 0 THEN 0 ELSE 2 * f[x \div 2] + (IF x % 256 = 0 THEN 0 ELSE 1)]
           E == CHOOSE f : Goes(f)
<1>1. M \in Nat /\ 0 < M
  BY SMT, StringAssumption
<1>2. buffer_size(n) = IF n <= M THEN M ELSE 1 + E[n - 1]
  BY SMT DEF buffer_size
<1>3. CASE n <= M
  BY <1>1, <1>2, <1>3
<1>4. CASE ~ (n <= M)
  <2>1. n - 1 \in Nat
    BY <1>1, <1>4
  <2>2. PICK f : Spread(f, n - 1)
    BY <2>1, SpreadExists
  <2>3. Goes(f)
    <3> DEFINE F == [x \in 0 .. n - 1 |->
                       IF x = 0 THEN 0 ELSE 2 * f[x \div 2] + (IF x % 256 = 0 THEN 0 ELSE 1)]
    <3>1. f = [x \in 0 .. n - 1 |-> f[x]]
      BY <2>2 DEF Spread
    <3>2. ASSUME NEW x \in 0 .. n - 1
          PROVE  f[x] = F[x]
      <4>1. CASE x = 0
        BY <2>2, <4>1 DEF Spread
      <4>2. CASE x # 0
        <5>1. x \in 1 .. n - 1
          BY <2>1, <4>2
        <5>2. f[x] = 2 * f[x \div 2] + LastBit(x)
          BY <2>2, <5>1 DEF Spread
        <5>. QED
          BY <4>2, <5>2 DEF LastBit
      <4>. QED
        BY <4>1, <4>2
    <3>3. f = F
      BY <3>1, <3>2
    <3>. QED
      BY <3>3
  <2>4. Goes(E)
    <3> HIDE DEF Goes
    <3>. QED
      BY <2>3
  <2>5. ASSUME NEW x \in 0 .. n - 1
        PROVE  E[x] = IF x = 0 THEN 0 ELSE 2 * E[x \div 2] + LastBit(x)
    BY <2>4 DEF LastBit
  <2> HIDE DEF E, Goes
  <2>6. \A x \in 0 .. n - 1 : E[x] = f[x]
    <3> DEFINE T == {k \in Nat : \A y \in 0 .. k : y <= n - 1 => E[y] = f[y]}
    <3>1. 0 \in T
      <4>1. 0 \in 0 .. n - 1
        BY <2>1
      <4>2. E[0] = 0 /\ f[0] = 0
        BY <2>2, <2>5, <4>1 DEF Spread
      <4>. QED
        BY <4>2
    <3>2. ASSUME NEW k \in T \cap Nat
          PROVE  k + 1 \in T
      <4>1. SUFFICES ASSUME NEW y \in 0 .. k + 1, y <= n - 1 PROVE E[y] = f[y]
        OBVIOUS
      <4>2. CASE y \in 0 .. k
        BY <4>1, <4>2
      <4>3. CASE y = k + 1
        <5>1. y \in Nat /\ y # 0 /\ y \in 1 .. n - 1 /\ y \in 0 .. n - 1
          BY <2>1, <4>1, <4>3
        <5>2. y \div 2 \in 0 .. k /\ y \div 2 <= n - 1
          <6>1. y \div 2 \in Nat /\ y \div 2 < y
            BY <5>1, Halved
          <6>. QED
            BY <2>1, <4>1, <4>3, <6>1
        <5>3. E[y \div 2] = f[y \div 2]
          BY <5>2
        <5>4. f[y] = 2 * f[y \div 2] + LastBit(y)
          BY <2>2, <5>1 DEF Spread
        <5>5. E[y] = 2 * E[y \div 2] + LastBit(y)
          BY <2>5, <5>1
        <5>. QED
          BY <5>3, <5>4, <5>5
      <4>. QED
        BY <4>2, <4>3
    <3> HIDE DEF T
    <3>3. ASSUME NEW x \in 0 .. n - 1
          PROVE  E[x] = f[x]
      <4>1. x \in Nat /\ x \in 0 .. x /\ x <= n - 1
        BY <2>1
      <4>2. x \in T
        BY <3>1, <3>2, <4>1, SetInduction
      <4>. QED
        BY <4>1, <4>2 DEF T
    <3>. QED
      BY <3>3
  <2>7. n - 1 \in 0 .. n - 1
    BY <2>1
  <2>8. f[n - 1] \in Nat /\ n - 1 <= f[n - 1]
    BY <2>1, <2>2, <2>7, SpreadGrows
  <2>9. buffer_size(n) = 1 + f[n - 1]
    BY <1>2, <1>4, <2>6, <2>7
  <2>. QED
    BY <2>1, <2>8, <2>9
<1>. QED
  BY <1>3, <1>4

-----------------------------------------------------------------------------
(* Moving the position *)

(* v with its position at the character behind the first k.                *)
Placed(v, s, k) == [v EXCEPT !.string_pos = Offset(s, k), !.string_char_pos = k]

LEMMA PlacedParts ==
  ASSUME NEW v \in StringPart, NEW s, NEW k
  PROVE  /\ Placed(v, s, k).string_value = v.string_value
         /\ Placed(v, s, k).allocated = v.allocated
         /\ Placed(v, s, k).string_length = v.string_length
         /\ Placed(v, s, k).written = v.written
         /\ Placed(v, s, k).string_buffer_length = v.string_buffer_length
         /\ Placed(v, s, k).string_pos = Offset(s, k)
         /\ Placed(v, s, k).string_char_pos = k
         /\ Placed(v, s, k).string_chars = v.string_chars
  BY DEF StringPart, Placed

LEMMA PlacedType ==
  ASSUME NEW v \in StringPart, NEW s, NEW k \in Nat, Offset(s, k) \in Nat
  PROVE  Placed(v, s, k) \in StringPart
  BY DEF StringPart, Placed

LEMMA PlacedAgain ==
  ASSUME NEW v \in StringPart, NEW s, NEW j, NEW k
  PROVE  Placed(Placed(v, s, j), s, k) = Placed(v, s, k)
  BY DEF StringPart, Placed

LEMMA PlacedThere ==
  ASSUME NEW v \in StringPart, NEW s, v.string_pos = Offset(s, v.string_char_pos)
  PROVE  Placed(v, s, v.string_char_pos) = v
  BY DEF StringPart, Placed

LEMMA ForwardMoves ==
  ASSUME NEW s \in Seq(Char), NEW v \in StringPart, v.string_value = Encode(s),
         NEW k \in Nat, k < Len(s)
  PROVE  Forward(Placed(v, s, k)) = Placed(v, s, k + 1)
<1> DEFINE w == Placed(v, s, k)
           c == s[k + 1]
<1>1. /\ c \in Char /\ StandsAt(Encode(s), Offset(s, k), c)
      /\ Offset(s, k + 1) = Offset(s, k) + Len(utf8catcodepoint(c))
  BY Place
<1>2. Offset(s, k) \in Nat
  <2>1. k <= Len(s)
    <3>1. Len(s) \in Nat
      BY LenProperties
    <3>. QED
      BY <3>1
  <2>. QED
    BY <2>1, Beginning
<1>3. utf8codepointcalcsize(At(Encode(s), Offset(s, k))) = Len(utf8catcodepoint(c))
  BY <1>1, <1>2, Decoded
<1>4. w.string_value = Encode(s) /\ w.string_pos = Offset(s, k) /\ w.string_char_pos = k
  BY PlacedParts
<1>5. w.string_pos + utf8codepointcalcsize(At(w.string_value, w.string_pos)) = Offset(s, k + 1)
  BY <1>1, <1>3, <1>4
<1>w. w \in StringPart
  BY <1>2, PlacedType
<1> HIDE DEF w
<1>6. Forward(w) = [w EXCEPT !.string_pos = Offset(s, k + 1), !.string_char_pos = k + 1]
  <2>1. Forward(w) = [w EXCEPT !.string_pos = w.string_pos
                                 + utf8codepointcalcsize(At(w.string_value, w.string_pos)),
                               !.string_char_pos = w.string_char_pos + 1]
    BY <1>w DEF Forward, StringPart
  <2>. QED
    BY Zenon, <1>4, <1>5, <2>1
<1>7. [w EXCEPT !.string_pos = Offset(s, k + 1), !.string_char_pos = k + 1] = Placed(v, s, k + 1)
  BY DEF Placed, StringPart, w
<1>. QED
  BY Zenon, <1>6, <1>7 DEF w

LEMMA BackwardMoves ==
  ASSUME NEW s \in Seq(Char), NEW v \in StringPart, v.string_value = Encode(s),
         NEW k \in Nat, k < Len(s)
  PROVE  Backward(Placed(v, s, k + 1)) = Placed(v, s, k)
<1> DEFINE w == Placed(v, s, k + 1)
           c == s[k + 1]
<1>1. /\ c \in Char /\ StandsAt(Encode(s), Offset(s, k), c)
      /\ Offset(s, k + 1) = Offset(s, k) + Len(utf8catcodepoint(c))
  BY Place
<1>2. Offset(s, k) \in Nat
  <2>1. k <= Len(s)
    <3>1. Len(s) \in Nat
      BY LenProperties
    <3>. QED
      BY <3>1
  <2>. QED
    BY <2>1, Beginning
<1>3. utf8rcodepointcalcsize(Encode(s), Offset(s, k + 1)) = Len(utf8catcodepoint(c))
  BY <1>1, <1>2, SteppedBack
<1>4. w.string_value = Encode(s) /\ w.string_pos = Offset(s, k + 1) /\ w.string_char_pos = k + 1
  BY PlacedParts
<1>5. w.string_pos - utf8rcodepointcalcsize(w.string_value, w.string_pos) = Offset(s, k)
  <2>1. Len(utf8catcodepoint(c)) \in Nat
    BY <1>1, CharacterBytes
  <2>. QED
    BY <1>1, <1>2, <1>3, <1>4, <2>1
<1>6. w.string_char_pos - 1 = k
  BY <1>4
<1>w. w \in StringPart
  <2>1. Len(utf8catcodepoint(c)) \in Nat
    BY <1>1, CharacterBytes
  <2>2. Offset(s, k + 1) \in Nat /\ k + 1 \in Nat
    BY <1>1, <1>2, <2>1
  <2>. QED
    BY <2>2, PlacedType
<1> HIDE DEF w
<1>7. Backward(w) = [w EXCEPT !.string_pos = Offset(s, k), !.string_char_pos = k]
  <2>1. Backward(w) = [w EXCEPT !.string_pos = w.string_pos
                                  - utf8rcodepointcalcsize(w.string_value, w.string_pos),
                                !.string_char_pos = w.string_char_pos - 1]
    BY <1>w DEF Backward, StringPart
  <2>. QED
    BY Zenon, <1>5, <1>6, <2>1
<1>8. [w EXCEPT !.string_pos = Offset(s, k), !.string_char_pos = k] = Placed(v, s, k)
  BY DEF Placed, StringPart, w
<1>. QED
  BY Zenon, <1>7, <1>8 DEF w

(* The walk from k on is the only one that takes n such steps.             *)
LEMMA ForwardRepeated ==
  ASSUME NEW s \in Seq(Char), NEW v \in StringPart, v.string_value = Encode(s),
         NEW k \in Nat, NEW n \in Nat, k + n <= Len(s)
  PROVE  Repeat(Forward, Placed(v, s, k), n) = Placed(v, s, k + n)
<1> DEFINE u == Placed(v, s, k)
           Goes(f) == f = [j \in 0 .. n |-> IF j = 0 THEN u ELSE Forward(f[j - 1])]
           E == CHOOSE f : Goes(f)
           W == [j \in 0 .. n |-> Placed(v, s, k + j)]
<1>1. Len(s) \in Nat
  BY LenProperties
<1>2. Repeat(Forward, u, n) = E[n]
  BY DEF Repeat
<1> HIDE DEF u
<1>3. ASSUME NEW j \in Nat, j < n
      PROVE  Forward(Placed(v, s, k + j)) = Placed(v, s, k + (j + 1))
  <2>1. k + j \in Nat /\ k + j < Len(s) /\ k + j + 1 = k + (j + 1)
    BY <1>1, <1>3
  <2>. QED
    BY <2>1, ForwardMoves
<1>4. Goes(W)
  <2>1. ASSUME NEW j \in 0 .. n
        PROVE  Placed(v, s, k + j) = IF j = 0 THEN u ELSE Forward(W[j - 1])
    <3>1. CASE j = 0
      <4>1. k + j = k
        BY <3>1
      <4>. QED
        BY <3>1, <4>1 DEF u
    <3>2. CASE j # 0
      <4>1. j - 1 \in Nat /\ j - 1 < n /\ j - 1 \in 0 .. n /\ (j - 1) + 1 = j
        BY <3>2
      <4>2. Forward(Placed(v, s, k + (j - 1))) = Placed(v, s, k + ((j - 1) + 1))
        BY <1>3, <4>1
      <4>3. W[j - 1] = Placed(v, s, k + (j - 1))
        BY <4>1
      <4>. QED
        BY Zenon, <3>2, <4>1, <4>2, <4>3
    <3>. QED
      BY <3>1, <3>2
  <2>. QED
    BY <2>1
<1>5. Goes(E)
  <2> HIDE DEF Goes
  <2>. QED
    BY <1>4
<1>6. ASSUME NEW j \in 0 .. n
      PROVE  E[j] = IF j = 0 THEN u ELSE Forward(E[j - 1])
  BY <1>5
<1> HIDE DEF E, W, Goes
<1> DEFINE T == {j \in Nat : j <= n => E[j] = Placed(v, s, k + j)}
<1>7. 0 \in T
  <2>1. 0 \in 0 .. n /\ k + 0 = k
    OBVIOUS
  <2>2. E[0] = u
    BY <1>6, <2>1
  <2>. QED
    BY <2>1, <2>2 DEF u
<1>8. ASSUME NEW j \in T \cap Nat
      PROVE  j + 1 \in T
  <2>1. SUFFICES ASSUME j + 1 <= n PROVE E[j + 1] = Placed(v, s, k + (j + 1))
    OBVIOUS
  <2>2. j + 1 \in 0 .. n /\ j + 1 # 0 /\ (j + 1) - 1 = j /\ j < n /\ j <= n
    BY <2>1
  <2>3. E[j + 1] = Forward(E[j])
    BY <1>6, <2>2
  <2>4. E[j] = Placed(v, s, k + j)
    BY <2>2
  <2>. QED
    BY <1>3, <2>2, <2>3, <2>4
<1> HIDE DEF T
<1>9. n \in T
  BY <1>7, <1>8, SetInduction
<1>. QED
  BY <1>2, <1>9 DEF T, u

LEMMA BackwardRepeated ==
  ASSUME NEW s \in Seq(Char), NEW v \in StringPart, v.string_value = Encode(s),
         NEW k \in Nat, k <= Len(s), NEW n \in Nat, n <= k
  PROVE  Repeat(Backward, Placed(v, s, k), n) = Placed(v, s, k - n)
<1> DEFINE u == Placed(v, s, k)
           Goes(f) == f = [j \in 0 .. n |-> IF j = 0 THEN u ELSE Backward(f[j - 1])]
           E == CHOOSE f : Goes(f)
           W == [j \in 0 .. n |-> Placed(v, s, k - j)]
<1>1. Len(s) \in Nat
  BY LenProperties
<1>2. Repeat(Backward, u, n) = E[n]
  BY DEF Repeat
<1> HIDE DEF u
<1>3. ASSUME NEW j \in Nat, j < n
      PROVE  Backward(Placed(v, s, k - j)) = Placed(v, s, k - (j + 1))
  <2>1. k - (j + 1) \in Nat /\ k - (j + 1) < Len(s) /\ (k - (j + 1)) + 1 = k - j
    BY <1>1, <1>3
  <2>2. Backward(Placed(v, s, (k - (j + 1)) + 1)) = Placed(v, s, k - (j + 1))
    BY <2>1, BackwardMoves
  <2>. QED
    BY Zenon, <2>1, <2>2
<1>4. Goes(W)
  <2>1. ASSUME NEW j \in 0 .. n
        PROVE  Placed(v, s, k - j) = IF j = 0 THEN u ELSE Backward(W[j - 1])
    <3>1. CASE j = 0
      <4>1. k - j = k
        BY <3>1
      <4>. QED
        BY <3>1, <4>1 DEF u
    <3>2. CASE j # 0
      <4>1. j - 1 \in Nat /\ j - 1 < n /\ j - 1 \in 0 .. n /\ (j - 1) + 1 = j
        BY <3>2
      <4>2. Backward(Placed(v, s, k - (j - 1))) = Placed(v, s, k - ((j - 1) + 1))
        BY <1>3, <4>1
      <4>3. W[j - 1] = Placed(v, s, k - (j - 1))
        BY <4>1
      <4>. QED
        BY Zenon, <3>2, <4>1, <4>2, <4>3
    <3>. QED
      BY <3>1, <3>2
  <2>. QED
    BY <2>1
<1>5. Goes(E)
  <2> HIDE DEF Goes
  <2>. QED
    BY <1>4
<1>6. ASSUME NEW j \in 0 .. n
      PROVE  E[j] = IF j = 0 THEN u ELSE Backward(E[j - 1])
  BY <1>5
<1> HIDE DEF E, W, Goes
<1> DEFINE T == {j \in Nat : j <= n => E[j] = Placed(v, s, k - j)}
<1>7. 0 \in T
  <2>1. 0 \in 0 .. n /\ k - 0 = k
    OBVIOUS
  <2>2. E[0] = u
    BY <1>6, <2>1
  <2>. QED
    BY <2>1, <2>2 DEF u
<1>8. ASSUME NEW j \in T \cap Nat
      PROVE  j + 1 \in T
  <2>1. SUFFICES ASSUME j + 1 <= n PROVE E[j + 1] = Placed(v, s, k - (j + 1))
    OBVIOUS
  <2>2. j + 1 \in 0 .. n /\ j + 1 # 0 /\ (j + 1) - 1 = j /\ j < n /\ j <= n
    BY <2>1
  <2>3. E[j + 1] = Backward(E[j])
    BY <1>6, <2>2
  <2>4. E[j] = Placed(v, s, k - j)
    BY <2>2
  <2>. QED
    BY <1>3, <2>2, <2>3, <2>4
<1> HIDE DEF T
<1>9. n \in T
  BY <1>7, <1>8, SetInduction
<1>. QED
  BY <1>2, <1>9 DEF T, u

-----------------------------------------------------------------------------
(* A sound value: its buffer holds the text s, and its position is that of *)
(* a character of s.                                                       *)

Within(k, s) == k < Len(s) \/ (Len(s) = 0 /\ k = 0)
BufferSound(v) ==
  /\ v.string_length > 0 => v.allocated
  /\ v.allocated => v.string_length <= v.string_buffer_length
Sound(v, s) ==
  /\ v \in StringPart
  /\ s \in Seq(Character)
  /\ v.string_value = Encode(s) /\ v.string_length = Len(Encode(s)) /\ v.string_chars = Len(s)
  /\ v.string_pos = Offset(s, v.string_char_pos)
  /\ Within(v.string_char_pos, s)
  /\ BufferSound(v)

LEMMA SoundParts ==
  ASSUME NEW v, NEW s, Sound(v, s)
  PROVE  /\ v \in StringPart /\ s \in Seq(Character) /\ s \in Seq(Char)
         /\ v.string_value = Encode(s) /\ v.string_length = Len(Encode(s)) /\ v.string_chars = Len(s)
         /\ v.string_pos = Offset(s, v.string_char_pos)
         /\ v.string_char_pos \in Nat /\ Len(s) \in Nat
         /\ v.string_char_pos <= Len(s)
         /\ (Len(s) > 0 => v.string_char_pos < Len(s)) /\ (Len(s) = 0 => v.string_char_pos = 0)
         /\ BufferSound(v)
<1>1. /\ v \in StringPart /\ s \in Seq(Character)
      /\ v.string_value = Encode(s) /\ v.string_length = Len(Encode(s)) /\ v.string_chars = Len(s)
      /\ v.string_pos = Offset(s, v.string_char_pos)
      /\ Within(v.string_char_pos, s) /\ BufferSound(v)
  BY DEF Sound
<1>2. s \in Seq(Char)
  BY <1>1, Characters, SeqMonotonic
<1>3. v.string_char_pos \in Nat
  BY <1>1 DEF StringPart
<1>4. Len(s) \in Nat
  BY <1>1, LenProperties
<1>5. /\ v.string_char_pos <= Len(s)
      /\ (Len(s) > 0 => v.string_char_pos < Len(s)) /\ (Len(s) = 0 => v.string_char_pos = 0)
  BY <1>1, <1>3, <1>4 DEF Within
<1>. QED
  BY <1>1, <1>2, <1>3, <1>4, <1>5

LEMMA SoundPlaced ==
  ASSUME NEW v, NEW s, Sound(v, s), NEW k \in Nat, k < Len(s)
  PROVE  Sound(Placed(v, s, k), s)
<1>1. k <= Len(s)
  BY SoundParts
<1>2. Offset(s, k) \in Nat
  BY <1>1, SoundParts, Beginning
<1>3. Placed(v, s, k) \in StringPart
  BY <1>2, SoundParts, PlacedType
<1>4. v \in StringPart
  BY SoundParts
<1>5. BufferSound(Placed(v, s, k))
  BY <1>4, SoundParts, PlacedParts DEF BufferSound
<1>6. Within(k, s)
  BY DEF Within
<1>. QED
  BY <1>3, <1>4, <1>5, <1>6, SoundParts, PlacedParts DEF Sound

LEMMA RewoundPlaced ==
  ASSUME NEW v \in StringPart, NEW s \in Seq(Char)
  PROVE  Rewound(v) = Placed(v, s, 0)
  BY OffsetEnds DEF Rewound, Placed

LEMMA AtEndPlaced ==
  ASSUME NEW v, NEW s, Sound(v, s), Len(s) > 0
  PROVE  AtEnd(v) = Placed(v, s, Len(s) - 1)
<1> DEFINE k == Len(s) - 1
<1>1. k \in Nat /\ k < Len(s) /\ k + 1 = Len(s) /\ k <= Len(s)
  BY SoundParts
<1>2. s \in Seq(Char) /\ v.string_value = Encode(s) /\ v.string_length = Len(Encode(s))
      /\ v.string_chars = Len(s) /\ v \in StringPart
  BY SoundParts
<1> HIDE DEF k
<1>3. /\ s[k + 1] \in Char /\ StandsAt(Encode(s), Offset(s, k), s[k + 1])
      /\ Offset(s, k + 1) = Offset(s, k) + Len(utf8catcodepoint(s[k + 1]))
  BY <1>1, <1>2, Place
<1>4. Offset(s, k) \in Nat /\ Offset(s, k + 1) = Len(Encode(s))
  BY <1>1, <1>2, Beginning, OffsetEnds
<1>5. utf8rcodepointcalcsize(Encode(s), Len(Encode(s))) = Len(utf8catcodepoint(s[k + 1]))
  BY <1>3, <1>4, SteppedBack
<1>6. v.string_length - utf8rcodepointcalcsize(v.string_value, v.string_length) = Offset(s, k)
  <2>1. Len(utf8catcodepoint(s[k + 1])) \in Nat
    BY <1>3, CharacterBytes
  <2>. QED
    BY <1>2, <1>3, <1>4, <1>5, <2>1
<1>7. v.string_chars - 1 = k
  BY <1>2 DEF k
<1>8. AtEnd(v) = [v EXCEPT !.string_pos = Offset(s, k), !.string_char_pos = k]
  BY Zenon, <1>6, <1>7 DEF AtEnd
<1>. QED
  BY Zenon, <1>8 DEF Placed, k

(* Whatever the way, the position is that of the character asked for.      *)
LEMMA SetBytePos ==
  ASSUME NEW v, NEW s, Sound(v, s), NEW new \in Nat, new < Len(s)
  PROVE  string_set_byte_pos(v, new) = Placed(v, s, new)
<1> DEFINE k == v.string_char_pos
           L == Len(s)
<1>1. /\ v \in StringPart /\ s \in Seq(Char) /\ v.string_value = Encode(s) /\ v.string_chars = L
      /\ k \in Nat /\ L \in Nat /\ k < L /\ v.string_pos = Offset(s, k)
  BY SoundParts
<1>2. v = Placed(v, s, k)
  BY <1>1, PlacedThere
<1> DEFINE diff == new - k
<1>3. diff \in Int
  BY <1>1
<1>4. CASE diff = 1
  <2>1. new = k + 1
    BY <1>1, <1>4
  <2>2. Forward(Placed(v, s, k)) = Placed(v, s, k + 1)
    BY <1>1, ForwardMoves
  <2>3. string_set_byte_pos(v, new) = Forward(v)
    BY <1>4 DEF string_set_byte_pos
  <2>. QED
    BY Zenon, <1>2, <2>1, <2>2, <2>3
<1>5. CASE diff = -1
  <2>1. k = new + 1
    BY <1>1, <1>5
  <2>2. Backward(Placed(v, s, new + 1)) = Placed(v, s, new)
    BY <1>1, BackwardMoves
  <2>3. ~ (diff = 1)
    BY <1>5
  <2>4. string_set_byte_pos(v, new) = Backward(v)
    BY Zenon, <1>5, <2>3 DEF string_set_byte_pos
  <2>. QED
    BY Zenon, <1>2, <2>1, <2>2, <2>4
<1>6. CASE diff > 1
  <2>0. ~ (diff = 1) /\ ~ (diff = -1)
    BY <1>3, <1>6
  <2>l. v.string_chars - 1 - new = L - 1 - new
    BY <1>1
  <2>1. CASE L - 1 - new < diff
    <3>1. string_set_byte_pos(v, new) = Repeat(Backward, AtEnd(v), L - 1 - new)
      BY Zenon, <1>6, <2>0, <2>1, <2>l DEF string_set_byte_pos
    <3>2. AtEnd(v) = Placed(v, s, L - 1)
      BY <1>1, AtEndPlaced
    <3>3. L - 1 \in Nat /\ L - 1 <= L /\ L - 1 - new \in Nat /\ L - 1 - new <= L - 1
          /\ L - 1 - (L - 1 - new) = new
      BY <1>1
    <3>4. Repeat(Backward, Placed(v, s, L - 1), L - 1 - new) = Placed(v, s, L - 1 - (L - 1 - new))
      BY <1>1, <3>3, BackwardRepeated
    <3>. QED
      BY Zenon, <3>1, <3>2, <3>3, <3>4
  <2>2. CASE ~ (L - 1 - new < diff)
    <3>1. string_set_byte_pos(v, new) = Repeat(Forward, v, diff)
      BY Zenon, <1>6, <2>0, <2>2, <2>l DEF string_set_byte_pos
    <3>2. diff \in Nat /\ k + diff = new /\ k + diff <= L
      BY <1>1, <1>6
    <3> HIDE DEF diff
    <3>3. Repeat(Forward, Placed(v, s, k), diff) = Placed(v, s, k + diff)
      BY <1>1, <3>2, ForwardRepeated
    <3>. QED
      BY Zenon, <1>2, <3>1, <3>2, <3>3
  <2>. QED
    BY <2>1, <2>2
<1>7. CASE ~ (diff = 1) /\ ~ (diff = -1) /\ ~ (diff > 1)
  <2>1. CASE new <= -diff
    <3>1. string_set_byte_pos(v, new) = Repeat(Forward, Rewound(v), new)
      BY <1>1, <1>7, <2>1 DEF string_set_byte_pos
    <3>2. Rewound(v) = Placed(v, s, 0)
      BY <1>1, RewoundPlaced
    <3>3. 0 + new = new /\ 0 + new <= L /\ 0 \in Nat
      BY <1>1
    <3>4. Repeat(Forward, Placed(v, s, 0), new) = Placed(v, s, 0 + new)
      BY <1>1, <3>3, ForwardRepeated
    <3>. QED
      BY Zenon, <3>1, <3>2, <3>3, <3>4
  <2>2. CASE ~ (new <= -diff)
    <3>1. string_set_byte_pos(v, new) = Repeat(Backward, v, -diff)
      BY <1>1, <1>7, <2>2 DEF string_set_byte_pos
    <3>2. -diff \in Nat /\ -diff <= k /\ k - (-diff) = new /\ k <= L
      BY <1>1, <1>7
    <3> HIDE DEF diff
    <3>3. Repeat(Backward, Placed(v, s, k), -diff) = Placed(v, s, k - (-diff))
      BY <1>1, <3>2, BackwardRepeated
    <3>. QED
      BY Zenon, <1>2, <3>1, <3>2, <3>3
  <2>. QED
    BY <2>1, <2>2
<1>. QED
  BY <1>3, <1>4, <1>5, <1>6, <1>7

LEMMA CharacterThere ==
  ASSUME NEW v, NEW s, Sound(v, s), NEW k \in Nat, k < Len(s)
  PROVE  CodePoint(Placed(v, s, k)) = s[k + 1]
<1>1. v \in StringPart /\ s \in Seq(Char) /\ v.string_value = Encode(s) /\ Len(s) \in Nat /\ k <= Len(s)
  BY SoundParts
<1>2. s[k + 1] \in Char /\ StandsAt(Encode(s), Offset(s, k), s[k + 1]) /\ Offset(s, k) \in Nat
  BY <1>1, Place, Beginning
<1>3. utf8codepoint(Encode(s), Offset(s, k)) = s[k + 1]
  BY <1>2, Decoded
<1>4. Placed(v, s, k).string_value = Encode(s) /\ Placed(v, s, k).string_pos = Offset(s, k)
  BY <1>1, PlacedParts
<1>. QED
  BY Zenon, <1>3, <1>4 DEF CodePoint


LEMMA SetFromThere ==
  ASSUME NEW v, NEW s, Sound(v, s), NEW j \in Nat, j < Len(s), NEW k \in Nat, k < Len(s)
  PROVE  string_set_byte_pos(Placed(v, s, j), k) = Placed(v, s, k)
<1>1. Sound(Placed(v, s, j), s)
  BY SoundPlaced
<1>2. string_set_byte_pos(Placed(v, s, j), k) = Placed(Placed(v, s, j), s, k)
  BY <1>1, SetBytePos
<1>3. v \in StringPart
  BY SoundParts
<1>4. Placed(Placed(v, s, j), s, k) = Placed(v, s, k)
  BY <1>3, PlacedAgain
<1>. QED
  BY Zenon, <1>2, <1>4

(* The search has gone through the characters from p on, and stands at the *)
(* last of them.                                                           *)
LEMMA VisitedPlace ==
  ASSUME NEW v, NEW s, Sound(v, s), NEW p \in Nat, NEW n \in Nat, p + n <= Len(s)
  PROVE  Visited(v, p, n) = IF n = 0 THEN v ELSE Placed(v, s, p + n - 1)
<1> DEFINE Goes(f) == f = [j \in 0 .. n |-> IF j = 0 THEN v
                                            ELSE string_set_byte_pos(f[j - 1], p + j - 1)]
           E == CHOOSE f : Goes(f)
           There(j) == IF j = 0 THEN v ELSE Placed(v, s, p + j - 1)
           W == [j \in 0 .. n |-> There(j)]
<1>1. Len(s) \in Nat
  BY SoundParts
<1>2. Visited(v, p, n) = E[n]
  BY DEF Visited
<1>3. ASSUME NEW j \in Nat, j < n
      PROVE  string_set_byte_pos(There(j), p + (j + 1) - 1) = There(j + 1)
  <2>1. p + (j + 1) - 1 \in Nat /\ p + (j + 1) - 1 < Len(s) /\ j + 1 # 0
    BY <1>1, <1>3
  <2>2. There(j + 1) = Placed(v, s, p + (j + 1) - 1)
    BY <2>1
  <2>3. CASE j = 0
    <3>1. There(j) = v
      BY <2>3
    <3> HIDE DEF There
    <3>. QED
      BY <2>1, <2>2, <3>1, SetBytePos
  <2>4. CASE j # 0
    <3>1. There(j) = Placed(v, s, p + j - 1)
      BY <2>4
    <3>2. p + j - 1 \in Nat /\ p + j - 1 < Len(s)
      BY <1>1, <1>3, <2>4
    <3> HIDE DEF There
    <3>. QED
      BY <2>1, <2>2, <3>1, <3>2, SetFromThere
  <2>. QED
    BY <2>3, <2>4
<1>4. Goes(W)
  <2>1. ASSUME NEW j \in 0 .. n
        PROVE  There(j) = IF j = 0 THEN v ELSE string_set_byte_pos(W[j - 1], p + j - 1)
    <3>1. CASE j = 0
      BY <3>1
    <3>2. CASE j # 0
      <4>1. j - 1 \in Nat /\ j - 1 < n /\ j - 1 \in 0 .. n /\ (j - 1) + 1 = j
        BY <3>2
      <4> HIDE DEF There
      <4>2. string_set_byte_pos(There(j - 1), p + ((j - 1) + 1) - 1) = There((j - 1) + 1)
        BY <1>3, <4>1
      <4>3. W[j - 1] = There(j - 1)
        BY <4>1
      <4>. QED
        BY Zenon, <3>2, <4>1, <4>2, <4>3
    <3> HIDE DEF There, W
    <3>. QED
      BY <3>1, <3>2
  <2> HIDE DEF There
  <2>2. W = [j \in 0 .. n |-> IF j = 0 THEN v ELSE string_set_byte_pos(W[j - 1], p + j - 1)]
    BY <2>1
  <2>. QED
    BY <2>2
<1>5. Goes(E)
  <2> HIDE DEF Goes
  <2>. QED
    BY <1>4
<1>6. ASSUME NEW j \in 0 .. n
      PROVE  E[j] = IF j = 0 THEN v ELSE string_set_byte_pos(E[j - 1], p + j - 1)
  BY <1>5
<1>7. There(0) = v
  OBVIOUS
<1>8. There(n) = IF n = 0 THEN v ELSE Placed(v, s, p + n - 1)
  OBVIOUS
<1> HIDE DEF E, W, Goes, There
<1> DEFINE T == {j \in Nat : j <= n => E[j] = There(j)}
<1>9. 0 \in T
  <2>1. 0 \in 0 .. n
    OBVIOUS
  <2>2. E[0] = v
    BY <1>6, <2>1
  <2>. QED
    BY <1>7, <2>1, <2>2
<1>10. ASSUME NEW j \in T \cap Nat
       PROVE  j + 1 \in T
  <2>1. SUFFICES ASSUME j + 1 <= n PROVE E[j + 1] = There(j + 1)
    OBVIOUS
  <2>2. j + 1 \in 0 .. n /\ j + 1 # 0 /\ (j + 1) - 1 = j /\ j < n /\ j <= n
    BY <2>1
  <2>3. E[j + 1] = string_set_byte_pos(E[j], p + (j + 1) - 1)
    BY <1>6, <2>2
  <2>4. E[j] = There(j)
    BY <2>2
  <2>. QED
    BY <1>3, <2>2, <2>3, <2>4
<1> HIDE DEF T
<1>11. n \in T
  BY <1>9, <1>10, SetInduction
<1>12. E[n] = There(n)
  BY <1>11 DEF T
<1>. QED
  BY Zenon, <1>2, <1>8, <1>12


-----------------------------------------------------------------------------
(* The functions of rxvmvars.h on sound values *)

(* What the functions ask of the value they read: they look at no buffer.  *)
Holds(w, t) ==
  /\ t \in Seq(Character)
  /\ w.string_value = Encode(t) /\ w.string_length = Len(Encode(t)) /\ w.string_chars = Len(t)

LEMMA SoundHolds ==
  ASSUME NEW v, NEW s, Sound(v, s)
  PROVE  Holds(v, s)
  BY SoundParts DEF Holds

LEMMA HoldsParts ==
  ASSUME NEW w, NEW t, Holds(w, t)
  PROVE  /\ t \in Seq(Character) /\ t \in Seq(Char)
         /\ w.string_value = Encode(t) /\ w.string_length = Len(Encode(t)) /\ w.string_chars = Len(t)
         /\ Encode(t) \in Seq(Byte) /\ Len(Encode(t)) \in Nat /\ Len(t) \in Nat
<1>1. /\ t \in Seq(Character)
      /\ w.string_value = Encode(t) /\ w.string_length = Len(Encode(t)) /\ w.string_chars = Len(t)
  BY DEF Holds
<1>2. t \in Seq(Char)
  BY <1>1, Characters, SeqMonotonic
<1>. QED
  BY <1>1, <1>2, EncodeBytes, LenProperties

LEMMA ConstHolds ==
  ASSUME NEW t \in Seq(Character)
  PROVE  Holds(Const(t), t)
<1>1. /\ Const(t).string_value = Encode(t) /\ Const(t).string_length = Len(Encode(t))
      /\ Const(t).string_chars = Len(t)
  BY DEF Const, NoString
<1>. QED
  BY <1>1 DEF Holds

LEMMA NoStringSound == Sound(NoString, << >>)
<1>1. NoString \in StringPart
  <2>1. << >> \in Seq(Byte)
    BY EmptySeq
  <2>. QED
    BY <2>1 DEF NoString, StringPart
<1>2. /\ NoString.string_value = << >> /\ NoString.string_length = 0 /\ NoString.string_chars = 0
      /\ NoString.string_pos = 0 /\ NoString.string_char_pos = 0
      /\ NoString.string_buffer_length = 0 /\ NoString.allocated = FALSE
  BY DEF NoString
<1>3. << >> \in Seq(Character) /\ Len(<< >>) = 0
  BY EmptySeq
<1>4. Offset(<< >>, 0) = 0
  BY EncodeEmpty, OffsetEnds
<1>5. Within(0, << >>)
  BY <1>3 DEF Within
<1>6. BufferSound(NoString)
  BY <1>2 DEF BufferSound
<1>. QED
  BY <1>1, <1>2, <1>3, <1>4, <1>5, <1>6, EncodeEmpty DEF Sound

(* The buffer is large enough, and nothing else has changed.               *)
LEMMA Extended ==
  ASSUME NEW v \in StringPart, NEW length \in Nat
  PROVE  LET e == extend_string_buffer(v, length) IN
         /\ e \in StringPart /\ e.allocated = TRUE
         /\ e.string_length = length /\ e.written = length /\ length <= e.string_buffer_length
         /\ e.string_value = v.string_value /\ e.string_chars = v.string_chars
         /\ e.string_pos = v.string_pos /\ e.string_char_pos = v.string_char_pos
<1> DEFINE size == IF v.allocated /\ length <= v.string_buffer_length
                   THEN v.string_buffer_length ELSE buffer_size(length)
           e == [v EXCEPT !.string_length = length, !.written = length, !.allocated = TRUE,
                          !.string_buffer_length = size]
<1>1. size \in Nat /\ length <= size
  <2>1. v.string_buffer_length \in Nat
    BY DEF StringPart
  <2>2. CASE v.allocated /\ length <= v.string_buffer_length
    BY <2>1, <2>2
  <2>3. CASE ~ (v.allocated /\ length <= v.string_buffer_length)
    BY <2>3, BufferLarge
  <2>. QED
    BY <2>2, <2>3
<1>2. extend_string_buffer(v, length) = e
  BY DEF extend_string_buffer, StringPart
<1> HIDE DEF size
<1>3. e \in StringPart
  BY <1>1 DEF StringPart
<1>4. /\ e.allocated = TRUE /\ e.string_length = length /\ e.string_buffer_length = size
      /\ e.written = length
      /\ e.string_value = v.string_value /\ e.string_chars = v.string_chars
      /\ e.string_pos = v.string_pos /\ e.string_char_pos = v.string_char_pos
  BY DEF StringPart
<1> HIDE DEF e
<1>. QED
  BY Zenon, <1>1, <1>2, <1>3, <1>4

(* A value written anew, with room for it, is sound and at its beginning.  *)
LEMMA WrittenSound ==
  ASSUME NEW w, NEW t \in Seq(Character), w \in StringPart,
         w.string_value = Encode(t), w.string_length = Len(Encode(t)), w.string_chars = Len(t),
         w.string_pos = 0, w.string_char_pos = 0,
         w.allocated = TRUE, w.string_length <= w.string_buffer_length
  PROVE  Sound(w, t)
<1>1. t \in Seq(Char)
  BY Characters, SeqMonotonic
<1>2. Offset(t, 0) = 0
  BY <1>1, OffsetEnds
<1>3. Len(t) \in Nat
  BY LenProperties
<1>4. Within(0, t)
  BY <1>3 DEF Within
<1>5. BufferSound(w)
  BY DEF BufferSound
<1>. QED
  BY Zenon, <1>2, <1>4, <1>5 DEF Sound


LEMMA RewrittenSound ==
  ASSUME NEW e \in StringPart, NEW t \in Seq(Character), e.allocated = TRUE,
         e.string_length = Len(Encode(t)), e.string_length <= e.string_buffer_length
  PROVE  LET w == Rewound([e EXCEPT !.string_value = Encode(t), !.string_chars = Len(t)]) IN
         Sound(w, t) /\ w.string_char_pos = 0
<1> DEFINE f == [e EXCEPT !.string_value = Encode(t), !.string_chars = Len(t)]
           w == Rewound(f)
<1>1. Encode(t) \in Seq(Byte) /\ Len(t) \in Nat
  <2>1. t \in Seq(Char)
    BY Characters, SeqMonotonic
  <2>. QED
    BY <2>1, EncodeBytes, LenProperties
<1>2. f \in StringPart
  BY <1>1 DEF StringPart
<1>3. /\ f.string_value = Encode(t) /\ f.string_chars = Len(t)
      /\ f.allocated = e.allocated /\ f.string_length = e.string_length
      /\ f.string_buffer_length = e.string_buffer_length
  BY DEF StringPart
<1> HIDE DEF f
<1>4. w \in StringPart
  BY <1>2 DEF StringPart, Rewound
<1>5. /\ w.string_value = f.string_value /\ w.string_chars = f.string_chars
      /\ w.allocated = f.allocated /\ w.string_length = f.string_length
      /\ w.string_buffer_length = f.string_buffer_length
      /\ w.string_pos = 0 /\ w.string_char_pos = 0
  BY <1>2 DEF StringPart, Rewound
<1> HIDE DEF w
<1>6. Sound(w, t)
  BY <1>3, <1>4, <1>5, WrittenSound
<1>7. Sound(w, t) /\ w.string_char_pos = 0
  BY <1>5, <1>6
<1>. QED
  BY Zenon, <1>7 DEF w, f

LEMMA SetConstSound ==
  ASSUME NEW v \in StringPart, NEW w, NEW t, Holds(w, t)
  PROVE  /\ Sound(set_const_string(v, w), t)
         /\ set_const_string(v, w).string_char_pos = 0
<1> DEFINE e == extend_string_buffer(v, w.string_length)
<1>1. /\ t \in Seq(Character) /\ w.string_value = Encode(t) /\ w.string_length = Len(Encode(t))
      /\ w.string_chars = Len(t) /\ w.string_length \in Nat
  BY HoldsParts
<1>2. /\ e \in StringPart /\ e.allocated = TRUE /\ e.string_length = w.string_length
      /\ w.string_length <= e.string_buffer_length
  BY <1>1, Extended
<1>3. e.string_length = Len(Encode(t)) /\ e.string_length <= e.string_buffer_length
  BY Zenon, <1>1, <1>2
<1>4. set_const_string(v, w) = Rewound([e EXCEPT !.string_value = Encode(t), !.string_chars = Len(t)])
  BY Zenon, <1>1 DEF set_const_string
<1> HIDE DEF e
<1>. QED
  BY <1>1, <1>2, <1>3, <1>4, RewrittenSound

LEMMA GapBytes ==
  ASSUME NEW gap
  PROVE  Gap(gap) \in Seq(Character) /\ Gap(gap) \in Seq(Char) /\ Encode(Gap(gap)) = Gap(gap)
<1>1. CASE gap
  <2>1. Gap(gap) = <<32>>
    BY <1>1 DEF Gap
  <2>2. 32 \in Character /\ 32 \in Char /\ << >> \in Seq(Char) /\ << >> \in Seq(Byte)
    BY Characters, EmptySeq
  <2>3. <<32>> \in Seq(Character) /\ <<32>> \in Seq(Char) /\ Append(<< >>, 32) = <<32>>
    BY <2>2
  <2>4. utf8catcodepoint(32) = <<32>>
    BY SMT DEF utf8catcodepoint
  <2>5. << >> \o <<32>> = <<32>>
    OBVIOUS
  <2>6. Encode(<<32>>) = <<32>>
    BY Zenon, <2>2, <2>3, <2>4, <2>5, EncodeAppend, EncodeEmpty
  <2>. QED
    BY Zenon, <2>1, <2>3, <2>6
<1>2. CASE ~ gap
  <2>1. Gap(gap) = << >>
    BY <1>2 DEF Gap
  <2>2. << >> \in Seq(Character)
    BY EmptySeq
  <2>. QED
    BY Zenon, <2>1, <2>2, EncodeEmpty
<1>. QED
  BY <1>1, <1>2

(* Two texts and the blank between them.                                   *)
Joint(s, gap, t) == s \o Gap(gap) \o t

LEMMA JointText ==
  ASSUME NEW s \in Seq(Character), NEW t \in Seq(Character), NEW gap
  PROVE  /\ Joint(s, gap, t) \in Seq(Character)
         /\ Encode(Joint(s, gap, t)) = Encode(s) \o Gap(gap) \o Encode(t)
         /\ Len(Joint(s, gap, t)) = Len(s) + Len(Gap(gap)) + Len(t)
         /\ Len(Encode(Joint(s, gap, t))) = Len(Encode(s)) + Len(Gap(gap)) + Len(Encode(t))
<1> DEFINE g == Gap(gap)
<1>1. g \in Seq(Character) /\ g \in Seq(Char) /\ Encode(g) = g
  BY GapBytes
<1>2. s \in Seq(Char) /\ t \in Seq(Char)
  BY Characters, SeqMonotonic
<1>3. /\ Encode(s) \in Seq(Byte) /\ Encode(t) \in Seq(Byte) /\ g \in Seq(Byte)
  BY <1>1, <1>2, EncodeBytes
<1> HIDE DEF g
<1>4. s \o g \in Seq(Character) /\ s \o g \in Seq(Char) /\ Len(s \o g) = Len(s) + Len(g)
  BY <1>1, <1>2, ConcatProperties
<1>5. (s \o g) \o t \in Seq(Character) /\ Len((s \o g) \o t) = Len(s) + Len(g) + Len(t)
  BY <1>4, ConcatProperties
<1>6. Encode(s \o g) = Encode(s) \o g
  BY Zenon, <1>1, <1>2, EncodeJoin
<1>7. Encode((s \o g) \o t) = (Encode(s) \o g) \o Encode(t)
  BY Zenon, <1>2, <1>4, <1>6, EncodeJoin
<1>8. Encode(s) \o g \in Seq(Byte) /\ Len(Encode(s) \o g) = Len(Encode(s)) + Len(g)
  BY <1>3, ConcatProperties
<1>9. Len((Encode(s) \o g) \o Encode(t)) = Len(Encode(s)) + Len(g) + Len(Encode(t))
  BY <1>3, <1>8, ConcatProperties
<1>. QED
  BY Zenon, <1>5, <1>7, <1>9 DEF Joint, g


LEMMA AppendSound ==
  ASSUME NEW v, NEW s, Sound(v, s), NEW w, NEW t, Holds(w, t), NEW gap
  PROVE  /\ Sound(string_append(v, gap, w), Joint(s, gap, t))
         /\ string_append(v, gap, w).string_char_pos = 0
<1> DEFINE j == Joint(s, gap, t)
           length == v.string_length + Len(Gap(gap)) + w.string_length
           e == extend_string_buffer(v, length)
<1>1. /\ v \in StringPart /\ s \in Seq(Character) /\ s \in Seq(Char) /\ v.string_value = Encode(s)
      /\ v.string_length = Len(Encode(s)) /\ v.string_chars = Len(s)
  BY SoundParts
<1>2. /\ t \in Seq(Character) /\ w.string_value = Encode(t) /\ w.string_length = Len(Encode(t))
      /\ w.string_chars = Len(t)
  BY HoldsParts
<1>3. /\ j \in Seq(Character) /\ Encode(j) = Encode(s) \o Gap(gap) \o Encode(t)
      /\ Len(j) = Len(s) + Len(Gap(gap)) + Len(t)
      /\ Len(Encode(j)) = Len(Encode(s)) + Len(Gap(gap)) + Len(Encode(t))
  BY <1>1, <1>2, JointText
<1> HIDE DEF j
<1>4. j \in Seq(Char)
  BY <1>3, Characters, SeqMonotonic
<1>5. Len(Encode(j)) \in Nat
  BY <1>4, EncodeBytes
<1>6. length = Len(Encode(j))
  BY Zenon, <1>1, <1>2, <1>3
<1>7. /\ e \in StringPart /\ e.allocated = TRUE /\ e.string_length = length
      /\ length <= e.string_buffer_length
      /\ e.string_value = v.string_value /\ e.string_chars = v.string_chars
  <2>1. length \in Nat
    BY Zenon, <1>5, <1>6
  <2> HIDE DEF length
  <2>. QED
    BY <1>1, <2>1, Extended
<1>8. string_append(v, gap, w)
        = Rewound([e EXCEPT !.string_value = e.string_value \o Gap(gap) \o w.string_value,
                            !.string_chars = e.string_chars + Len(Gap(gap)) + w.string_chars])
  <2> DEFINE x == e
  <2>1. string_append(v, gap, w)
        = Rewound([x EXCEPT !.string_value = @ \o Gap(gap) \o w.string_value,
                            !.string_chars = @ + Len(Gap(gap)) + w.string_chars])
    BY Zenon DEF string_append
  <2>2. x \in StringPart
    BY <1>7
  <2> HIDE DEF x
  <2>3. [x EXCEPT !.string_value = @ \o Gap(gap) \o w.string_value,
                  !.string_chars = @ + Len(Gap(gap)) + w.string_chars]
        = [x EXCEPT !.string_value = x.string_value \o Gap(gap) \o w.string_value,
                    !.string_chars = x.string_chars + Len(Gap(gap)) + w.string_chars]
    BY <2>2 DEF StringPart
  <2>. QED
    BY Zenon, <2>1, <2>3 DEF x
<1>9. e.string_value \o Gap(gap) \o w.string_value = Encode(j)
  BY Zenon, <1>1, <1>2, <1>3, <1>7
<1>10. e.string_chars + Len(Gap(gap)) + w.string_chars = Len(j)
  BY Zenon, <1>1, <1>2, <1>3, <1>7
<1>11. e.string_length = Len(Encode(j)) /\ e.string_length <= e.string_buffer_length
  BY Zenon, <1>6, <1>7
<1> HIDE DEF e, length
<1>12. string_append(v, gap, w) = Rewound([e EXCEPT !.string_value = Encode(j), !.string_chars = Len(j)])
  BY Zenon, <1>8, <1>9, <1>10
<1>13. Sound(string_append(v, gap, w), j) /\ string_append(v, gap, w).string_char_pos = 0
  BY <1>3, <1>7, <1>11, <1>12, RewrittenSound
<1>. QED
  BY Zenon, <1>13 DEF j

(* What is written behind the string alters none of its parts.             *)
LEMMA SoundWritten ==
  ASSUME NEW w, NEW t, Sound(w, t), NEW n \in Nat
  PROVE  /\ Sound([w EXCEPT !.written = n], t)
         /\ [w EXCEPT !.written = n].string_char_pos = w.string_char_pos
<1> DEFINE x == [w EXCEPT !.written = n]
<1>1. w \in StringPart
  BY SoundParts
<1>2. x \in StringPart
  BY <1>1 DEF StringPart
<1>3. /\ x.string_value = w.string_value /\ x.string_chars = w.string_chars
      /\ x.string_pos = w.string_pos /\ x.string_char_pos = w.string_char_pos
      /\ x.allocated = w.allocated /\ x.string_length = w.string_length
      /\ x.string_buffer_length = w.string_buffer_length
  BY <1>1 DEF StringPart
<1> HIDE DEF x
<1>4. Sound(x, t)
  BY Zenon, <1>2, <1>3 DEF Sound, BufferSound
<1>. QED
  BY Zenon, <1>3, <1>4 DEF x

LEMMA AppendItselfSound ==
  ASSUME NEW v, NEW s, Sound(v, s), NEW gap
  PROVE  /\ Sound(string_append_itself(v, gap), Joint(s, gap, s))
         /\ string_append_itself(v, gap).string_char_pos = 0
<1> DEFINE length == 2 * v.string_length + Len(Gap(gap))
           n == v.string_length + Len(Gap(gap)) + length
           w == string_append(v, gap, v)
<1>1. n \in Nat
  <2>1. v.string_length \in Nat
    BY SoundParts DEF StringPart
  <2>2. Len(Gap(gap)) \in Nat
    BY GapBytes, LenProperties
  <2>. QED
    BY <2>1, <2>2
<1>2. Sound(w, Joint(s, gap, s)) /\ w.string_char_pos = 0
  BY SoundHolds, AppendSound
<1>3. string_append_itself(v, gap) = [w EXCEPT !.written = n]
  BY Zenon DEF string_append_itself
<1> HIDE DEF w, n
<1>4. Sound([w EXCEPT !.written = n], Joint(s, gap, s)) /\ [w EXCEPT !.written = n].string_char_pos = 0
  BY Zenon, <1>1, <1>2, SoundWritten
<1>. QED
  BY Zenon, <1>3, <1>4

LEMMA ConcatSound ==
  ASSUME NEW v \in StringPart, NEW w, NEW s, Holds(w, s), NEW x, NEW t, Holds(x, t), NEW gap
  PROVE  /\ Sound(string_concat(v, w, gap, x), Joint(s, gap, t))
         /\ string_concat(v, w, gap, x).string_char_pos = 0
<1> DEFINE j == Joint(s, gap, t)
           length == w.string_length + Len(Gap(gap)) + x.string_length
           e == [v EXCEPT !.allocated = TRUE, !.string_length = Len(Encode(j)),
                          !.written = Len(Encode(j)),
                          !.string_buffer_length = buffer_size(Len(Encode(j)))]
           f == [e EXCEPT !.string_value = Encode(j), !.string_chars = Len(j)]
<1>1. /\ s \in Seq(Character) /\ w.string_value = Encode(s) /\ w.string_length = Len(Encode(s))
      /\ w.string_chars = Len(s)
  BY HoldsParts
<1>2. /\ t \in Seq(Character) /\ x.string_value = Encode(t) /\ x.string_length = Len(Encode(t))
      /\ x.string_chars = Len(t)
  BY HoldsParts
<1>3. /\ j \in Seq(Character) /\ Encode(j) = Encode(s) \o Gap(gap) \o Encode(t)
      /\ Len(j) = Len(s) + Len(Gap(gap)) + Len(t)
      /\ Len(Encode(j)) = Len(Encode(s)) + Len(Gap(gap)) + Len(Encode(t))
  BY <1>1, <1>2, JointText
<1> HIDE DEF j
<1>4. j \in Seq(Char)
  BY <1>3, Characters, SeqMonotonic
<1>5. Len(Encode(j)) \in Nat
  BY <1>4, EncodeBytes
<1>6. string_concat(v, w, gap, x)
        = Rewound([v EXCEPT !.string_value = w.string_value \o Gap(gap) \o x.string_value,
                            !.allocated = TRUE, !.string_length = length, !.written = length,
                            !.string_buffer_length = buffer_size(length),
                            !.string_chars = w.string_chars + Len(Gap(gap)) + x.string_chars])
  BY DEF string_concat
<1>7. /\ length = Len(Encode(j)) /\ w.string_value \o Gap(gap) \o x.string_value = Encode(j)
      /\ w.string_chars + Len(Gap(gap)) + x.string_chars = Len(j)
  BY Zenon, <1>1, <1>2, <1>3
<1> HIDE DEF length
<1>8. string_concat(v, w, gap, x)
        = Rewound([v EXCEPT !.string_value = Encode(j),
                            !.allocated = TRUE, !.string_length = Len(Encode(j)),
                            !.written = Len(Encode(j)),
                            !.string_buffer_length = buffer_size(Len(Encode(j))),
                            !.string_chars = Len(j)])
  BY Zenon, <1>6, <1>7
<1>9. [v EXCEPT !.string_value = Encode(j),
                !.allocated = TRUE, !.string_length = Len(Encode(j)),
                !.written = Len(Encode(j)),
                !.string_buffer_length = buffer_size(Len(Encode(j))),
                !.string_chars = Len(j)] = f
  BY DEF StringPart
<1>10. buffer_size(Len(Encode(j))) \in Nat /\ Len(Encode(j)) <= buffer_size(Len(Encode(j)))
  BY <1>5, BufferLarge
<1>11. e \in StringPart
  BY <1>5, <1>10 DEF StringPart
<1>12. /\ e.allocated = TRUE /\ e.string_length = Len(Encode(j))
       /\ e.string_buffer_length = buffer_size(Len(Encode(j)))
  BY DEF StringPart
<1> HIDE DEF e
<1>13. e.string_length <= e.string_buffer_length
  BY Zenon, <1>10, <1>12
<1>14. string_concat(v, w, gap, x) = Rewound([e EXCEPT !.string_value = Encode(j), !.string_chars = Len(j)])
  BY Zenon, <1>8, <1>9
<1>15. Sound(string_concat(v, w, gap, x), j) /\ string_concat(v, w, gap, x).string_char_pos = 0
  BY <1>3, <1>11, <1>12, <1>13, <1>14, RewrittenSound
<1>. QED
  BY Zenon, <1>15 DEF j


LEMMA ConcatCharSound ==
  ASSUME NEW v, NEW s, Sound(v, s), NEW c \in Character
  PROVE  /\ Sound(string_concat_char(v, c), Append(s, c))
         /\ string_concat_char(v, c).string_char_pos = Len(s)
<1> DEFINE t == Append(s, c)
           char == utf8catcodepoint(c)
           length == v.string_length + Len(char)
           e == extend_string_buffer(v, length)
           w == [e EXCEPT !.string_pos = Len(Encode(s)), !.string_char_pos = Len(s),
                          !.string_value = Encode(t), !.string_chars = Len(t)]
<1>1. /\ v \in StringPart /\ s \in Seq(Character) /\ s \in Seq(Char) /\ v.string_value = Encode(s)
      /\ v.string_length = Len(Encode(s)) /\ v.string_chars = Len(s) /\ Len(s) \in Nat
  BY SoundParts
<1>2. c \in Char
  BY Characters
<1>3. t \in Seq(Character) /\ t \in Seq(Char) /\ Len(t) = Len(s) + 1 /\ t[Len(s) + 1] = c
  BY <1>1, <1>2, AppendProperties
<1>4. Encode(t) = Encode(s) \o char /\ Len(Encode(t)) = Len(Encode(s)) + Len(char)
  BY <1>1, <1>2, EncodeAppend, LastPlace
<1> HIDE DEF t
<1>5. /\ Encode(s) \in Seq(Byte) /\ Encode(t) \in Seq(Byte)
      /\ Len(Encode(s)) \in Nat /\ Len(Encode(t)) \in Nat
  BY <1>1, <1>3, EncodeBytes
<1>6. Len(char) \in Nat
  BY <1>2, CharacterBytes
<1> HIDE DEF char
<1>7. length = Len(Encode(t)) /\ length \in Nat
  BY Zenon, <1>1, <1>4, <1>5
<1> HIDE DEF length
<1>8. /\ e \in StringPart /\ e.allocated = TRUE /\ e.string_length = length
      /\ length <= e.string_buffer_length
      /\ e.string_value = v.string_value /\ e.string_chars = v.string_chars
  BY <1>1, <1>7, Extended
<1>9. string_concat_char(v, c) = w
  <2> DEFINE x == e
  <2>1. string_concat_char(v, c)
          = [x EXCEPT !.string_pos = v.string_length, !.string_char_pos = v.string_chars,
                      !.string_value = @ \o char, !.string_chars = @ + 1]
    BY Zenon DEF string_concat_char, length, char
  <2>2. x \in StringPart
    BY <1>8
  <2>3. x.string_value \o char = Encode(t) /\ x.string_chars + 1 = Len(t)
    BY Zenon, <1>1, <1>3, <1>4, <1>8
  <2> HIDE DEF x
  <2>4. [x EXCEPT !.string_pos = v.string_length, !.string_char_pos = v.string_chars,
                  !.string_value = @ \o char, !.string_chars = @ + 1]
          = [x EXCEPT !.string_pos = v.string_length, !.string_char_pos = v.string_chars,
                      !.string_value = x.string_value \o char, !.string_chars = x.string_chars + 1]
    BY <2>2 DEF StringPart
  <2>. QED
    BY Zenon, <1>1, <2>1, <2>3, <2>4 DEF x
<1> HIDE DEF e
<1>10. w \in StringPart
  <2>1. Len(t) \in Nat
    BY <1>1, <1>3
  <2>2. /\ e \in StringPart /\ Len(s) \in Nat /\ Len(Encode(s)) \in Nat /\ Encode(t) \in Seq(Byte)
        /\ Len(t) \in Nat
    BY <1>1, <1>5, <1>8, <2>1
  <2>. QED
    BY <2>2 DEF StringPart
<1>11. /\ w.string_value = Encode(t) /\ w.string_chars = Len(t) /\ w.string_pos = Len(Encode(s))
       /\ w.string_char_pos = Len(s) /\ w.allocated = e.allocated
       /\ w.string_length = e.string_length /\ w.string_buffer_length = e.string_buffer_length
  BY <1>8 DEF StringPart
<1> HIDE DEF w
<1>12. Offset(t, Len(s)) = Len(Encode(s))
  <2>1. Len(s) < Len(t) /\ Len(s) <= Len(t)
    BY <1>1, <1>3
  <2>2. Offset(t, Len(s) + 1) = Offset(t, Len(s)) + Len(char)
    BY <1>1, <1>3, <2>1, Place DEF char
  <2>3. Offset(t, Len(s) + 1) = Len(Encode(t))
    BY <1>3, OffsetEnds
  <2>4. Offset(t, Len(s)) \in Nat
    BY <1>1, <1>3, <2>1, Beginning
  <2>. QED
    BY <1>4, <1>5, <1>6, <2>2, <2>3, <2>4
<1>13. Within(Len(s), t)
  BY <1>1, <1>3 DEF Within
<1>14. BufferSound(w)
  BY <1>8, <1>11 DEF BufferSound
<1>15. w.string_length = Len(Encode(t)) /\ w.string_pos = Offset(t, w.string_char_pos)
  BY Zenon, <1>7, <1>8, <1>11, <1>12
<1>16. Sound(w, t)
  BY Zenon, <1>3, <1>10, <1>11, <1>13, <1>14, <1>15 DEF Sound
<1>. QED
  BY Zenon, <1>9, <1>11, <1>16 DEF t

LEMMA CopySound ==
  ASSUME NEW v \in StringPart, NEW w, NEW t, Sound(w, t)
  PROVE  /\ Sound(copy_string_value(v, w), t)
         /\ copy_string_value(v, w).string_char_pos = w.string_char_pos
<1> DEFINE none == [v EXCEPT !.string_length = 0, !.written = 0, !.allocated = FALSE,
                             !.string_buffer_length = 0]
           e == IF w.string_length # 0 THEN extend_string_buffer(v, w.string_length) ELSE none
           f == [e EXCEPT !.string_value = w.string_value, !.string_chars = w.string_chars,
                          !.string_pos = w.string_pos, !.string_char_pos = w.string_char_pos]
<1>1. /\ w \in StringPart /\ t \in Seq(Character) /\ w.string_value = Encode(t)
      /\ w.string_length = Len(Encode(t)) /\ w.string_chars = Len(t)
      /\ w.string_pos = Offset(t, w.string_char_pos)
      /\ Within(w.string_char_pos, t)
  BY SoundParts DEF Sound
<1>2. w.string_length \in Nat
  BY <1>1 DEF StringPart
<1>3. e \in StringPart /\ e.string_length = w.string_length /\ BufferSound(e)
  <2>1. CASE w.string_length # 0
    <3> DEFINE x == extend_string_buffer(v, w.string_length)
    <3>1. e = x
      BY <2>1
    <3>2. /\ x \in StringPart /\ x.allocated = TRUE /\ x.string_length = w.string_length
          /\ w.string_length <= x.string_buffer_length
      BY <1>2, Extended
    <3> HIDE DEF x
    <3>3. BufferSound(x)
      BY <3>2 DEF BufferSound
    <3> HIDE DEF e
    <3>. QED
      BY Zenon, <3>1, <3>2, <3>3
  <2>2. CASE w.string_length = 0
    <3>1. e = none
      BY <2>2
    <3>2. none \in StringPart
      BY DEF StringPart
    <3>3. none.string_length = 0 /\ none.allocated = FALSE /\ none.string_buffer_length = 0
      BY DEF StringPart
    <3> HIDE DEF none
    <3>4. BufferSound(none)
      BY <3>3 DEF BufferSound
    <3> HIDE DEF e
    <3>. QED
      BY Zenon, <2>2, <3>1, <3>2, <3>3, <3>4
  <2>. QED
    BY <2>1, <2>2
<1>4. copy_string_value(v, w) = f
  BY Zenon DEF copy_string_value
<1> HIDE DEF e
<1>5. f \in StringPart
  BY <1>1, <1>3 DEF StringPart
<1>6. /\ f.string_value = w.string_value /\ f.string_chars = w.string_chars
      /\ f.string_pos = w.string_pos /\ f.string_char_pos = w.string_char_pos
      /\ f.allocated = e.allocated /\ f.string_length = e.string_length
      /\ f.string_buffer_length = e.string_buffer_length
  BY <1>3 DEF StringPart
<1> HIDE DEF f
<1>7. BufferSound(f)
  BY Zenon, <1>3, <1>6 DEF BufferSound
<1>8. Sound(f, t)
  BY Zenon, <1>1, <1>3, <1>5, <1>6, <1>7 DEF Sound
<1>. QED
  BY Zenon, <1>4, <1>6, <1>8


-----------------------------------------------------------------------------
(* The texts of the values *)

LEMMA TextsAre ==
  ASSUME NEW s
  PROVE  s \in Texts <=> s \in Seq(Character) /\ \E r \in Value : Len(s) <= MaxChars[r]
<1>1. ASSUME s \in Texts
      PROVE  s \in Seq(Character) /\ \E r \in Value : Len(s) <= MaxChars[r]
  <2>1. PICK r \in Value : s \in BoundedSeq(Character, MaxChars[r])
    BY <1>1 DEF Texts
  <2>2. PICK m \in 0 .. MaxChars[r] : s \in [1 .. m -> Character]
    BY <2>1 DEF BoundedSeq, SeqOf
  <2>3. MaxChars[r] \in Nat
    BY StringAssumption
  <2>4. m \in Nat
    BY <2>2, <2>3
  <2>5. s \in Seq(Character) /\ Len(s) = m
    BY <2>2, <2>4
  <2>6. Len(s) <= MaxChars[r]
    BY <2>2, <2>3, <2>5
  <2>. QED
    BY <2>5, <2>6
<1>2. ASSUME s \in Seq(Character), NEW r \in Value, Len(s) <= MaxChars[r]
      PROVE  s \in Texts
  <2>1. MaxChars[r] \in Nat
    BY StringAssumption
  <2>2. Len(s) \in Nat /\ s \in [1 .. Len(s) -> Character]
    BY <1>2
  <2>3. Len(s) \in 0 .. MaxChars[r]
    BY <1>2, <2>1, <2>2
  <2>4. s \in BoundedSeq(Character, MaxChars[r])
    BY <2>2, <2>3 DEF BoundedSeq, SeqOf
  <2>. QED
    BY <2>4 DEF Texts
<1>. QED
  BY <1>1, <1>2

(* No other text has the bytes of a sound value.                           *)
LEMMA TextIs ==
  ASSUME NEW v, NEW s \in Texts, Sound(v, s)
  PROVE  WellFormed(v) /\ Text(v) = s
<1>1. v.string_value = Encode(s) /\ s \in Seq(Char)
  BY SoundParts
<1>2. Encode(s) \in Encodings
  BY DEF Encodings
<1>3. WellFormed(v)
  BY Zenon, <1>1, <1>2 DEF WellFormed
<1> DEFINE t == CHOOSE u \in Texts : Encode(u) = Encode(s)
<1>4. t \in Texts /\ Encode(t) = Encode(s)
  OBVIOUS
<1>5. TextOf[Encode(s)] = t
  BY <1>2 DEF TextOf
<1> HIDE DEF t
<1>6. t \in Seq(Char)
  BY <1>4, TextsAre, Characters, SeqMonotonic
<1>7. t = s
  BY <1>1, <1>4, <1>6, EncodeInjective
<1>. QED
  BY Zenon, <1>1, <1>3, <1>5, <1>7 DEF Text

(* The values val of the registers are those of a program.                 *)
Good(val) ==
  /\ val \in [Value -> StringPart]
  /\ \A r \in Value : \E s \in Texts : Sound(val[r], s)

(* Their refinement: texts and positions.                                  *)
TextsIn(val) == [r \in Value |-> Text(val[r])]
CursorsIn(val) == [r \in Value |-> val[r].string_char_pos]

LEMMA GoodParts ==
  ASSUME NEW val, Good(val), NEW r \in Value
  PROVE  /\ val[r] \in StringPart /\ Text(val[r]) \in Texts /\ Sound(val[r], Text(val[r]))
         /\ WellFormed(val[r])
         /\ TextsIn(val)[r] = Text(val[r]) /\ CursorsIn(val)[r] = val[r].string_char_pos
<1>1. PICK s \in Texts : Sound(val[r], s)
  BY DEF Good
<1>2. WellFormed(val[r]) /\ Text(val[r]) = s
  BY <1>1, TextIs
<1>3. val[r] \in StringPart
  BY DEF Good
<1>4. TextsIn(val)[r] = Text(val[r]) /\ CursorsIn(val)[r] = val[r].string_char_pos
  BY DEF TextsIn, CursorsIn
<1>. QED
  BY Zenon, <1>1, <1>2, <1>3, <1>4

Updates(new, old, r, w) == new = [old EXCEPT ![r] = w]

LEMMA GoodUpdated ==
  ASSUME NEW val, Good(val), NEW r \in Value, NEW w, NEW t \in Texts, Sound(w, t),
         NEW new, Updates(new, val, r, w)
  PROVE  /\ Good(new)
         /\ Updates(TextsIn(new), TextsIn(val), r, t)
         /\ Updates(CursorsIn(new), CursorsIn(val), r, w.string_char_pos)
<1>1. val \in [Value -> StringPart] /\ w \in StringPart
  BY SoundParts DEF Good
<1>2. Text(w) = t
  BY TextIs
<1>3. /\ new \in [Value -> StringPart] /\ new[r] = w
      /\ \A q \in Value : q # r => new[q] = val[q]
  BY <1>1 DEF Updates
<1>4. \A q \in Value : \E s \in Texts : Sound(new[q], s)
  <2>1. ASSUME NEW q \in Value
        PROVE  \E s \in Texts : Sound(new[q], s)
    <3>1. CASE q = r
      BY Zenon, <1>3, <3>1
    <3>2. CASE q # r
      <4>1. new[q] = val[q]
        BY <1>3, <3>2
      <4>. QED
        BY Zenon, <4>1 DEF Good
    <3>. QED
      BY <3>1, <3>2
  <2>. QED
    BY <2>1
<1>5. Good(new)
  BY Zenon, <1>3, <1>4 DEF Good
<1>6. TextsIn(new) = [TextsIn(val) EXCEPT ![r] = t]
  <2>1. ASSUME NEW q \in Value
        PROVE  Text(new[q]) = [TextsIn(val) EXCEPT ![r] = t][q]
    <3>1. CASE q = r
      <4>1. [TextsIn(val) EXCEPT ![r] = t][q] = t
        BY <3>1 DEF TextsIn
      <4>. QED
        BY Zenon, <1>2, <1>3, <3>1, <4>1
    <3>2. CASE q # r
      <4>1. [TextsIn(val) EXCEPT ![r] = t][q] = Text(val[q])
        BY <3>2 DEF TextsIn
      <4>. QED
        BY Zenon, <1>3, <3>2, <4>1
    <3>. QED
      BY <3>1, <3>2
  <2>. QED
    BY <2>1 DEF TextsIn
<1>7. CursorsIn(new) = [CursorsIn(val) EXCEPT ![r] = w.string_char_pos]
  BY <1>3 DEF CursorsIn
<1>. QED
  BY Zenon, <1>5, <1>6, <1>7 DEF Updates


-----------------------------------------------------------------------------
(* The steps of StringSpec, of the texts and positions of the values *)

Becomes(r, t, k) ==
  /\ TextsIn(value') = [TextsIn(value) EXCEPT ![r] = t]
  /\ CursorsIn(value') = [CursorsIn(value) EXCEPT ![r] = k]

LEMMA BecomesMapped ==
  ASSUME NEW r \in Value, NEW t, Becomes(r, t, 0)
  PROVE  Strings!Becomes(r, t)
  BY Zenon DEF Becomes, TextsIn, CursorsIn, Strings!Becomes

LEMMA LoadMapped ==
  ASSUME NEW r \in Value, NEW t \in Literal, Becomes(r, t, 0), result' = 0
  PROVE  Strings!Next
<1>1. Strings!Becomes(r, t)
  BY BecomesMapped
<1>2. Strings!Load(r)
  BY Zenon, <1>1 DEF Strings!Load
<1>. QED
  BY Zenon, <1>2 DEF Strings!Next, Strings!Write

LEMMA CopyMapped ==
  ASSUME NEW r \in Value, NEW q \in Value, result' = 0,
         Becomes(r, TextsIn(value)[q], CursorsIn(value)[q])
  PROVE  Strings!Next
<1>1. Strings!Copy(r)
  BY Zenon DEF Becomes, TextsIn, CursorsIn, Strings!Copy
<1>. QED
  BY Zenon, <1>1 DEF Strings!Next, Strings!Write

LEMMA JoinMapped ==
  ASSUME NEW r \in Value, NEW q \in Value, NEW gap \in BOOLEAN,
         NEW s \in Literal \cup {TextsIn(value)[u] : u \in Value}, result' = 0,
         \/ Becomes(r, Joint(TextsIn(value)[q], gap, s), 0)
         \/ Becomes(r, Joint(s, gap, TextsIn(value)[q]), 0)
  PROVE  Strings!Next
<1> DEFINE All == Literal \cup {TextsIn(value)[u] : u \in Value}
           To(x) == /\ CursorsIn(value)' = [CursorsIn(value) EXCEPT ![r] = 0]
                    /\ TextsIn(value)' = [TextsIn(value) EXCEPT ![r] = x]
<1>1. To(Strings!Joined(TextsIn(value)[q], gap, s)) \/ To(Strings!Joined(s, gap, TextsIn(value)[q]))
  BY Zenon DEF Becomes, Joint, Gap, Strings!Joined
<1>2. \E gap0 \in BOOLEAN, w \in Value, s0 \in All :
        To(Strings!Joined(TextsIn(value)[w], gap0, s0)) \/ To(Strings!Joined(s0, gap0, TextsIn(value)[w]))
  BY Zenon, <1>1
<1>3. Strings!Join(r)
  BY Zenon, <1>2 DEF TextsIn, CursorsIn, Strings!Join, Strings!Becomes
<1>. QED
  BY Zenon, <1>3 DEF Strings!Next, Strings!Write

LEMMA AddMapped ==
  ASSUME NEW r \in Value, NEW c \in Character, result' = 0,
         Becomes(r, Append(TextsIn(value)[r], c), Len(TextsIn(value)[r]))
  PROVE  Strings!Next
<1>1. Strings!Add(r)
  BY DEF Becomes, TextsIn, CursorsIn, Strings!Add
<1>. QED
  BY Zenon, <1>1 DEF Strings!Next, Strings!Write

LEMMA PickMapped ==
  ASSUME NEW r \in Value, NEW q \in Value, NEW p \in 0 .. Len(TextsIn(value)[q]) - 1, result' = 0,
         TextsIn(value') = [TextsIn(value) EXCEPT ![r] = Append(TextsIn(value)[r], TextsIn(value)[q][p + 1])],
         CursorsIn(value') = [[CursorsIn(value) EXCEPT ![q] = p] EXCEPT ![r] = Len(TextsIn(value)[r])]
  PROVE  Strings!Next
<1>1. Strings!Pick(r)
  BY DEF TextsIn, CursorsIn, Strings!Pick
<1>. QED
  BY Zenon, <1>1 DEF Strings!Next, Strings!Write

Stays == TextsIn(value') = TextsIn(value) /\ CursorsIn(value') = CursorsIn(value)
Sought(r, k) ==
  TextsIn(value') = TextsIn(value) /\ CursorsIn(value') = [CursorsIn(value) EXCEPT ![r] = k]

LEMMA SetPositionMapped ==
  ASSUME NEW r \in Value, NEW p \in 0 .. Len(TextsIn(value)[r]) - 1, Sought(r, p), result' = 0
  PROVE  Strings!Next
<1>1. Strings!SetPosition(r) /\ UNCHANGED TextsIn(value)
  BY Zenon DEF Sought, TextsIn, CursorsIn, Strings!SetPosition, Strings!Seek
<1>. QED
  BY Zenon, <1>1 DEF Strings!Next, Strings!Read, TextsIn

LEMMA CharacterAtMapped ==
  ASSUME NEW r \in Value, NEW p \in 0 .. Len(TextsIn(value)[r]) - 1, Sought(r, p),
         result' = TextsIn(value)[r][p + 1]
  PROVE  Strings!Next
<1>1. Strings!CharacterAt(r) /\ UNCHANGED TextsIn(value)
  BY Zenon DEF Sought, TextsIn, CursorsIn, Strings!CharacterAt, Strings!Seek
<1>. QED
  BY Zenon, <1>1 DEF Strings!Next, Strings!Read, TextsIn

LEMMA HereMapped ==
  ASSUME NEW r \in Value, TextsIn(value)[r] # << >>, Stays,
         result' = TextsIn(value)[r][CursorsIn(value)[r] + 1]
  PROVE  Strings!Next
<1>1. Strings!Here(r) /\ UNCHANGED TextsIn(value)
  BY Zenon DEF Stays, TextsIn, CursorsIn, Strings!Here
<1>. QED
  BY Zenon, <1>1 DEF Strings!Next, Strings!Read, TextsIn

LEMMA LengthMapped ==
  ASSUME NEW r \in Value, Stays, result' = Len(TextsIn(value)[r])
  PROVE  Strings!Next
<1>1. Strings!Length(r) /\ UNCHANGED TextsIn(value)
  BY Zenon DEF Stays, TextsIn, CursorsIn, Strings!Length
<1>. QED
  BY Zenon, <1>1 DEF Strings!Next, Strings!Read, TextsIn

LEMMA PositionMapped ==
  ASSUME NEW r \in Value, Stays, result' = CursorsIn(value)[r]
  PROVE  Strings!Next
<1>1. Strings!Position(r) /\ UNCHANGED TextsIn(value)
  BY Zenon DEF Stays, TextsIn, CursorsIn, Strings!Position
<1>. QED
  BY Zenon, <1>1 DEF Strings!Next, Strings!Read, TextsIn

LEMMA EqualMapped ==
  ASSUME NEW r \in Value, NEW q \in Value, Stays,
         result' = IF TextsIn(value)[r] = TextsIn(value)[q] THEN 1 ELSE 0
  PROVE  Strings!Next
<1>1. Strings!Equal(r) /\ UNCHANGED TextsIn(value)
  BY Zenon DEF Stays, TextsIn, CursorsIn, Strings!Equal
<1>. QED
  BY Zenon, <1>1 DEF Strings!Next, Strings!Read, TextsIn


Finds(r, p, hits) ==
  \/ \E q \in hits : result' = q /\ Sought(r, q) /\ \A h \in hits : q <= h
  \/ /\ hits = {} /\ result' = -Len(TextsIn(value)[r])
     /\ IF p < Len(TextsIn(value)[r]) THEN Sought(r, Len(TextsIn(value)[r]) - 1) ELSE Stays

LEMMA FindMapped ==
  ASSUME NEW r \in Value, NEW p \in 0 .. Len(TextsIn(value)[r]), NEW blank \in BOOLEAN, NEW hits,
         hits = {q \in p .. Len(TextsIn(value)[r]) - 1 : (TextsIn(value)[r][q + 1] = 32) = blank},
         Finds(r, p, hits)
  PROVE  Strings!Next
<1> DEFINE L == Len(TextsIn(value)[r])
           Hits(p0, blank0) == {q \in p0 .. L - 1 : (TextsIn(value)[r][q + 1] = 32) = blank0}
           Seek(q) == CursorsIn(value)' = [CursorsIn(value) EXCEPT ![r] = q]
<1>1. \/ \E q \in Hits(p, blank) : result' = q /\ Seek(q) /\ \A h \in Hits(p, blank) : q <= h
      \/ /\ Hits(p, blank) = {} /\ result' = -L
         /\ IF p < L THEN Seek(L - 1) ELSE UNCHANGED CursorsIn(value)
  BY Zenon DEF Finds, Sought, Stays
<1>2. \E p0 \in 0 .. L, blank0 \in BOOLEAN :
        \/ \E q \in Hits(p0, blank0) : result' = q /\ Seek(q) /\ \A h \in Hits(p0, blank0) : q <= h
        \/ /\ Hits(p0, blank0) = {} /\ result' = -L
           /\ IF p0 < L THEN Seek(L - 1) ELSE UNCHANGED CursorsIn(value)
  <2> HIDE DEF Hits, Seek, L
  <2>1. p \in 0 .. L
    BY DEF L
  <2>. QED
    BY Zenon, <1>1, <2>1
<1>3. UNCHANGED TextsIn(value)
  BY Zenon DEF Finds, Sought, Stays
<1>4. Strings!Find(r)
  BY Zenon, <1>2 DEF TextsIn, CursorsIn, Strings!Find, Strings!Seek
<1>. QED
  BY Zenon, <1>3, <1>4 DEF Strings!Next, Strings!Read, TextsIn

-----------------------------------------------------------------------------
(* Instructions *)

Inv == Good(value) /\ result \in Int

Bounded == \A r \in Value : value'[r].string_chars <= MaxChars[r]

(* One register has a new sound value.                                     *)
LEMMA Changes ==
  ASSUME Inv, Bounded, NEW r \in Value, NEW w, NEW t, Sound(w, t),
         value' = [value EXCEPT ![r] = w]
  PROVE  t \in Texts /\ Good(value') /\ Becomes(r, t, w.string_char_pos)
<1>1. Good(value) /\ value \in [Value -> StringPart]
  BY DEF Inv, Good
<1>2. value'[r] = w
  BY <1>1
<1>3. t \in Seq(Character) /\ w.string_chars = Len(t)
  BY SoundParts
<1>4. Len(t) <= MaxChars[r]
  BY <1>2, <1>3 DEF Bounded
<1>5. t \in Texts
  BY <1>3, <1>4, TextsAre
<1>6. PICK old, new : old = value /\ new = value'
  OBVIOUS
<1>7. Good(old) /\ Updates(new, old, r, w)
  BY Zenon, <1>1, <1>6 DEF Updates
<1>8. /\ Good(new) /\ Updates(TextsIn(new), TextsIn(old), r, t)
      /\ Updates(CursorsIn(new), CursorsIn(old), r, w.string_char_pos)
  BY <1>5, <1>7, GoodUpdated
<1>. QED
  BY Zenon, <1>5, <1>6, <1>8 DEF Becomes, Updates

LEMMA LoadStep ==
  ASSUME Inv, Bounded, NEW r \in Value, LOAD(r)
  PROVE  Inv' /\ Strings!Next
<1>1. PICK t \in Literal : Put(r, set_const_string(value[r], Const(t)))
  BY DEF LOAD
<1>2. PICK w : w = set_const_string(value[r], Const(t))
  OBVIOUS
<1>3. value' = [value EXCEPT ![r] = w] /\ result' = 0
  BY Zenon, <1>1, <1>2 DEF Put, Move, Return
<1>4. value[r] \in StringPart
  BY GoodParts DEF Inv
<1>5. Holds(Const(t), t)
  BY StringAssumption, ConstHolds
<1>6. Sound(w, t) /\ w.string_char_pos = 0
  BY <1>2, <1>4, <1>5, SetConstSound
<1>7. Good(value') /\ Becomes(r, t, 0)
  BY <1>3, <1>6, Changes
<1>8. Strings!Next
  BY <1>3, <1>7, LoadMapped
<1>. QED
  BY <1>3, <1>7, <1>8 DEF Inv

LEMMA CopyStep ==
  ASSUME Inv, Bounded, NEW r \in Value, COPY(r)
  PROVE  Inv' /\ Strings!Next
<1>1. PICK q \in Value : Put(r, copy_string_value(value[r], value[q]))
  BY DEF COPY
<1>2. PICK w : w = copy_string_value(value[r], value[q])
  OBVIOUS
<1>3. value' = [value EXCEPT ![r] = w] /\ result' = 0
  BY Zenon, <1>1, <1>2 DEF Put, Move, Return
<1>4. value[r] \in StringPart
  BY GoodParts DEF Inv
<1>5. PICK t : t = Text(value[q])
  OBVIOUS
<1>6. Sound(value[q], t) /\ t = TextsIn(value)[q] /\ CursorsIn(value)[q] = value[q].string_char_pos
  BY <1>5, GoodParts DEF Inv
<1>7. Sound(w, t) /\ w.string_char_pos = CursorsIn(value)[q]
  BY <1>2, <1>4, <1>6, CopySound
<1>8. Good(value') /\ Becomes(r, t, w.string_char_pos)
  BY <1>3, <1>7, Changes
<1>9. Becomes(r, TextsIn(value)[q], CursorsIn(value)[q])
  BY Zenon, <1>6, <1>7, <1>8 DEF Becomes
<1>10. Strings!Next
  BY <1>3, <1>9, CopyMapped
<1>. QED
  BY <1>3, <1>8, <1>10 DEF Inv

LEMMA AppendStep ==
  ASSUME Inv, Bounded, NEW r \in Value, APPEND(r)
  PROVE  Inv' /\ Strings!Next
<1>0. PICK gap \in BOOLEAN, q \in Value : \E w :
        /\ Put(r, w)
        /\ \/ w = string_append(value[r], gap, value[q])
           \/ q = r /\ w = string_append_itself(value[r], gap)
  BY Zenon DEF APPEND
<1>1. PICK w :
        /\ Put(r, w)
        /\ \/ w = string_append(value[r], gap, value[q])
           \/ q = r /\ w = string_append_itself(value[r], gap)
  BY Zenon, <1>0
<1>3. value' = [value EXCEPT ![r] = w] /\ result' = 0
  BY Zenon, <1>1 DEF Put, Move, Return
<1>4. PICK s, t : s = Text(value[r]) /\ t = Text(value[q])
  OBVIOUS
<1>5. Sound(value[r], s) /\ Sound(value[q], t) /\ s = TextsIn(value)[r] /\ t = TextsIn(value)[q]
  BY <1>4, GoodParts DEF Inv
<1>6. Sound(w, Joint(s, gap, t)) /\ w.string_char_pos = 0
  <2>1. CASE w = string_append(value[r], gap, value[q])
    BY <1>5, <2>1, SoundHolds, AppendSound
  <2>2. CASE q = r /\ w = string_append_itself(value[r], gap)
    <3>1. s = t
      BY Zenon, <1>4, <2>2
    <3>. QED
      BY <1>5, <2>2, <3>1, AppendItselfSound
  <2>. QED
    BY Zenon, <1>1, <2>1, <2>2
<1>7. Good(value') /\ Becomes(r, Joint(s, gap, t), 0)
  BY <1>3, <1>6, Changes
<1>8. Becomes(r, Joint(TextsIn(value)[r], gap, t), 0) /\ t \in Literal \cup {TextsIn(value)[u] : u \in Value}
  BY Zenon, <1>5, <1>7
<1>9. Strings!Next
  BY <1>3, <1>8, JoinMapped
<1>. QED
  BY <1>3, <1>7, <1>9 DEF Inv


LEMMA ConcatStep ==
  ASSUME Inv, Bounded, NEW r \in Value, CONCAT(r)
  PROVE  Inv' /\ Strings!Next
<1>1. ASSUME NEW q \in Value, NEW gap \in BOOLEAN, NEW s, NEW x, NEW y, NEW t,
             s = TextsIn(value)[q], t \in Literal \cup {TextsIn(value)[u] : u \in Value},
             Holds(x, s), Holds(y, t),
             \/ Put(r, string_concat(value[r], x, gap, y))
             \/ Put(r, string_concat(value[r], y, gap, x))
      PROVE  Inv' /\ Strings!Next
  <2>1. value[r] \in StringPart
    BY GoodParts DEF Inv
  <2>2. CASE Put(r, string_concat(value[r], x, gap, y))
    <3>1. PICK w : w = string_concat(value[r], x, gap, y)
      OBVIOUS
    <3>2. value' = [value EXCEPT ![r] = w] /\ result' = 0
      BY Zenon, <2>2, <3>1 DEF Put, Move, Return
    <3>3. Sound(w, Joint(s, gap, t)) /\ w.string_char_pos = 0
      BY <1>1, <2>1, <3>1, ConcatSound
    <3>4. Good(value') /\ Becomes(r, Joint(s, gap, t), 0)
      BY <3>2, <3>3, Changes
    <3>5. Becomes(r, Joint(TextsIn(value)[q], gap, t), 0)
      BY Zenon, <1>1, <3>4
    <3>6. Strings!Next
      BY <1>1, <3>2, <3>5, JoinMapped
    <3>. QED
      BY <3>2, <3>4, <3>6 DEF Inv
  <2>3. CASE Put(r, string_concat(value[r], y, gap, x))
    <3>1. PICK w : w = string_concat(value[r], y, gap, x)
      OBVIOUS
    <3>2. value' = [value EXCEPT ![r] = w] /\ result' = 0
      BY Zenon, <2>3, <3>1 DEF Put, Move, Return
    <3>3. Sound(w, Joint(t, gap, s)) /\ w.string_char_pos = 0
      BY <1>1, <2>1, <3>1, ConcatSound
    <3>4. Good(value') /\ Becomes(r, Joint(t, gap, s), 0)
      BY <3>2, <3>3, Changes
    <3>5. Becomes(r, Joint(t, gap, TextsIn(value)[q]), 0)
      BY Zenon, <1>1, <3>4
    <3>6. Strings!Next
      BY <1>1, <3>2, <3>5, JoinMapped
    <3>. QED
      BY <3>2, <3>4, <3>6 DEF Inv
  <2>. QED
    BY <1>1, <2>2, <2>3
<1>2. PICK q \in Value, gap \in BOOLEAN :
        \/ \E u \in Value : Put(r, string_concat(value[r], value[q], gap, value[u]))
        \/ \E t \in Literal : \/ Put(r, string_concat(value[r], value[q], gap, Const(t)))
                             \/ Put(r, string_concat(value[r], Const(t), gap, value[q]))
  BY DEF CONCAT
<1>3. PICK s, x : s = Text(value[q]) /\ x = value[q]
  OBVIOUS
<1>4. s = TextsIn(value)[q] /\ Holds(x, s)
  BY <1>3, GoodParts, SoundHolds DEF Inv
<1>5. ASSUME NEW u \in Value, Put(r, string_concat(value[r], value[q], gap, value[u]))
      PROVE  Inv' /\ Strings!Next
  <2>1. PICK t, y : t = Text(value[u]) /\ y = value[u]
    OBVIOUS
  <2>2. t = TextsIn(value)[u] /\ Holds(y, t)
    BY <2>1, GoodParts, SoundHolds DEF Inv
  <2>3. t \in Literal \cup {TextsIn(value)[z] : z \in Value}
    BY <2>2
  <2>4. Put(r, string_concat(value[r], x, gap, y))
    BY Zenon, <1>3, <1>5, <2>1
  <2>. QED
    BY Zenon, <1>1, <1>4, <2>2, <2>3, <2>4
<1>6. ASSUME NEW t \in Literal, \/ Put(r, string_concat(value[r], value[q], gap, Const(t)))
                                \/ Put(r, string_concat(value[r], Const(t), gap, value[q]))
      PROVE  Inv' /\ Strings!Next
  <2>1. PICK y : y = Const(t)
    OBVIOUS
  <2>2. Holds(y, t)
    BY <2>1, StringAssumption, ConstHolds
  <2>3. t \in Literal \cup {TextsIn(value)[z] : z \in Value}
    OBVIOUS
  <2>4. \/ Put(r, string_concat(value[r], x, gap, y))
        \/ Put(r, string_concat(value[r], y, gap, x))
    BY Zenon, <1>3, <1>6, <2>1
  <2>. QED
    BY Zenon, <1>1, <1>4, <2>2, <2>3, <2>4
<1>. QED
  BY Zenon, <1>2, <1>5, <1>6

LEMMA AppendCharStep ==
  ASSUME Inv, Bounded, NEW r \in Value, APPENDCHAR(r)
  PROVE  Inv' /\ Strings!Next
<1>1. PICK c \in Character : Put(r, string_concat_char(value[r], c))
  BY DEF APPENDCHAR
<1>2. PICK w, s : w = string_concat_char(value[r], c) /\ s = Text(value[r])
  OBVIOUS
<1>3. value' = [value EXCEPT ![r] = w] /\ result' = 0
  BY Zenon, <1>1, <1>2 DEF Put, Move, Return
<1>4. Sound(value[r], s) /\ s = TextsIn(value)[r]
  BY <1>2, GoodParts DEF Inv
<1>5. Sound(w, Append(s, c)) /\ w.string_char_pos = Len(s)
  BY <1>2, <1>4, ConcatCharSound
<1>6. Good(value') /\ Becomes(r, Append(s, c), Len(s))
  BY <1>3, <1>5, Changes
<1>7. Becomes(r, Append(TextsIn(value)[r], c), Len(TextsIn(value)[r]))
  BY Zenon, <1>4, <1>6
<1>8. Strings!Next
  BY <1>3, <1>7, AddMapped
<1>. QED
  BY <1>3, <1>6, <1>8 DEF Inv

(* The source is sound at the character that is taken, the target with it. *)
LEMMA ConcCharStep ==
  ASSUME Inv, Bounded, NEW r \in Value, CONCCHAR(r)
  PROVE  Inv' /\ Strings!Next
<1> DEFINE Taken(q, p) ==
             /\ value' = [[value EXCEPT ![q] = string_set_byte_pos(value[q], p)] EXCEPT
                            ![r] = string_concat_char(@, CodePoint(string_set_byte_pos(value[q], p)))]
             /\ result' = 0
<1>0. PICK q \in Value : \E p \in Positions(q) : Taken(q, p)
  BY Zenon DEF CONCCHAR, Return
<1>1. PICK p \in Positions(q) : Taken(q, p)
  BY Zenon, <1>0
<1>2. PICK v, s : v = string_set_byte_pos(value[q], p) /\ s = Text(value[q])
  OBVIOUS
<1>3. Sound(value[q], s) /\ s = TextsIn(value)[q] /\ s \in Texts
  BY <1>2, GoodParts DEF Inv
<1>4. value[q].string_chars = Len(s) /\ Len(s) \in Nat /\ s \in Seq(Character)
  BY <1>3, SoundParts
<1>5. p \in Nat /\ p < Len(s) /\ p \in 0 .. Len(TextsIn(value)[q]) - 1
  <2>1. p \in 0 .. Len(s) - 1
    BY Zenon, <1>1, <1>4 DEF Positions
  <2>2. p \in Nat /\ p < Len(s)
    BY <1>4, <2>1
  <2>3. p \in 0 .. Len(TextsIn(value)[q]) - 1
    BY Zenon, <1>3, <2>1
  <2>. QED
    BY <2>2, <2>3
<1>6. v = Placed(value[q], s, p) /\ Sound(v, s)
  BY <1>2, <1>3, <1>5, SetBytePos, SoundPlaced
<1>7. CodePoint(v) = s[p + 1] /\ v.string_char_pos = p
  <2>1. value[q] \in StringPart
    BY <1>3, SoundParts
  <2>2. Placed(value[q], s, p).string_char_pos = p
    BY <2>1, PlacedParts
  <2>3. CodePoint(Placed(value[q], s, p)) = s[p + 1]
    BY <1>3, <1>5, CharacterThere
  <2>. QED
    BY Zenon, <1>6, <2>2, <2>3
<1>8. PICK c : c = s[p + 1]
  OBVIOUS
<1>9. c \in Character
  BY <1>4, <1>5, <1>8
<1>10. PICK old, placed, new : /\ old = value /\ new = value' /\ placed = [value EXCEPT ![q] = v]
  OBVIOUS
<1>11. Good(old) /\ Updates(placed, old, q, v)
  BY Zenon, <1>10 DEF Inv, Updates
<1>12. /\ Good(placed) /\ Updates(TextsIn(placed), TextsIn(old), q, s)
       /\ Updates(CursorsIn(placed), CursorsIn(old), q, v.string_char_pos)
  BY <1>3, <1>6, <1>11, GoodUpdated
<1>13. PICK t, w : t = Text(placed[r]) /\ w = string_concat_char(placed[r], c)
  OBVIOUS
<1>14. Sound(placed[r], t) /\ t = TextsIn(placed)[r]
  BY <1>12, <1>13, GoodParts
<1>15. Sound(w, Append(t, c)) /\ w.string_char_pos = Len(t)
  BY <1>9, <1>13, <1>14, ConcatCharSound
<1>16. new = [placed EXCEPT ![r] = w]
  <2>1. CodePoint(v) = c
    BY Zenon, <1>7, <1>8
  <2>2. new = [placed EXCEPT ![r] = string_concat_char(@, c)]
    BY Zenon, <1>1, <1>2, <1>10, <2>1
  <2>3. placed \in [Value -> StringPart]
    BY Zenon, <1>12 DEF Good
  <2>. QED
    BY <1>13, <2>2, <2>3
<1>17. Append(t, c) \in Texts
  <2>1. Append(t, c) \in Seq(Character) /\ w.string_chars = Len(Append(t, c))
    BY <1>15, SoundParts
  <2>2. placed \in [Value -> StringPart]
    BY Zenon, <1>12 DEF Good
  <2>3. new[r] = w
    BY <1>16, <2>2
  <2>4. value'[r].string_chars <= MaxChars[r]
    BY DEF Bounded
  <2>5. Len(Append(t, c)) <= MaxChars[r]
    BY Zenon, <1>10, <2>1, <2>3, <2>4
  <2>. QED
    BY <2>1, <2>5, TextsAre
<1>18. Updates(new, placed, r, w)
  BY Zenon, <1>16 DEF Updates
<1>19. /\ Good(new) /\ Updates(TextsIn(new), TextsIn(placed), r, Append(t, c))
       /\ Updates(CursorsIn(new), CursorsIn(placed), r, w.string_char_pos)
  BY <1>12, <1>15, <1>17, <1>18, GoodUpdated
(* Moving the position of the source leaves all texts as they are.         *)
<1>20. TextsIn(placed) = TextsIn(old)
  <2>1. s = TextsIn(old)[q] /\ TextsIn(placed) = [TextsIn(old) EXCEPT ![q] = s]
    BY Zenon, <1>3, <1>10, <1>12 DEF Updates
  <2>2. TextsIn(old) = [u \in Value |-> TextsIn(old)[u]]
    BY DEF TextsIn
  <2>. QED
    BY <2>1, <2>2
<1>21. TextsIn(value') = [TextsIn(value) EXCEPT ![r] = Append(TextsIn(value)[r], TextsIn(value)[q][p + 1])]
  BY Zenon, <1>3, <1>8, <1>10, <1>14, <1>19, <1>20 DEF Updates
<1>22. CursorsIn(value') = [[CursorsIn(value) EXCEPT ![q] = p] EXCEPT ![r] = Len(TextsIn(value)[r])]
  BY Zenon, <1>7, <1>10, <1>12, <1>14, <1>15, <1>19, <1>20 DEF Updates
<1>23. Strings!Next
  BY <1>1, <1>5, <1>21, <1>22, PickMapped
<1>24. Good(value') /\ result' = 0
  BY Zenon, <1>1, <1>10, <1>19
<1>. QED
  BY <1>23, <1>24 DEF Inv


(* Only the position of a value moves, to one in its text.                 *)
LEMMA Moved ==
  ASSUME Inv, Bounded, NEW r \in Value, NEW k \in Nat, k < Len(Text(value[r])),
         value' = [value EXCEPT ![r] = Placed(value[r], Text(value[r]), k)]
  PROVE  Good(value') /\ Sought(r, k)
<1>1. PICK s, w : s = Text(value[r]) /\ w = Placed(value[r], s, k)
  OBVIOUS
<1>2. Sound(value[r], s) /\ s = TextsIn(value)[r] /\ value[r] \in StringPart
  BY <1>1, GoodParts DEF Inv
<1>3. Sound(w, s)
  BY <1>1, <1>2, SoundPlaced
<1>4. w.string_char_pos = k
  BY <1>1, <1>2, PlacedParts
<1>5. value' = [value EXCEPT ![r] = w]
  BY Zenon, <1>1
<1>6. Good(value') /\ Becomes(r, s, w.string_char_pos)
  BY <1>3, <1>5, Changes
<1>7. [TextsIn(value) EXCEPT ![r] = s] = TextsIn(value)
  BY <1>2 DEF TextsIn
<1>. QED
  BY Zenon, <1>4, <1>6, <1>7 DEF Becomes, Sought

(* The positions in a value are those in its text.                         *)
LEMMA PositionsAre ==
  ASSUME Inv, NEW r \in Value
  PROVE  /\ value[r].string_chars = Len(Text(value[r])) /\ Len(Text(value[r])) \in Nat
         /\ Positions(r) = 0 .. Len(TextsIn(value)[r]) - 1
         /\ \A p \in Positions(r) : p \in Nat /\ p < Len(Text(value[r]))
<1>1. PICK s : s = Text(value[r])
  OBVIOUS
<1>2. Sound(value[r], s) /\ s = TextsIn(value)[r]
  BY <1>1, GoodParts DEF Inv
<1>3. value[r].string_chars = Len(s) /\ Len(s) \in Nat
  BY <1>2, SoundParts
<1>4. Positions(r) = 0 .. Len(s) - 1
  BY Zenon, <1>3 DEF Positions
<1>5. \A p \in Positions(r) : p \in Nat /\ p < Len(s)
  BY <1>3, <1>4
<1>. QED
  BY Zenon, <1>1, <1>2, <1>3, <1>4, <1>5

LEMMA SetStrPosStep ==
  ASSUME Inv, Bounded, NEW r \in Value, SETSTRPOS(r)
  PROVE  Inv' /\ Strings!Next
<1>1. PICK p \in Positions(r) : Put(r, string_set_byte_pos(value[r], p))
  BY DEF SETSTRPOS
<1>2. /\ p \in Nat /\ p < Len(Text(value[r])) /\ p \in 0 .. Len(TextsIn(value)[r]) - 1
      /\ Sound(value[r], Text(value[r]))
  BY <1>1, PositionsAre, GoodParts DEF Inv
<1>3. string_set_byte_pos(value[r], p) = Placed(value[r], Text(value[r]), p)
  BY <1>2, SetBytePos
<1>4. value' = [value EXCEPT ![r] = Placed(value[r], Text(value[r]), p)] /\ result' = 0
  BY Zenon, <1>1, <1>3 DEF Put, Move, Return
<1>5. Good(value') /\ Sought(r, p)
  BY <1>2, <1>4, Moved
<1>6. Strings!Next
  BY <1>2, <1>4, <1>5, SetPositionMapped
<1>. QED
  BY <1>4, <1>5, <1>6 DEF Inv

LEMMA StrCharStep ==
  ASSUME Inv, Bounded, NEW r \in Value, STRCHAR(r)
  PROVE  Inv' /\ Strings!Next
<1>1. PICK p \in Positions(r) : /\ Move(r, string_set_byte_pos(value[r], p))
                                /\ Return(CodePoint(string_set_byte_pos(value[r], p)))
  BY Zenon DEF STRCHAR
<1>2. PICK s : s = Text(value[r])
  OBVIOUS
<1>3. /\ p \in Nat /\ p < Len(s) /\ p \in 0 .. Len(TextsIn(value)[r]) - 1
      /\ Sound(value[r], s) /\ s = TextsIn(value)[r]
  BY <1>1, <1>2, PositionsAre, GoodParts DEF Inv
<1>4. string_set_byte_pos(value[r], p) = Placed(value[r], s, p)
  BY <1>3, SetBytePos
<1>5. CodePoint(Placed(value[r], s, p)) = s[p + 1]
  BY <1>3, CharacterThere
<1>6. /\ value' = [value EXCEPT ![r] = Placed(value[r], Text(value[r]), p)]
      /\ result' = TextsIn(value)[r][p + 1]
  BY Zenon, <1>1, <1>2, <1>3, <1>4, <1>5 DEF Move, Return
<1>7. Good(value') /\ Sought(r, p)
  BY <1>2, <1>3, <1>6, Moved
<1>8. Strings!Next
  BY <1>3, <1>6, <1>7, CharacterAtMapped
<1>9. s \in Seq(Char)
  BY <1>3, SoundParts
<1>10. s[p + 1] \in Char
  BY <1>3, <1>9
<1>11. result' \in Int
  BY <1>3, <1>6, <1>10 DEF Char
<1>. QED
  BY <1>7, <1>8, <1>11 DEF Inv

LEMMA StrCharHereStep ==
  ASSUME Inv, NEW r \in Value, STRCHAR_HERE(r)
  PROVE  Inv' /\ Strings!Next
<1>1. value[r].string_chars > 0 /\ result' = CodePoint(value[r]) /\ value' = value
  BY DEF STRCHAR_HERE, Return
<1>2. PICK s, k : s = Text(value[r]) /\ k = value[r].string_char_pos
  OBVIOUS
<1>3. Sound(value[r], s) /\ s = TextsIn(value)[r] /\ k = CursorsIn(value)[r]
  BY <1>2, GoodParts DEF Inv
<1>4. /\ value[r] \in StringPart /\ k \in Nat /\ k < Len(s) /\ Len(s) > 0 /\ s \in Seq(Char)
      /\ value[r].string_pos = Offset(s, k)
  BY <1>1, <1>2, <1>3, SoundParts
<1>5. value[r] = Placed(value[r], s, k)
  BY <1>2, <1>4, PlacedThere
<1>6. CodePoint(Placed(value[r], s, k)) = s[k + 1]
  BY <1>3, <1>4, CharacterThere
<1>7. result' = s[k + 1]
  BY Zenon, <1>1, <1>5, <1>6
<1>8. result' = TextsIn(value)[r][CursorsIn(value)[r] + 1]
  BY Zenon, <1>3, <1>7
<1>9. TextsIn(value)[r] # << >>
  BY <1>3, <1>4
<1>10. Stays /\ Good(value')
  BY Zenon, <1>1 DEF Stays, Inv
<1>11. Strings!Next
  BY <1>8, <1>9, <1>10, HereMapped
<1>12. s[k + 1] \in Int
  BY <1>4 DEF Char
<1>. QED
  BY <1>7, <1>10, <1>11, <1>12 DEF Inv

LEMMA StrLenStep ==
  ASSUME Inv, NEW r \in Value, STRLEN(r)
  PROVE  Inv' /\ Strings!Next
<1>1. result' = value[r].string_chars /\ value' = value
  BY DEF STRLEN, Return
<1>2. result' = Len(TextsIn(value)[r]) /\ result' \in Int
  <2>1. TextsIn(value)[r] = Text(value[r])
    BY DEF TextsIn
  <2>2. value[r].string_chars = Len(Text(value[r])) /\ Len(Text(value[r])) \in Nat
    BY PositionsAre
  <2>. QED
    BY <1>1, <2>1, <2>2
<1>3. Stays /\ Good(value')
  BY Zenon, <1>1 DEF Stays, Inv
<1>4. Strings!Next
  BY <1>2, <1>3, LengthMapped
<1>. QED
  BY <1>2, <1>3, <1>4 DEF Inv

LEMMA GetStrPosStep ==
  ASSUME Inv, NEW r \in Value, GETSTRPOS(r)
  PROVE  Inv' /\ Strings!Next
<1>1. result' = value[r].string_char_pos /\ value' = value
  BY DEF GETSTRPOS, Return
<1>2. result' = CursorsIn(value)[r] /\ result' \in Int
  <2>1. value[r] \in StringPart /\ CursorsIn(value)[r] = value[r].string_char_pos
    BY GoodParts DEF Inv
  <2>. QED
    BY <1>1, <2>1 DEF StringPart
<1>3. Stays /\ Good(value')
  BY Zenon, <1>1 DEF Stays, Inv
<1>4. Strings!Next
  BY <1>2, <1>3, PositionMapped
<1>. QED
  BY <1>2, <1>3, <1>4 DEF Inv


(* Two sequences of bytes that compare equal are the same.                 *)
LEMMA ComparedEqual ==
  ASSUME NEW v \in StringPart, NEW w \in StringPart,
         v.string_length = Len(v.string_value), w.string_length = Len(w.string_value)
  PROVE  string_cmp(v, w) = 0 <=> v.string_value = w.string_value
<1> DEFINE a == v.string_value
           b == w.string_value
           n == v.string_length - w.string_length
<1>1. a \in Seq(Byte) /\ b \in Seq(Byte)
  BY DEF StringPart
<1>2. Len(a) \in Nat /\ Len(b) \in Nat /\ n = Len(a) - Len(b)
  BY <1>1, LenProperties
<1>3. ASSUME Len(a) = Len(b)
      PROVE  Min({Len(a), Len(b)}) = Len(a)
  <2>1. {Len(a), Len(b)} = {Len(a)}
    BY <1>3
  <2>2. \A y \in {Len(a)} : Len(a) <= y
    BY <1>2
  <2>3. \A x \in {Len(a)} : x = Len(a)
    OBVIOUS
  <2>. QED
    BY <2>1, <2>2, <2>3 DEF Min
<1>4. string_cmp(v, w) = IF Differ(a, b) \/ n > 0 THEN 1 ELSE IF n < 0 THEN -1 ELSE 0
  BY DEF string_cmp
<1>5. string_cmp(v, w) = 0 <=> ~ Differ(a, b) /\ Len(a) = Len(b)
  <2> HIDE DEF a, b, n
  <2>1. n = Len(a) - Len(b)
    BY <1>2
  <2>2. CASE Differ(a, b)
    BY <1>4, <2>2
  <2>3. CASE ~ Differ(a, b)
    <3>1. CASE n > 0
      BY <1>2, <1>4, <2>1, <2>3, <3>1
    <3>2. CASE n < 0
      BY <1>2, <1>4, <2>1, <2>3, <3>2
    <3>3. CASE n = 0
      BY <1>2, <1>4, <2>1, <2>3, <3>3
    <3>. QED
      BY <1>2, <2>1, <3>1, <3>2, <3>3
  <2>. QED
    BY <2>2, <2>3
<1>6. ASSUME a = b
      PROVE  ~ Differ(a, b) /\ Len(a) = Len(b)
  BY <1>6 DEF Differ
<1>7. ASSUME ~ Differ(a, b), Len(a) = Len(b)
      PROVE  a = b
  <2>1. \A i \in 1 .. Len(a) : a[i] = b[i]
    BY <1>3, <1>7 DEF Differ
  <2> HIDE DEF a, b
  <2>. QED
    BY <1>1, <1>7, <2>1, SeqEqual
<1>. QED
  BY Zenon, <1>5, <1>6, <1>7

LEMMA SeqStep ==
  ASSUME Inv, NEW r \in Value, SEQ(r)
  PROVE  Inv' /\ Strings!Next
<1>1. PICK q \in Value : result' = (IF string_cmp(value[r], value[q]) = 0 THEN 1 ELSE 0) /\ value' = value
  BY Zenon DEF SEQ, Return
<1>2. PICK s, t : s = Text(value[r]) /\ t = Text(value[q])
  OBVIOUS
<1>3. Sound(value[r], s) /\ Sound(value[q], t) /\ s = TextsIn(value)[r] /\ t = TextsIn(value)[q]
  BY <1>2, GoodParts DEF Inv
<1>4. /\ value[r] \in StringPart /\ value[r].string_value = Encode(s) /\ s \in Seq(Char)
      /\ value[r].string_length = Len(value[r].string_value)
  BY <1>3, SoundParts
<1>5. /\ value[q] \in StringPart /\ value[q].string_value = Encode(t) /\ t \in Seq(Char)
      /\ value[q].string_length = Len(value[q].string_value)
  BY <1>3, SoundParts
<1>6. string_cmp(value[r], value[q]) = 0 <=> Encode(s) = Encode(t)
  BY <1>4, <1>5, ComparedEqual
<1>7. string_cmp(value[r], value[q]) = 0 <=> s = t
  <2>1. Encode(s) = Encode(t) => s = t
    BY <1>4, <1>5, EncodeInjective
  <2>. QED
    BY Zenon, <1>6, <2>1
<1>8. result' = IF TextsIn(value)[r] = TextsIn(value)[q] THEN 1 ELSE 0
  BY Zenon, <1>1, <1>3, <1>7
<1>9. Stays /\ Good(value')
  BY Zenon, <1>1 DEF Stays, Inv
<1>10. Strings!Next
  BY <1>8, <1>9, EqualMapped
<1>11. result' \in Int
  BY <1>8
<1>. QED
  BY <1>9, <1>10, <1>11 DEF Inv

(* What the search sees at a position is the character there.              *)
LEMMA FoundThere ==
  ASSUME NEW v, NEW s, Sound(v, s), NEW p \in 0 .. Len(s), NEW blank
  PROVE  Found(v, p, blank) = {q \in p .. Len(s) - 1 : (s[q + 1] = 32) = blank}
<1>1. v.string_chars = Len(s) /\ Len(s) \in Nat
  BY SoundParts
<1>2. ASSUME NEW q \in p .. Len(s) - 1
      PROVE  CodePoint(Visited(v, p, q - p + 1)) = s[q + 1]
  <2>1. p \in Nat /\ q \in Nat /\ q < Len(s)
    BY <1>1
  <2>2. q - p + 1 \in Nat /\ q - p + 1 # 0 /\ p + (q - p + 1) <= Len(s) /\ p + (q - p + 1) - 1 = q
    BY <1>1, <2>1
  <2>3. PICK n : n = q - p + 1
    OBVIOUS
  <2>4. Visited(v, p, n) = IF n = 0 THEN v ELSE Placed(v, s, p + n - 1)
    BY <2>1, <2>2, <2>3, VisitedPlace
  <2>5. Visited(v, p, n) = Placed(v, s, q)
    BY Zenon, <2>2, <2>3, <2>4
  <2>6. CodePoint(Placed(v, s, q)) = s[q + 1]
    BY <2>1, CharacterThere
  <2>. QED
    BY Zenon, <2>3, <2>5, <2>6
<1>3. Found(v, p, blank) = {q \in p .. Len(s) - 1 : (CodePoint(Visited(v, p, q - p + 1)) = 32) = blank}
  BY Zenon, <1>1 DEF Found
<1>. QED
  BY Zenon, <1>2, <1>3

LEMMA FndBlnkStep ==
  ASSUME Inv, Bounded, NEW r \in Value, FNDBLNK(r)
  PROVE  Inv' /\ Strings!Next
<1> DEFINE Searched(blank, p, found) ==
             \/ \E q \in found : /\ \A h \in found : q <= h
                                 /\ Move(r, Visited(value[r], p, q - p + 1)) /\ Return(q)
             \/ /\ found = {} /\ Move(r, Visited(value[r], p, value[r].string_chars - p))
                /\ Return(-value[r].string_chars)
<1>1. PICK blank \in BOOLEAN, p \in 0 .. value[r].string_chars :
        Searched(blank, p, Found(value[r], p, blank))
  BY Zenon DEF FNDBLNK
<1>2. PICK v, s : v = value[r] /\ s = Text(value[r])
  OBVIOUS
<1>3. Sound(v, s) /\ s = TextsIn(value)[r]
  BY <1>2, GoodParts DEF Inv
<1>4. v.string_chars = Len(s) /\ Len(s) \in Nat
  BY <1>3, SoundParts
<1>5. p \in 0 .. Len(s) /\ p \in Nat /\ p <= Len(s) /\ p \in 0 .. Len(TextsIn(value)[r])
  <2>1. p \in 0 .. Len(s)
    BY Zenon, <1>1, <1>2, <1>4
  <2>2. p \in 0 .. Len(TextsIn(value)[r])
    BY Zenon, <1>3, <2>1
  <2>. QED
    BY <1>4, <2>1, <2>2
<1>6. PICK hits : hits = {q \in p .. Len(s) - 1 : (s[q + 1] = 32) = blank}
  OBVIOUS
<1>7. Found(value[r], p, blank) = hits
  <2>1. Found(v, p, blank) = {q \in p .. Len(s) - 1 : (s[q + 1] = 32) = blank}
    BY <1>3, <1>5, FoundThere
  <2>. QED
    BY Zenon, <1>2, <1>6, <2>1
<1>8. hits = {q \in p .. Len(TextsIn(value)[r]) - 1 : (TextsIn(value)[r][q + 1] = 32) = blank}
  BY Zenon, <1>3, <1>6
<1>9. Searched(blank, p, hits)
  BY Zenon, <1>1, <1>7
<1>10. ASSUME NEW q \in hits, \A h \in hits : q <= h,
              Move(r, Visited(value[r], p, q - p + 1)), Return(q)
       PROVE  Inv' /\ Strings!Next
  <2>1. q \in p .. Len(s) - 1
    BY Zenon, <1>6, <1>10
  <2>2. q \in Nat /\ q < Len(s) /\ q - p + 1 \in Nat /\ q - p + 1 # 0
        /\ p + (q - p + 1) <= Len(s) /\ p + (q - p + 1) - 1 = q
    BY <1>4, <1>5, <2>1
  <2>3. PICK n : n = q - p + 1
    OBVIOUS
  <2>4. Visited(v, p, n) = IF n = 0 THEN v ELSE Placed(v, s, p + n - 1)
    BY <1>3, <1>5, <2>2, <2>3, VisitedPlace
  <2>5. Visited(v, p, n) = Placed(v, s, q)
    BY Zenon, <2>2, <2>3, <2>4
  <2>6. value' = [value EXCEPT ![r] = Placed(value[r], Text(value[r]), q)] /\ result' = q
    BY Zenon, <1>2, <1>10, <2>3, <2>5 DEF Move, Return
  <2>7. Good(value') /\ Sought(r, q)
    BY <1>2, <2>2, <2>6, Moved
  <2>8. Finds(r, p, hits)
    BY Zenon, <1>10, <2>6, <2>7 DEF Finds
  <2>9. Strings!Next
    BY <1>5, <1>8, <2>8, FindMapped
  <2>. QED
    BY <2>2, <2>6, <2>7, <2>9 DEF Inv
<1>11. ASSUME hits = {}, Move(r, Visited(value[r], p, value[r].string_chars - p)),
              Return(-value[r].string_chars)
       PROVE  Inv' /\ Strings!Next
  <2>1. Len(s) - p \in Nat /\ p + (Len(s) - p) <= Len(s) /\ p + (Len(s) - p) - 1 = Len(s) - 1
    BY <1>4, <1>5
  <2>2. PICK n : n = Len(s) - p
    OBVIOUS
  <2>3. Visited(v, p, n) = IF n = 0 THEN v ELSE Placed(v, s, p + n - 1)
    <3>1. n \in Nat /\ p + n <= Len(s)
      BY <2>1, <2>2
    <3>. QED
      BY <1>3, <1>5, <3>1, VisitedPlace
  <2>4. value' = [value EXCEPT ![r] = Visited(v, p, n)] /\ result' = -Len(TextsIn(value)[r])
    BY Zenon, <1>2, <1>3, <1>4, <1>11, <2>2 DEF Move, Return
  <2>5. result' \in Int
    <3>1. result' = -Len(s)
      BY Zenon, <1>3, <2>4
    <3>. QED
      BY <1>4, <3>1
  <2>6. CASE n = 0
    <3>1. Visited(v, p, n) = value[r]
      BY Zenon, <1>2, <2>3, <2>6
    <3>2. value \in [Value -> StringPart]
      BY DEF Inv, Good
    <3>3. value' = value
      BY <2>4, <3>1, <3>2
    <3>4. Stays /\ Good(value')
      BY Zenon, <3>3 DEF Stays, Inv
    <3>5. ~ (p < Len(TextsIn(value)[r]))
      BY <1>3, <1>4, <1>5, <2>2, <2>6
    <3>6. Finds(r, p, hits)
      BY Zenon, <1>11, <2>4, <3>4, <3>5 DEF Finds
    <3>7. Strings!Next
      BY <1>5, <1>8, <3>6, FindMapped
    <3>. QED
      BY <2>5, <3>4, <3>7 DEF Inv
  <2>7. CASE n # 0
    <3>1. PICK k : k = Len(s) - 1
      OBVIOUS
    <3>2. k \in Nat /\ k < Len(s)
      BY <1>4, <1>5, <2>2, <2>7, <3>1
    <3>3. Visited(v, p, n) = Placed(v, s, k)
      BY Zenon, <2>1, <2>2, <2>3, <2>7, <3>1
    <3>4. value' = [value EXCEPT ![r] = Placed(value[r], Text(value[r]), k)]
      BY Zenon, <1>2, <2>4, <3>3
    <3>5. Good(value') /\ Sought(r, k)
      BY <1>2, <3>2, <3>4, Moved
    <3>6. p < Len(TextsIn(value)[r])
      BY <1>3, <1>4, <1>5, <2>2, <2>7
    <3>7. Finds(r, p, hits)
      BY Zenon, <1>3, <1>11, <2>4, <3>1, <3>5, <3>6 DEF Finds
    <3>8. Strings!Next
      BY <1>5, <1>8, <3>7, FindMapped
    <3>. QED
      BY <2>5, <3>5, <3>8 DEF Inv
  <2>. QED
    BY Zenon, <2>6, <2>7
<1>. QED
  BY Zenon, <1>9, <1>10, <1>11


-----------------------------------------------------------------------------
(* Where the writes end *)

(* v is new, and what was written to it ends behind the buffer only if     *)
(* that was so, or if it was appended to itself.                           *)
Kept(new, old) ==
  new.written = old.written /\ new.string_buffer_length = old.string_buffer_length
Fits(new, old) ==
  Overrun(new) => Kept(new, old) \/ \E gap \in BOOLEAN : new = string_append_itself(old, gap)
AllFit == \A r \in Value : Fits(value'[r], value[r])

LEMMA ExtendedFits ==
  ASSUME NEW v \in StringPart, NEW length \in Nat
  PROVE  /\ extend_string_buffer(v, length) \in StringPart
         /\ ~Overrun(extend_string_buffer(v, length))
<1> DEFINE e == extend_string_buffer(v, length)
<1>1. e \in StringPart /\ e.written = length /\ length <= e.string_buffer_length
  BY Extended
<1> HIDE DEF e
<1>2. e.string_buffer_length \in Nat
  BY <1>1 DEF StringPart
<1>3. ~Overrun(e)
  BY <1>1, <1>2 DEF Overrun
<1>. QED
  BY Zenon, <1>1, <1>3 DEF e

LEMMA FilledFits ==
  ASSUME NEW e, ~Overrun(e), NEW w, Kept(w, e)
  PROVE  ~Overrun(w)
  BY Zenon DEF Kept, Overrun

LEMMA SetConstFits ==
  ASSUME NEW v \in StringPart, NEW w, w.string_length \in Nat
  PROVE  ~Overrun(set_const_string(v, w))
<1> DEFINE e == extend_string_buffer(v, w.string_length)
<1>1. e \in StringPart /\ ~Overrun(e)
  BY ExtendedFits
<1>2. set_const_string(v, w)
        = Rewound([e EXCEPT !.string_value = w.string_value, !.string_chars = w.string_chars])
  BY DEF set_const_string
<1> HIDE DEF e
<1>3. Kept(set_const_string(v, w), e)
  BY <1>1, <1>2 DEF StringPart, Rewound, Kept
<1>. QED
  BY Zenon, <1>1, <1>3, FilledFits

LEMMA AppendFits ==
  ASSUME NEW v \in StringPart, NEW w \in StringPart, NEW gap
  PROVE  ~Overrun(string_append(v, gap, w))
<1> DEFINE length == v.string_length + Len(Gap(gap)) + w.string_length
           e == extend_string_buffer(v, length)
<1>1. length \in Nat
  <2>1. Len(Gap(gap)) \in Nat
    BY GapBytes, LenProperties
  <2>. QED
    BY <2>1 DEF StringPart
<1>2. e \in StringPart /\ ~Overrun(e)
  BY <1>1, ExtendedFits
<1>3. string_append(v, gap, w)
        = Rewound([e EXCEPT !.string_value = @ \o Gap(gap) \o w.string_value,
                            !.string_chars = @ + Len(Gap(gap)) + w.string_chars])
  BY DEF string_append
<1> HIDE DEF e
<1>4. Kept(string_append(v, gap, w), e)
  BY <1>2, <1>3 DEF StringPart, Rewound, Kept
<1>. QED
  BY Zenon, <1>2, <1>4, FilledFits

LEMMA ConcatFits ==
  ASSUME NEW v \in StringPart, NEW w, NEW x, w.string_length \in Nat, x.string_length \in Nat, NEW gap
  PROVE  ~Overrun(string_concat(v, w, gap, x))
<1> DEFINE length == w.string_length + Len(Gap(gap)) + x.string_length
           y == string_concat(v, w, gap, x)
<1>1. length \in Nat
  <2>1. Len(Gap(gap)) \in Nat
    BY GapBytes, LenProperties
  <2>. QED
    BY <2>1
<1> HIDE DEF length
<1>2. buffer_size(length) \in Nat /\ length <= buffer_size(length)
  BY <1>1, BufferLarge
<1>3. y.written = length /\ y.string_buffer_length = buffer_size(length)
  BY DEF StringPart, string_concat, Rewound, length
<1> HIDE DEF y
<1>4. ~Overrun(y)
  BY <1>1, <1>2, <1>3 DEF Overrun
<1>. QED
  BY Zenon, <1>4 DEF y

LEMMA ConcatCharFits ==
  ASSUME NEW v \in StringPart, NEW c \in Character
  PROVE  ~Overrun(string_concat_char(v, c))
<1> DEFINE char == utf8catcodepoint(c)
           e == extend_string_buffer(v, v.string_length + Len(char))
<1>1. v.string_length + Len(char) \in Nat
  <2>1. Len(char) \in Nat
    BY Characters, CharacterBytes
  <2>. QED
    BY <2>1 DEF StringPart
<1> HIDE DEF char
<1>2. e \in StringPart /\ ~Overrun(e)
  BY <1>1, ExtendedFits
<1>3. string_concat_char(v, c)
        = [e EXCEPT !.string_pos = v.string_length, !.string_char_pos = v.string_chars,
                    !.string_value = @ \o char, !.string_chars = @ + 1]
  BY Zenon DEF string_concat_char, char
<1> HIDE DEF e
<1>4. Kept(string_concat_char(v, c), e)
  BY <1>2, <1>3 DEF StringPart, Kept
<1>. QED
  BY Zenon, <1>2, <1>4, FilledFits

LEMMA CopyFits ==
  ASSUME NEW v \in StringPart, NEW w \in StringPart
  PROVE  ~Overrun(copy_string_value(v, w))
<1> DEFINE none == [v EXCEPT !.string_length = 0, !.written = 0, !.allocated = FALSE,
                             !.string_buffer_length = 0]
           e == IF w.string_length # 0 THEN extend_string_buffer(v, w.string_length) ELSE none
<1>1. e \in StringPart /\ ~Overrun(e)
  <2>1. w.string_length \in Nat
    BY DEF StringPart
  <2>2. none \in StringPart /\ none.written = 0 /\ none.string_buffer_length = 0
    BY DEF StringPart
  <2> HIDE DEF none
  <2>3. ~Overrun(none)
    BY <2>2 DEF Overrun
  <2>. QED
    BY <2>1, <2>2, <2>3, ExtendedFits
<1>2. copy_string_value(v, w)
        = [e EXCEPT !.string_value = w.string_value, !.string_chars = w.string_chars,
                    !.string_pos = w.string_pos, !.string_char_pos = w.string_char_pos]
  BY Zenon DEF copy_string_value
<1> HIDE DEF e
<1>3. Kept(copy_string_value(v, w), e)
  BY <1>1, <1>2 DEF StringPart, Kept
<1>. QED
  BY Zenon, <1>1, <1>3, FilledFits

LEMMA PlacedKept ==
  ASSUME NEW v \in StringPart, NEW s, NEW k
  PROVE  Fits(Placed(v, s, k), v)
  BY PlacedParts DEF Fits, Kept

LEMMA SameFits ==
  ASSUME NEW v
  PROVE  Fits(v, v)
  BY DEF Fits, Kept

LEMMA RoomFits ==
  ASSUME NEW w, NEW v, ~Overrun(w)
  PROVE  Fits(w, v)
  BY Zenon DEF Fits

LEMMA FitsUpdated ==
  ASSUME Inv, NEW r \in Value, NEW w, value' = [value EXCEPT ![r] = w], Fits(w, value[r])
  PROVE  AllFit
<1>1. value \in [Value -> StringPart]
  BY DEF Inv, Good
<1>2. value'[r] = w /\ \A q \in Value : q # r => value'[q] = value[q]
  BY <1>1
<1>. QED
  BY Zenon, <1>2, SameFits DEF AllFit

LEMMA ConstLength ==
  ASSUME NEW t \in Literal
  PROVE  Const(t).string_length \in Nat
<1>1. t \in Seq(Character)
  BY StringAssumption
<1>. QED
  BY <1>1, ConstHolds, HoldsParts

LEMMA WriteFits ==
  ASSUME Inv, NEW r \in Value, LOAD(r) \/ COPY(r) \/ APPEND(r) \/ CONCAT(r) \/ APPENDCHAR(r)
  PROVE  AllFit
<1>1. \A q \in Value : value[q] \in StringPart /\ value[q].string_length \in Nat
  BY DEF Inv, Good, StringPart
<1>2. ASSUME NEW w, Put(r, w), ~Overrun(w) \/ \E gap \in BOOLEAN : w = string_append_itself(value[r], gap)
      PROVE  AllFit
  <2>1. value' = [value EXCEPT ![r] = w]
    BY Zenon, <1>2 DEF Put, Move
  <2>2. Fits(w, value[r])
    BY Zenon, <1>2 DEF Fits
  <2>. QED
    BY <2>1, <2>2, FitsUpdated
<1>3. CASE LOAD(r)
  <2>1. PICK t \in Literal : Put(r, set_const_string(value[r], Const(t)))
    BY Zenon, <1>3 DEF LOAD
  <2>2. ~Overrun(set_const_string(value[r], Const(t)))
    BY <1>1, ConstLength, SetConstFits
  <2>. QED
    BY Zenon, <1>2, <2>1, <2>2
<1>4. CASE COPY(r)
  <2>1. PICK q \in Value : Put(r, copy_string_value(value[r], value[q]))
    BY Zenon, <1>4 DEF COPY
  <2>2. ~Overrun(copy_string_value(value[r], value[q]))
    BY <1>1, CopyFits
  <2>. QED
    BY Zenon, <1>2, <2>1, <2>2
<1>5. CASE APPEND(r)
  <2>0. PICK gap \in BOOLEAN, q \in Value : \E w :
          Put(r, w) /\ (w = string_append(value[r], gap, value[q]) \/ w = string_append_itself(value[r], gap))
    BY Zenon, <1>5 DEF APPEND
  <2>1. PICK w :
          Put(r, w) /\ (w = string_append(value[r], gap, value[q]) \/ w = string_append_itself(value[r], gap))
    BY Zenon, <2>0
  <2>2. ~Overrun(string_append(value[r], gap, value[q]))
    BY <1>1, AppendFits
  <2>. QED
    BY Zenon, <1>2, <2>1, <2>2
<1>6. CASE CONCAT(r)
  <2>1. ASSUME NEW x, NEW y, NEW gap, x.string_length \in Nat, y.string_length \in Nat,
               Put(r, string_concat(value[r], x, gap, y))
        PROVE  AllFit
    <3>1. ~Overrun(string_concat(value[r], x, gap, y))
      BY <1>1, <2>1, ConcatFits
    <3>. QED
      BY Zenon, <1>2, <2>1, <3>1
  <2>2. PICK q \in Value, gap \in BOOLEAN :
          \/ \E u \in Value : Put(r, string_concat(value[r], value[q], gap, value[u]))
          \/ \E t \in Literal : \/ Put(r, string_concat(value[r], value[q], gap, Const(t)))
                               \/ Put(r, string_concat(value[r], Const(t), gap, value[q]))
    BY Zenon, <1>6 DEF CONCAT
  <2>. QED
    BY Zenon, <1>1, <2>1, <2>2, ConstLength
<1>7. CASE APPENDCHAR(r)
  <2>1. PICK c \in Character : Put(r, string_concat_char(value[r], c))
    BY Zenon, <1>7 DEF APPENDCHAR
  <2>2. ~Overrun(string_concat_char(value[r], c))
    BY <1>1, ConcatCharFits
  <2>. QED
    BY Zenon, <1>2, <2>1, <2>2
<1>. QED
  BY <1>3, <1>4, <1>5, <1>6, <1>7

(* Taking a character moves the position of the source first.              *)
LEMMA TakeFits ==
  ASSUME Inv, NEW r \in Value, CONCCHAR(r)
  PROVE  AllFit
<1> DEFINE Taken(q, p) ==
             value' = [[value EXCEPT ![q] = string_set_byte_pos(value[q], p)] EXCEPT
                         ![r] = string_concat_char(@, CodePoint(string_set_byte_pos(value[q], p)))]
<1>0. PICK q \in Value : \E p \in Positions(q) : Taken(q, p)
  BY Zenon DEF CONCCHAR
<1>1. PICK p \in Positions(q) : Taken(q, p)
  BY Zenon, <1>0
<1>2. PICK s, v : s = Text(value[q]) /\ v = string_set_byte_pos(value[q], p)
  OBVIOUS
<1>3. Sound(value[q], s) /\ p \in Nat /\ p < Len(s) /\ value[q] \in StringPart
  BY <1>2, GoodParts, PositionsAre DEF Inv
<1>4. v = Placed(value[q], s, p) /\ Sound(v, s)
  BY <1>2, <1>3, SetBytePos, SoundPlaced
<1>5. PICK c : c = CodePoint(v)
  OBVIOUS
<1>6. c \in Character
  <2>1. c = s[p + 1]
    BY <1>3, <1>4, <1>5, CharacterThere
  <2>2. s \in Seq(Character)
    BY <1>3, SoundParts
  <2>. QED
    BY <1>3, <2>1, <2>2
<1>7. PICK placed : placed = [value EXCEPT ![q] = v]
  OBVIOUS
<1>8. /\ placed \in [Value -> StringPart] /\ placed[q] = v
      /\ \A u \in Value : u # q => placed[u] = value[u]
  <2>1. value \in [Value -> StringPart] /\ v \in StringPart
    BY <1>4, SoundParts DEF Inv, Good
  <2>. QED
    BY <1>7, <2>1
<1>9. value' = [placed EXCEPT ![r] = string_concat_char(placed[r], c)]
  BY Zenon, <1>1, <1>2, <1>5, <1>7
<1>10. PICK w : w = string_concat_char(placed[r], c)
  OBVIOUS
<1>11. ~Overrun(w)
  BY <1>6, <1>8, <1>10, ConcatCharFits
<1>12. value'[r] = w /\ \A u \in Value : u # r => value'[u] = placed[u]
  BY <1>8, <1>9, <1>10
<1>13. Fits(v, value[q])
  BY <1>3, <1>4, PlacedKept
<1>. QED
  BY Zenon, <1>8, <1>11, <1>12, <1>13, RoomFits, SameFits DEF AllFit

(* The other instructions move a position, or no more than look.           *)
LEMMA MoveFits ==
  ASSUME Inv, NEW r \in Value, SETSTRPOS(r) \/ STRCHAR(r) \/ FNDBLNK(r)
  PROVE  AllFit
<1> DEFINE v == value[r]
           s == Text(v)
<1>1. Sound(v, s) /\ v \in StringPart /\ v.string_chars = Len(s) /\ Len(s) \in Nat
  BY GoodParts, PositionsAre DEF Inv
<1>2. ASSUME NEW k, Move(r, Placed(v, s, k)) PROVE AllFit
  <2>1. value' = [value EXCEPT ![r] = Placed(v, s, k)] /\ Fits(Placed(v, s, k), value[r])
    BY Zenon, <1>1, <1>2, PlacedKept DEF Move
  <2>. QED
    BY Zenon, <2>1, FitsUpdated
<1>3. CASE SETSTRPOS(r) \/ STRCHAR(r)
  <2>1. PICK p \in Positions(r) : Move(r, string_set_byte_pos(v, p))
    BY Zenon, <1>3 DEF SETSTRPOS, STRCHAR, Put
  <2>2. p \in Nat /\ p < Len(s)
    BY PositionsAre
  <2>3. string_set_byte_pos(v, p) = Placed(v, s, p)
    BY <1>1, <2>2, SetBytePos
  <2>. QED
    BY Zenon, <1>2, <2>1, <2>3
<1>4. CASE FNDBLNK(r)
  <2>1. ASSUME NEW p \in Nat, NEW n \in Nat, p + n <= Len(s), Move(r, Visited(v, p, n))
        PROVE  AllFit
    <3>1. Visited(v, p, n) = IF n = 0 THEN v ELSE Placed(v, s, p + n - 1)
      BY <1>1, <2>1, VisitedPlace
    <3>2. CASE n = 0
      <4>1. Move(r, v)
        BY Zenon, <2>1, <3>1, <3>2
      <4>. QED
        BY Zenon, <4>1, FitsUpdated, SameFits DEF Move
    <3>3. CASE n # 0
      <4>1. Move(r, Placed(v, s, p + n - 1))
        BY Zenon, <2>1, <3>1, <3>3
      <4>. QED
        BY Zenon, <1>2, <4>1
    <3>. QED
      BY <3>2, <3>3
  <2>2. PICK blank \in BOOLEAN, p \in 0 .. v.string_chars :
          \/ \E q \in Found(v, p, blank) : Move(r, Visited(v, p, q - p + 1))
          \/ Move(r, Visited(v, p, v.string_chars - p))
    BY Zenon, <1>4 DEF FNDBLNK
  <2>3. p \in Nat /\ p <= Len(s) /\ v.string_chars - p \in Nat /\ p + (v.string_chars - p) <= Len(s)
    BY <1>1, <2>2
  <2>4. ASSUME NEW q \in Found(v, p, blank)
        PROVE  q - p + 1 \in Nat /\ p + (q - p + 1) <= Len(s)
    <3>1. q \in p .. Len(s) - 1
      BY Zenon, <1>1, <2>4 DEF Found
    <3>. QED
      BY <1>1, <2>3, <3>1
  <2>. QED
    BY Zenon, <2>1, <2>2, <2>3, <2>4
<1>. QED
  BY <1>3, <1>4

LEMMA NextFits ==
  ASSUME Inv, [Next]_vars
  PROVE  AllFit
<1>1. CASE value' = value
  BY Zenon, <1>1, SameFits DEF AllFit
<1>2. CASE Next
  <2>1. PICK r \in Value :
          \/ LOAD(r) \/ COPY(r) \/ APPEND(r) \/ CONCAT(r) \/ APPENDCHAR(r) \/ CONCCHAR(r)
          \/ SETSTRPOS(r) \/ STRCHAR(r) \/ STRCHAR_HERE(r) \/ STRLEN(r) \/ GETSTRPOS(r)
          \/ FNDBLNK(r) \/ SEQ(r)
    BY <1>2 DEF Next
  <2>2. CASE LOAD(r) \/ COPY(r) \/ APPEND(r) \/ CONCAT(r) \/ APPENDCHAR(r)
    BY <2>2, WriteFits
  <2>3. CASE CONCCHAR(r)
    BY <2>3, TakeFits
  <2>4. CASE SETSTRPOS(r) \/ STRCHAR(r) \/ FNDBLNK(r)
    BY <2>4, MoveFits
  <2>5. CASE STRCHAR_HERE(r) \/ STRLEN(r) \/ GETSTRPOS(r) \/ SEQ(r)
    BY Zenon, <1>1, <2>5 DEF STRCHAR_HERE, STRLEN, GETSTRPOS, SEQ
  <2>. QED
    BY <2>1, <2>2, <2>3, <2>4, <2>5
<1>. QED
  BY <1>1, <1>2 DEF vars

-----------------------------------------------------------------------------
(* Theorems *)

LEMMA InitSafe == Init => Inv /\ Strings!Init
<1> SUFFICES ASSUME Init PROVE Inv /\ Strings!Init
  OBVIOUS
<1>1. /\ value = [r \in Value |-> NoString] /\ result = 0
  BY DEF Init
<1>2. ASSUME NEW r \in Value
      PROVE  << >> \in Texts
  <2>1. << >> \in Seq(Character) /\ Len(<< >>) = 0 /\ MaxChars[r] \in Nat
    BY StringAssumption, EmptySeq
  <2>2. Len(<< >>) <= MaxChars[r]
    BY <2>1
  <2>. QED
    BY <2>1, <2>2, TextsAre
<1>3. Good(value)
  <2>1. NoString \in StringPart
    BY NoStringSound, SoundParts
  <2>2. \A r \in Value : \E s \in Texts : Sound(value[r], s)
    BY <1>1, <1>2, NoStringSound
  <2>. QED
    BY <1>1, <2>1, <2>2 DEF Good
<1>4. ASSUME NEW r \in Value
      PROVE  Text(value[r]) = << >> /\ value[r].string_char_pos = 0
  <2>1. value[r] = NoString
    BY <1>1
  <2>2. Text(NoString) = << >>
    BY <1>2, NoStringSound, TextIs
  <2>3. NoString.string_char_pos = 0
    BY DEF NoString
  <2>. QED
    BY Zenon, <2>1, <2>2, <2>3
<1>5. Strings!Init
  BY <1>1, <1>4 DEF Strings!Init
<1>. QED
  BY <1>1, <1>3, <1>5 DEF Inv

(* Every step keeps it, and is a step of StringSpec.                       *)
LEMMA NextSafe ==
  ASSUME Inv, [Next]_vars
  PROVE  Inv' /\ [Strings!Next]_(Strings!vars)
<1>1. CASE Next
  <2>1. Bounded
    BY <1>1 DEF Next, Bounded
  <2>2. PICK r \in Value :
          \/ LOAD(r) \/ COPY(r) \/ APPEND(r) \/ CONCAT(r) \/ APPENDCHAR(r) \/ CONCCHAR(r)
          \/ SETSTRPOS(r) \/ STRCHAR(r) \/ STRCHAR_HERE(r) \/ STRLEN(r) \/ GETSTRPOS(r)
          \/ FNDBLNK(r) \/ SEQ(r)
    BY <1>1 DEF Next
  <2>3. CASE LOAD(r) \/ COPY(r) \/ APPEND(r) \/ CONCAT(r) \/ APPENDCHAR(r) \/ CONCCHAR(r)
    BY <2>1, <2>3, LoadStep, CopyStep, AppendStep, ConcatStep, AppendCharStep, ConcCharStep
  <2>4. CASE SETSTRPOS(r) \/ STRCHAR(r) \/ STRCHAR_HERE(r) \/ STRLEN(r) \/ GETSTRPOS(r)
    BY <2>1, <2>4, SetStrPosStep, StrCharStep, StrCharHereStep, StrLenStep, GetStrPosStep
  <2>5. CASE FNDBLNK(r) \/ SEQ(r)
    BY <2>1, <2>5, FndBlnkStep, SeqStep
  <2>. QED
    BY <2>2, <2>3, <2>4, <2>5
<1>2. CASE UNCHANGED vars
  <2>1. value' = value /\ result' = result
    BY <1>2 DEF vars
  <2>2. UNCHANGED Strings!vars
    BY Zenon, <2>1 DEF Strings!vars
  <2>3. Good(value') /\ result' \in Int
    BY Zenon, <2>1 DEF Inv
  <2>. QED
    BY <2>2, <2>3 DEF Inv
<1>. QED
  BY <1>1, <1>2

(* The inductive invariant: every value is sound for some text.            *)
THEOREM Invariant == Spec => []Inv
BY InitSafe, NextSafe, PTL DEF Spec

(* The parts of a value keep their types.                                  *)
THEOREM TypeCorrect == Spec => []TypeOK
<1>1. Inv => TypeOK
  BY DEF Inv, Good, TypeOK
<1>. QED
  BY <1>1, Invariant, PTL

(* A value owns a buffer that is large enough for the bytes in it.         *)
THEOREM StringsHeld == Spec => []StringInBuffer
<1>1. Inv => StringInBuffer
  <2> SUFFICES ASSUME Inv, NEW r \in Value
               PROVE  /\ value[r].string_length = Len(value[r].string_value)
                      /\ value[r].string_length > 0 => value[r].allocated
                      /\ value[r].allocated => value[r].string_length <= value[r].string_buffer_length
    BY Zenon DEF StringInBuffer
  <2>1. Sound(value[r], Text(value[r]))
    BY GoodParts DEF Inv
  <2>2. value[r].string_length = Len(value[r].string_value) /\ BufferSound(value[r])
    BY Zenon, <2>1 DEF Sound
  <2>. QED
    BY Zenon, <2>2 DEF BufferSound
<1>. QED
  BY <1>1, Invariant, PTL

(* A write ends behind a buffer only if a string is appended to itself.    *)
THEOREM OnlyItselfOverruns == Spec => OverrunsOnlyItself
<1>1. ASSUME Inv, [Next]_vars
      PROVE  [\A r \in Value :
                Overrun(value'[r]) =>
                  \/ /\ value'[r].written = value[r].written
                     /\ value'[r].string_buffer_length = value[r].string_buffer_length
                  \/ \E gap \in BOOLEAN : value'[r] = string_append_itself(value[r], gap)]_vars
  BY Zenon, <1>1, NextFits DEF AllFit, Fits, Kept
<1>. QED
  BY <1>1, Invariant, PTL DEF Spec, OverrunsOnlyItself

(* The position in bytes is that of the character at the position in       *)
(* characters, whichever way it was moved there.                           *)
THEOREM CursorPlaced == Spec => []CursorAtCharacter
<1>1. Inv => CursorAtCharacter
  <2> SUFFICES ASSUME Inv, NEW r \in Value
               PROVE  LET v == value[r] text == Text(v) IN
                      /\ WellFormed(v) /\ v.string_chars = Len(text)
                      /\ v.string_char_pos < v.string_chars \/ (v.string_chars = 0 /\ v.string_char_pos = 0)
                      /\ v.string_pos = Len(Encode(SubSeq(text, 1, v.string_char_pos)))
    BY Zenon DEF CursorAtCharacter
  <2>1. Sound(value[r], Text(value[r])) /\ WellFormed(value[r])
    BY GoodParts DEF Inv
  <2>. QED
    BY Zenon, <2>1 DEF Sound, Within, Offset
<1>. QED
  BY <1>1, Invariant, PTL

(* The instructions do what StringSpec says of characters: the bytes, the  *)
(* buffers and the way to a position are of no account to a program.       *)
THEOREM ImplementsStrings == Spec => StringsAsSpecified
BY InitSafe, NextSafe, Invariant, PTL DEF Spec, StringsAsSpecified, Strings!Spec


=============================================================================
