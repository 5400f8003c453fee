----------------------------- MODULE StringSpec -----------------------------
(***************************************************************************)
(* What the string instructions of the RXVM promise a program: a string    *)
(* value is a sequence of characters and a position in it, counted in      *)
(* characters, whatever the bytes are that hold them.                      *)
(***************************************************************************)
EXTENDS Integers, Sequences, FiniteSets

CONSTANTS
  Value,      \* the registers
  Blank,      \* the character ' '
  Character,  \* the code points of a program
  Literal     \* its string constants

VARIABLES chars, cursor, result

vars == <<chars, cursor, result>>

Init ==
  /\ chars = [v \in Value |-> << >>]
  /\ cursor = [v \in Value |-> 0]
  /\ result = 0

-----------------------------------------------------------------------------
(* Writing a string returns nothing. *)

(* A new string is read from its beginning.                                *)
Becomes(v, s) ==
  /\ cursor' = [cursor EXCEPT ![v] = 0]
  /\ chars' = [chars EXCEPT ![v] = s]

Joined(s, gap, t) == s \o (IF gap THEN <<Blank>> ELSE << >>) \o t

Load(v) == \E s \in Literal : Becomes(v, s)
Join(v) ==
  \E gap \in BOOLEAN, w \in Value, s \in Literal \cup {chars[u] : u \in Value} :
    Becomes(v, Joined(chars[w], gap, s)) \/ Becomes(v, Joined(s, gap, chars[w]))

(* A copy is read from where the original is.                              *)
Copy(v) ==
  \E w \in Value :
    /\ cursor' = [cursor EXCEPT ![v] = cursor[w]]
    /\ chars' = [chars EXCEPT ![v] = chars[w]]

(* After a character is added the position is that of the character.       *)
Add(v) ==
  \E c \in Character :
    /\ cursor' = [cursor EXCEPT ![v] = Len(chars[v])]
    /\ chars' = [chars EXCEPT ![v] = Append(@, c)]

(* The character at position p of w is added to v.                         *)
Pick(v) ==
  \E w \in Value : \E p \in 0 .. Len(chars[w]) - 1 :
    /\ cursor' = [[cursor EXCEPT ![w] = p] EXCEPT ![v] = Len(chars[v])]
    /\ chars' = [chars EXCEPT ![v] = Append(@, chars[w][p + 1])]

Write(v) == result' = 0 /\ (Load(v) \/ Join(v) \/ Copy(v) \/ Add(v) \/ Pick(v))

-----------------------------------------------------------------------------
(* Reading moves the position at most. *)

Seek(v, p) == cursor' = [cursor EXCEPT ![v] = p]

SetPosition(v) == result' = 0 /\ \E p \in 0 .. Len(chars[v]) - 1 : Seek(v, p)
CharacterAt(v) == \E p \in 0 .. Len(chars[v]) - 1 : Seek(v, p) /\ result' = chars[v][p + 1]
Here(v) == chars[v] # << >> /\ result' = chars[v][cursor[v] + 1] /\ UNCHANGED cursor
Length(v) == result' = Len(chars[v]) /\ UNCHANGED cursor
Position(v) == result' = cursor[v] /\ UNCHANGED cursor

(* The first position from p on whose character is blank, or is not, or    *)
(* minus the length if there is none.                                      *)
Find(v) ==
  \E p \in 0 .. Len(chars[v]), blank \in BOOLEAN :
    LET hits == {q \in p .. Len(chars[v]) - 1 : (chars[v][q + 1] = Blank) = blank} IN
    \/ \E q \in hits : result' = q /\ Seek(v, q) /\ \A h \in hits : q <= h
    \/ /\ hits = {} /\ result' = -Len(chars[v])
       /\ IF p < Len(chars[v]) THEN Seek(v, Len(chars[v]) - 1) ELSE UNCHANGED cursor

(* Two strings are equal if they have the same characters.                 *)
Equal(v) ==
  \E w \in Value : result' = (IF chars[v] = chars[w] THEN 1 ELSE 0) /\ UNCHANGED cursor

Read(v) ==
  /\ UNCHANGED chars
  /\ \/ SetPosition(v) \/ CharacterAt(v) \/ Here(v) \/ Length(v) \/ Position(v)
     \/ Find(v) \/ Equal(v)

Next == \E v \in Value : Write(v) \/ Read(v)

Spec == Init /\ [][Next]_vars

=============================================================================
