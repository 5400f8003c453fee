--------------------------- MODULE MCStringValue ----------------------------
(***************************************************************************)
(* Two registers, a blank, and a character of three bytes.  Six            *)
(* characters let a position be reached from all four sides: by the next   *)
(* one, from where it is, from the beginning and from the end.             *)
(***************************************************************************)
EXTENDS StringValue

euro == 8364

MCCharacter == {32, euro}
MCLiteral == {<< >>, <<32, euro, 32>>}

CONSTANTS r1, r2
MCMaxChars == (r1 :> 6) @@ (r2 :> 1)

(* Twelve bytes appended to themselves end at 36, the smallest buffer of   *)
(* the source at 32.                                                       *)
AppendMaxChars == (r1 :> 8) @@ (r2 :> 0)
=============================================================================
