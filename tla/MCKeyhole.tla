----------------------------- MODULE MCKeyhole ------------------------------
(***************************************************************************)
(* Small programs for the keyhole optimiser.  The rules on branches and    *)
(* the rules on data share no instruction, so each has programs of its     *)
(* own; the data programs have a label and a branch, which are hazards.    *)
(* The first branch programs fit in the queue as a whole, while lines of   *)
(* the other ones leave it before their end.                               *)
(***************************************************************************)
EXTENDS Keyhole

CONSTANTS A, B, f   \* two labels and a procedure

R(n) == [type |-> "r", num |-> n]

Swap(r, s) == Line("swap", << >>, <<r, s>>)
Say(r) == Line("say", << >>, <<r>>)
Concat(op, r, s, t) == Line(op, << >>, <<r, s, t>>)
Call(r, s) == Line("call", <<f>>, <<r, s>>)
Branch(op, l, r) == Line(op, <<l>>, <<r>>)

BranchLines ==
  {Label(A), Label(B), Line("br", <<A>>, << >>), Line("brtf", <<B, A>>, <<R(1)>>)}
  \cup {Branch(op, l, R(1)) : op \in {"brt", "brf"}, l \in {A, B}}
WindowLines ==
  {Label(A), Label(B), Line("br", <<A>>, << >>), Branch("brt", B, R(1)),
   Branch("brf", A, R(1)), Branch("brt", B, R(2))}

DataLines ==
  {Swap(R(1), R(2)), Swap(R(2), R(1)), Swap(R(1), R(3))}
  \cup {Concat("concat", R(1), R(1), R(2)), Concat("concat", R(1), R(2), R(1)),
        Concat("concat", R(1), R(1), R(1)), Concat("sconcat", R(2), R(2), R(3))}
  \cup {Say(R(1)), Say(R(3)), Call(R(1), R(1))}
  \cup {Label(A), Branch("brt", A, R(1))}

MCRegister == {R(1), R(2), R(3)}
MCTested == {R(1), R(2)}
MCDialect == [branches |-> BranchLines, window |-> WindowLines, data |-> DataLines]
MCMaxLines == [branches |-> 5, window |-> 5, data |-> 4]
MCQueueSize == [branches |-> 5, window |-> 3, data |-> 3]

=============================================================================
