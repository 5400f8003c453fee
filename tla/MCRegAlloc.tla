----------------------------- MODULE MCRegAlloc -----------------------------
(* Small instances of RegAlloc.                                            *)
EXTENDS RegAlloc

(* get_regs for calls with one, two and three arguments.                   *)
CallsWithArguments == {2, 3, 4}

(* ... and with none.                                                      *)
AnyCall == {1, 2, 3}
=============================================================================
