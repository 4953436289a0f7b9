----------------------------- MODULE MCRunLoop -----------------------------
(* Instances of RunLoop for TLC: all tool calls mutate, every
   other one does, or none does. *)
EXTENDS RunLoop

AllCalls == CallIds
NoCalls  == {}
OddCalls == {c \in CallIds : c % 2 = 1}
=============================================================================
