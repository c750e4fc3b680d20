------------------------------ MODULE MCOutbox ------------------------------
(* Small instances of Outbox: a hover with and without an offer and a hover *)
(* that left the window, a pointer move and a move of the next generation,  *)
(* around replies and controls.                                             *)
EXTENDS Outbox

Over == [fam |-> "drop", gen |-> 1, key |-> "over"]
Out == [fam |-> "drop", gen |-> 1, key |-> "out"]
Move(g) == [fam |-> "pointer", gen |-> g, key |-> "move"]

MCMotions == {Over, Out, Move(1), Move(2)}
MCHovers == {Over, Out}
=============================================================================
