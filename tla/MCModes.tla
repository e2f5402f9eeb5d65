------------------------------- MODULE MCModes -------------------------------
(***************************************************************************)
(* Instances of Modes for TLC: a letter of each type, and lines of up to   *)
(* two letters that each may have a sign before them, with arguments that  *)
(* may be too few or too many.                                             *)
(***************************************************************************)
EXTENDS Modes

CONSTANTS MaxItems, MaxArgs

Items == {<<ch>> : ch \in Letter \cup Other}
             \cup {<<sign, ch>> : sign \in {"+", "-"}, ch \in Letter \cup Other}

MCLine ==
    {[text |-> FlattenSeq(items), argv |-> argv] :
        items \in BoundedSeq(Items, MaxItems), argv \in BoundedSeq(Arg, MaxArgs)}

=============================================================================
