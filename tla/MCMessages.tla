----------------------------- MODULE MCMessages -----------------------------
(***************************************************************************)
(* An instance of Messages for TLC: lines of spaces, colons, a and B.      *)
(***************************************************************************)
EXTENDS Messages

TwoLetters == {97, 66}

=============================================================================
