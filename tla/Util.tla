-------------------------------- MODULE Util --------------------------------
(***************************************************************************)
(* Names and their case mappings (src/ircd/util.go).  A Go string is a     *)
(* sequence of code points, so that the two foldings the daemon uses can   *)
(* be compared: the IRC one, ToLower, takes [ \ ] ^ to { | } ~, and the    *)
(* one of package strings, StringsToLower, leaves them alone.  Only ASCII  *)
(* strings are considered.                                                 *)
(***************************************************************************)
EXTENDS Integers, Sequences

isletter(r) == r \in 97..122 \/ r \in 65..90
isdigit(r) == r \in 48..57
isspecial(r) == r \in 91..96 \/ r \in 123..125

\* The characters of a nick.
NameRune(r) == isletter(r) \/ isdigit(r) \/ isspecial(r) \/ r = 45

\* 'A'..'^' onto 'a'..'~'.
LowerRune(r) == IF r \in 65..94 THEN r + 32 ELSE r

ToLower(str) == [i \in DOMAIN str |-> LowerRune(str[i])]

\* strings.ToLower of the Go library, on ASCII.
StringsLowerRune(r) == IF r \in 65..90 THEN r + 32 ELSE r
StringsToLower(str) == [i \in DOMAIN str |-> StringsLowerRune(str[i])]

ValidNick(str) ==
    /\ Len(str) > 0
    /\ ~isdigit(str[1]) /\ str[1] # 45
    /\ \A i \in DOMAIN str : NameRune(str[i])

=============================================================================
