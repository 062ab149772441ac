------------------------------ MODULE MCFlexTime ------------------------------
(***************************************************************************)
(* Two goroutines decoding through one Parser of the package, across the   *)
(* turn of a year: text that is a guess, text without a year, text nothing *)
(* reads, NULL, a driver's time, and numbers in range and out of it.       *)
(***************************************************************************)
EXTENDS FlexTime, MCParser

SomeSources ==
    {Text(s) : s \in Inputs}
        \cup {Null, Source("time", [sec |-> 1, nsec |-> 0]), Source("int", 10000), Source("float", Float(42, 0))}

Goroutines == Permutations(Callers)

=============================================================================
