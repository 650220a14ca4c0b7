------------------------------ MODULE MCSema ------------------------------
(* The instances of Sema that TLC checks. *)
EXTENDS SemaProps

\* `int` and `unsigned long int`: the parser lists `int` first.
IntAndLong == {<<"int">>, <<"unsigned", "long", "int">>}
IntOnly == {<<"int">>}
=============================================================================
