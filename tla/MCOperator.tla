----------------------------- MODULE MCOperator -----------------------------
(* The operator on small instances.                                         *)
EXTENDS BindingPromise, TLC

CONSTANTS b1, b2, d1, d2

PlainSpecs == {PlainSpec}
InfiniteSpecs == {[PlainSpec EXCEPT !.lifetime = "infinite"]}
OddSpecs ==
  {[PlainSpec EXCEPT !.url = "bad"], [PlainSpec EXCEPT !.url = "noScheme", !.areas = "deprecated"],
   [PlainSpec EXCEPT !.provider = FALSE],
   [PlainSpec EXCEPT !.lifetime = "invalid"], [PlainSpec EXCEPT !.valid = FALSE]}
NamedSpecs == {PlainSpec, [PlainSpec EXCEPT !.named = TRUE]}

AllMatch == Bindings \X Data
D1Matches == Bindings \X {d1}
\* At most one failure or restart: states after both are not explored further.
OneMishap == faults + restarts > 0

TokenSymmetry == Permutations(Tokens)
=============================================================================
