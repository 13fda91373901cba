------------------------------ MODULE MCFakeIP ------------------------------
(* FakeIP on small ranges. *)
EXTENDS FakeIP, TLC

Range(last) == [addr |-> 0, last |-> last]
Both(r4, r6) == (4 :> r4) @@ (6 :> r6)

(* Two usable addresses of each family and no fault; two of one family and *)
(* one or none of the other with all of them.                              *)
SomeSetups ==
    {[configs |-> {Both(Range(4), Range(4))}, faults |-> {}],
     [configs |-> {Both(Range(4), Range(3)), Both(Range(4), NoRange)},
      faults |-> {"crash", "moved", "late", "slow"}]}

Sym == Permutations(Caller) \cup Permutations(Domain)
=============================================================================
