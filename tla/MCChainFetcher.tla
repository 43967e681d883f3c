--------------------------- MODULE MCChainFetcher ---------------------------
(***************************************************************************)
(* ChainFetcher for TLC.  The step is 4 and the window one step on each    *)
(* side.  The call ladders have a full grid with sub-grid strikes, a grid  *)
(* off the multiples of the step, one with a hole, one of a single strike, *)
(* and none; put sides match, miss strikes, or have a grid of their own.   *)
(* An answer may hold a row of a call nobody asked for.                    *)
(***************************************************************************)
EXTENDS ChainFetcher

Sides(ce, pe) == [ce |-> ce, pe |-> pe]

MCExpiries == <<"e1", "e2">>

Near == {Sides({8, 10, 12, 16, 20, 24}, {8, 10, 12, 16, 20, 24}),
         Sides({6, 10, 12, 14, 18, 22}, {6, 10, 12, 16, 20}),
         Sides({8, 16, 20, 28}, {6, 10, 16, 20}),
         Sides({}, {8, 12})}
Far  == {Sides({12}, {}), Sides({}, {})}

MCListings == {[e \in {"e1", "e2"} |-> IF e = "e1" THEN near ELSE far] :
                 near \in Near, far \in Far}

MCSpots == {7, 10, 15, 27}

MCStrays    == {[side |-> "CE", strike |-> 40]}
MCUnfetched == {0, 1}
=============================================================================
