--------------------------- MODULE MCCircuitProof ---------------------------
(* Instances of CircuitProof for TLC, over the field of five elements. *)
EXTENDS CircuitProof

Setup(logLen) == CircuitSetup("d", logLen, <<"pallas", "value", 0>>)
Four == Setup(2)
One == Setup(0)

MCBases == ToSet(Four.ipa.g) \cup ToSet(Four.ipa.h)
             \cup {Four.ipa.q, Four.value, Four.blinding}

Entries(weights) == WithEntries(WithDimensions(0, 0), weights)

\* x * y = m, and (x + 1) * x = 2 + m
Product == [a |-> Entries(<<0, 1>> :> 1), b |-> Entries(<<0, 2>> :> 1),
            c |-> Entries(<<0, 3>> :> 1)]
Shifted == [a |-> Entries(<<0, 1>> :> 1 @@ <<0, 0>> :> 1), b |-> Entries(<<0, 1>> :> 1),
            c |-> Entries(<<0, 0>> :> 2 @@ <<0, 2>> :> 1)]

Case(setup, r1cs, indices, full, blindings) ==
  [setup |-> setup, r1cs |-> r1cs, indices |-> indices, full |-> full,
   blindings |-> blindings, altered |-> FALSE]

\* One wire and no padding; three wires and one of padding, of which one value is
\* committed; vectors that solve nothing; a setup that is too small.
SmallCase == Case(One, Product, <<1, 2, 3>>, <<1, 2, 3, 1>>, <<1, 4, 2>>)
MCCases ==
  {[SmallCase EXCEPT !.altered = TRUE],
   Case(One, Product, <<1, 2, 3>>, <<1, 2, 3, 2>>, <<1, 4, 2>>),
   Case(Four, Product, <<1>>, <<1, 2, 1, 2>>, <<3>>),
   Case(Four, Product, <<1>>, <<1, 2, 3, 4>>, <<3>>),
   Case(Four, Shifted, <<2>>, <<1, 3, 0>>, <<0>>),
   Case(One, Product, <<3>>, <<1, 2, 3, 1>>, <<2>>)}

Tape1 == <<1, 2, 3, 4, 0, 1, 3, 2, 2, 4, 1, 3, 0, 2, 4>>
Tape2 == <<0, 0, 0, 0, 0, 0, 0, 0, 0, 0, 0, 0, 1, 1, 1>>
MCTapes == {Tape1, Tape2}

=============================================================================
