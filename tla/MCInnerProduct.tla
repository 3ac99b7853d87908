--------------------------- MODULE MCInnerProduct ---------------------------
(* Instances of InnerProduct for TLC, over the field of five elements. *)
EXTENDS InnerProduct

Four == Deterministic("d", 2)
Two  == Deterministic("d", 1)

MCBases == ToSet(Four.g) \cup ToSet(Four.h) \cup {Four.q}
MCSetups == {Four, Two}

Case(setup, a, b, y) == [setup |-> setup, witness |-> [a |-> a, b |-> b], y |-> y]

\* Two rounds, one and none, with vectors and weights that vanish; a length that
\* is no power of two, zero, or larger than the setup gives no claim.
MCCases ==
  {Case(Four, <<1, 2, 3, 4>>, <<2, 0, 1, 3>>, 2), Case(Two, <<3>>, <<2>>, 4),
   Case(Four, <<1, 2, 3>>, <<1, 1, 1>>, 2), Case(Two, <<>>, <<>>, 2),
   Case(Two, <<1, 2, 3, 4>>, <<2, 0, 1, 3>>, 2), Case(Four, <<1, 3>>, <<2, 0>>, 3)}
    \cup {Case(Two, a, b, y) : a \in {<<0, 0>>, <<0, 2>>}, b \in {<<4, 1>>}, y \in {0, 3}}

=============================================================================
