---------------------------- MODULE MCProofParts ----------------------------
(***************************************************************************)
(* The parts of the proof backend that proofs rest on, in one run.  A      *)
(* behaviour is about one of them, named by part:                          *)
(*   "cache"    the setups that all threads share                          *)
(*   "hash"     the BLAKE2b circuit against the prover's library           *)
(*   "codec"    the byte formats                                           *)
(*   "layout"   the layout of a constraint system as a circuit             *)
(* The variables of the others are Unused, or empty for the hash, or those *)
(* of a cache that nobody has asked, throughout.                           *)
(***************************************************************************)
EXTENDS Blake2bStream, Codecs, R1csLayout, IpaSetupCache

Unused == "unused"

----------------------------------------------------------------------------
(* hash: the real block length, and messages that end before, at and after *)
(* the end of a block, some of them in zeros.                              *)

MCStreams == {[k \in 1 .. 300 |-> 1], [k \in 1 .. 300 |-> IF k % 64 < 32 THEN 1 ELSE 0]}
MCPieces == {0, 1, 32, 127, 128}

hashVars == <<stream, length, chain, buffer, digest, index, h>>

----------------------------------------------------------------------------
(* codec: no round and one; an empty session id; one and two commitments.  *)

Ipa(points) == [points |-> points, a |-> 1, b |-> 0]
CircuitProof(ipa) ==
  [items |-> <<0, 1, 2, 3, 4, 0, 1, 2, 0, 1, 2, 3>>, ipa |-> ipa]

MCEncoded ==
  [ipa     |-> {Ipa(<<>>), Ipa(<<3, 4>>), Ipa(<<3, 4, 0, 1>>)},
   circuit |-> {CircuitProof(Ipa(<<>>)), CircuitProof(Ipa(<<3, 4>>))},
   mask    |-> {[shared |-> <<1, 2>>, mask |-> CircuitProof(Ipa(<<>>)),
                 dh |-> CircuitProof(Ipa(<<3, 4>>))]},
   inputs  |-> {[session |-> session, items |-> <<1, 2, 3, 4, 0>>, polynomial |-> p] :
                  session \in {<<>>, <<9, 8>>}, p \in {<<3>>, <<1, 2>>}}]

----------------------------------------------------------------------------
(* layout: the field has three elements.                                   *)

Entries(weights) == WithEntries(WithDimensions(0, 0), weights)

\* Matrices of one row over a constant and two variables.
As == {<<>>, <<0, 1>> :> 1, <<0, 1>> :> 2 @@ <<0, 2>> :> 1, <<0, 0>> :> 2}
Bs == {<<0, 2>> :> 1, <<0, 0>> :> 1 @@ <<0, 1>> :> 1}
Cs == {<<0, 0>> :> 1, <<0, 2>> :> 2 @@ <<0, 1>> :> 1, <<>>}

\* Two rows, of different dimensions in the three matrices.
TwoRows == [a |-> Entries(<<0, 1>> :> 1 @@ <<1, 2>> :> 1),
            b |-> Entries(<<0, 1>> :> 1 @@ <<1, 0>> :> 1),
            c |-> Entries(<<0, 2>> :> 1)]

MCSystems ==
  {[a |-> Entries(a), b |-> Entries(b), c |-> Entries(c)] : a \in As, b \in Bs, c \in Cs}
    \cup {TwoRows}
MCIndexLists == {<<>>, <<1>>, <<2>>, <<1, 2>>, <<2, 1>>, <<0>>, <<1, 1>>, <<3>>}
MCFullWitnesses == {<<1, x, y>> : x, y \in 0 .. 2} \cup {<<2, 1, 1>>, <<1, 1>>, <<>>}
MCWitnessBlindings == {<<>>, <<1>>, <<2, 0>>}

----------------------------------------------------------------------------

VARIABLE part

HashUnused == stream = <<>> /\ length = 0 /\ chain = <<>> /\ buffer = <<>>
              /\ digest = <<>> /\ index = 0 /\ h = <<>>
CodecUnused == kind = Unused /\ encoded = Unused /\ cells = Unused /\ cellsChanged = Unused
               /\ decoded = NotRead
LayoutUnused == system = Unused /\ listed = Unused /\ laidOut = NotBuilt /\ built = NotBuilt

PartsInit ==
  \/ part = "cache" /\ CacheInit /\ HashUnused /\ CodecUnused /\ LayoutUnused
  \/ part = "hash" /\ Init /\ CacheInit /\ CodecUnused /\ LayoutUnused
  \/ part = "codec" /\ CodecInit /\ CacheInit /\ HashUnused /\ LayoutUnused
  \/ part = "layout" /\ LayoutInit /\ CacheInit /\ HashUnused /\ CodecUnused

PartsNext ==
  /\ \/ part = "cache" /\ CacheNext /\ UNCHANGED <<hashVars, codecVars, layoutVars>>
     \/ part = "hash" /\ Next /\ UNCHANGED <<cacheVars, codecVars, layoutVars>>
     \/ part = "codec" /\ CodecNext /\ UNCHANGED <<cacheVars, hashVars, layoutVars>>
     \/ part = "layout" /\ LayoutNext /\ UNCHANGED <<cacheVars, hashVars, codecVars>>
  /\ UNCHANGED part

partsVars == <<cacheVars, hashVars, codecVars, layoutVars, part>>

PartsSpec == PartsInit /\ [][PartsNext]_partsVars /\ Fairness

=============================================================================
