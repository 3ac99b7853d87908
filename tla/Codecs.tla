------------------------------- MODULE Codecs -------------------------------
(***************************************************************************)
(* The byte formats of golden-proofs: the public inputs of a proof         *)
(* (types.rs), an inner-product proof (pallas/ipa.rs), a circuit proof     *)
(* (pallas/circuit.rs), which holds one, and the proof of a mask           *)
(* (pallas.rs), which holds two circuit proofs.                            *)
(*                                                                         *)
(* A buffer is a sequence of cells.  A cell stands for the fixed number of *)
(* bytes of one item: a magic and version, a scalar, a point, a length, an *)
(* id, or one byte of a session id.  Not every cell is a scalar, a point   *)
(* or an id: only canonical ones are read.                                 *)
(*                                                                         *)
(* A reader that may fail yields a singleton or the empty set, and a       *)
(* reader of a part yields the offset behind it with its value.            *)
(***************************************************************************)
EXTENDS Integers, Sequences, FiniteSets, SequencesExt

CONSTANTS CellMax,          \* the largest cell, and the largest usize
          CapacityMax,      \* the most points a vector may be asked to have room for
          ScalarCells,      \* the cells that are canonical scalars
          PointCells,       \* the cells that are canonical points
          Encoded,          \* kind -> values to encode
          AlteredCells,     \* what a cell may be changed to
          MaxCellsChanged   \* bound

VARIABLES kind, encoded,  \* what was encoded
          cells,          \* the buffer
          cellsChanged,   \* how often it was changed
          decoded         \* what was read from it: none yet, {}, {value} or a panic

codecVars == <<kind, encoded, cells, cellsChanged, decoded>>

NotRead == {[notYet |-> TRUE]}

\* Magic and version of a format.
Header(k) == CASE k = "inputs" -> 11 [] k = "ipa" -> 12 [] k = "circuit" -> 13 [] k = "mask" -> 14

IdCells == 1 .. CellMax

Canonical == [scalar |-> ScalarCells, point |-> PointCells, id |-> IdCells]

----------------------------------------------------------------------------
(* Reading parts *)

\* The end is computed first and must not leave usize; then the slice must be
\* inside the buffer.
ReadSlice(buffer, offset, len) ==
  IF offset + len > CellMax \/ offset + len > Len(buffer) THEN {}
  ELSE {[at |-> offset + len, value |-> SubSeq(buffer, offset + 1, offset + len)]}

ReadLen(buffer, offset) ==
  {[at |-> r.at, value |-> r.value[1]] : r \in ReadSlice(buffer, offset, 1)}

\* An item of a type ("scalar", "point" or "id").
ReadItem(buffer, offset, type) ==
  {[at |-> r.at, value |-> r.value[1]] :
     r \in {r \in ReadSlice(buffer, offset, 1) : r.value[1] \in Canonical[type]}}

\* Several items, one after the other, up to the first that fails.
ReadItems(buffer, offset, types) ==
  FoldLeft(LAMBDA sofar, type :
             UNION {{[at |-> r.at, value |-> Append(s.value, r.value)] :
                       r \in ReadItem(buffer, s.at, type)} : s \in sofar},
           {[at |-> offset, value |-> <<>>]}, types)

Repeat(item, n) == [k \in 1 .. n |-> item]

----------------------------------------------------------------------------
(* Inner-product proof: [points, a, b], points alternately left and right *)

IpaToBytes(proof) ==
  <<Header("ipa"), Len(proof.points) \div 2>> \o proof.points \o <<proof.a, proof.b>>

\* The stated number of rounds must make up the whole buffer.
IpaFromBytes(buffer) ==
  IF \/ Len(buffer) < 4
     \/ buffer[1] # Header("ipa")
     \/ Len(buffer) # 2 + 2 * buffer[2] + 2
  THEN {}
  ELSE LET n == 2 * buffer[2] IN
       {[points |-> SubSeq(r.value, 1, n), a |-> r.value[n + 1], b |-> r.value[n + 2]] :
          r \in ReadItems(buffer, 2, Repeat("point", n) \o <<"scalar", "scalar">>)}

----------------------------------------------------------------------------
(* Circuit proof: [items, ipa] *)

\* M, O, M~, five T; s~, t(x), t~(x); P
CircuitItems == Repeat("point", 8) \o Repeat("scalar", 3) \o <<"point">>

CircuitToBytes(proof) ==
  LET ipa == IpaToBytes(proof.ipa) IN
  <<Header("circuit")>> \o proof.items \o <<Len(ipa)>> \o ipa

\* A slip of the next definition: what follows the inner proof is not looked at.
CircuitFromBytesOpenEnd(buffer) ==
  IF Len(buffer) < 1 \/ buffer[1] # Header("circuit") THEN {}
  ELSE UNION {UNION {{[items |-> r.value, ipa |-> ipa] :
                        ipa \in UNION {IpaFromBytes(s.value) :
                                         s \in ReadSlice(buffer, len.at, len.value)}} :
                len \in ReadLen(buffer, r.at)} :
         r \in ReadItems(buffer, 1, CircuitItems)}

CircuitFromBytes(buffer) ==
  IF Len(buffer) < 1 \/ buffer[1] # Header("circuit") THEN {}
  ELSE UNION {UNION {{[items |-> r.value, ipa |-> ipa] :
                        ipa \in UNION {IpaFromBytes(s.value) :
                                         s \in {s \in ReadSlice(buffer, len.at, len.value) :
                                                  s.at = Len(buffer)}}} :
                len \in ReadLen(buffer, r.at)} :
         r \in ReadItems(buffer, 1, CircuitItems)}

----------------------------------------------------------------------------
(* Proof of a mask: [shared, mask, dh] *)

WriteLenPrefixed(payload) == <<Len(payload)>> \o payload

SkeletonToBytes(proof) ==
  <<Header("mask")>> \o proof.shared
    \o WriteLenPrefixed(CircuitToBytes(proof.mask))
    \o WriteLenPrefixed(CircuitToBytes(proof.dh))

ReadCircuitProof(buffer, offset) ==
  UNION {UNION {{[at |-> s.at, value |-> proof] : proof \in CircuitFromBytes(s.value)} :
           s \in ReadSlice(buffer, len.at, len.value)} :
    len \in ReadLen(buffer, offset)}

DecodeSkeletonProof(buffer) ==
  IF Len(buffer) <= 4 \/ buffer[1] # Header("mask") THEN {}
  ELSE UNION {UNION {{[shared |-> r.value, mask |-> mask.value, dh |-> dh.value] :
                        dh \in {dh \in ReadCircuitProof(buffer, mask.at) :
                                  dh.at = Len(buffer)}} :
                mask \in ReadCircuitProof(buffer, r.at)} :
         r \in ReadItems(buffer, 1, <<"point", "point">>)}

----------------------------------------------------------------------------
(* Public inputs: [session, items, polynomial] *)

\* the dealer's and the participant's id and helper key, the mask commitment
InputItems == <<"id", "id", "point", "point", "point">>

\* A slip of the next definition: the length of the session id is left out.
PublicInputsToBytesUnframed(inputs) ==
  <<Header("inputs")>> \o inputs.session
    \o inputs.items \o <<Len(inputs.polynomial)>> \o inputs.polynomial

PublicInputsToBytes(inputs) ==
  <<Header("inputs"), Len(inputs.session)>> \o inputs.session
    \o inputs.items \o <<Len(inputs.polynomial)>> \o inputs.polynomial

\* Vec::with_capacity panics where the room asked for has no address.
Panicked == [panicked |-> TRUE]

PublicInputsFromBytes(buffer) ==
  LET Polynomial(len) ==
        {r \in ReadItems(buffer, len.at, Repeat("point", len.value)) : r.at = Len(buffer)}
      Inputs(session, items, len) ==
        IF len.value > CapacityMax THEN {Panicked}
        ELSE {[session |-> session, items |-> items, polynomial |-> p.value] :
                p \in Polynomial(len)}
      Rest(session) ==
        UNION {UNION {Inputs(session.value, r.value, len) :
                        len \in {len \in ReadLen(buffer, r.at) : len.value # 0}} :
          r \in ReadItems(buffer, session.at, InputItems)}
  IN  IF buffer = <<>> \/ buffer[1] # Header("inputs") THEN {}
      ELSE UNION {UNION {Rest(session) : session \in ReadSlice(buffer, len.at, len.value)} :
             len \in ReadLen(buffer, 1)}

----------------------------------------------------------------------------
(* The types of the code.  The buffer of an encoding has a length, and a    *)
(* polynomial as many commitments, as a vector may have.                    *)

IpaProofs ==
  {p \in [points : Seq(PointCells), a : ScalarCells, b : ScalarCells] : Len(p.points) % 2 = 0}

AreItems(items, types) ==
  Len(items) = Len(types) /\ \A k \in DOMAIN types : items[k] \in Canonical[types[k]]

EncodedCircuitProofs ==
  {p \in [items : Seq(Nat), ipa : IpaProofs] : AreItems(p.items, CircuitItems)}

SkeletonProofs ==
  {p \in [shared : Seq(PointCells), mask : EncodedCircuitProofs,
          dh : EncodedCircuitProofs] : Len(p.shared) = 2}

EncodedInputs ==
  {v \in [session : Seq(Nat), items : Seq(Nat), polynomial : Seq(PointCells)] :
     AreItems(v.items, InputItems) /\ Len(v.polynomial) \in 1 .. CapacityMax}

----------------------------------------------------------------------------
(* A value is written, the buffer changed on its way, and read *)

Encode(k, v) ==
  CASE k = "inputs" -> PublicInputsToBytes(v)
    [] k = "ipa" -> IpaToBytes(v)
    [] k = "circuit" -> CircuitToBytes(v)
    [] k = "mask" -> SkeletonToBytes(v)

Decode(k, buffer) ==
  CASE k = "inputs" -> PublicInputsFromBytes(buffer)
    [] k = "ipa" -> IpaFromBytes(buffer)
    [] k = "circuit" -> CircuitFromBytes(buffer)
    [] k = "mask" -> DecodeSkeletonProof(buffer)

ASSUME CodecAssumption ==
  /\ CellMax \in Nat /\ CapacityMax \in Nat
  /\ ScalarCells \subseteq Nat /\ PointCells \subseteq Nat
  /\ AlteredCells \subseteq Nat
  /\ DOMAIN Encoded \subseteq {"inputs", "ipa", "circuit", "mask"}
  /\ \A k \in DOMAIN Encoded : \A v \in Encoded[k] :
       /\ v \in CASE k = "inputs" -> EncodedInputs
                  [] k = "ipa" -> IpaProofs
                  [] k = "circuit" -> EncodedCircuitProofs
                  [] k = "mask" -> SkeletonProofs
       /\ Len(Encode(k, v)) <= CellMax

CodecInit ==
  /\ kind \in DOMAIN Encoded
  /\ encoded \in Encoded[kind]
  /\ cells = Encode(kind, encoded)
  /\ cellsChanged = 0
  /\ decoded = NotRead

\* One cell differs, the end is missing, or something follows.
AlterCells ==
  /\ decoded = NotRead /\ cellsChanged < MaxCellsChanged
  /\ cells' \in {[cells EXCEPT ![k] = cell] : k \in DOMAIN cells, cell \in AlteredCells}
                  \cup {SubSeq(cells, 1, n) : n \in 0 .. (Len(cells) - 1)}
                  \cup {Append(cells, cell) : cell \in AlteredCells}
  /\ cellsChanged' = cellsChanged + 1
  /\ UNCHANGED <<kind, encoded, decoded>>

ReadCells ==
  /\ decoded = NotRead
  /\ decoded' = Decode(kind, cells)
  /\ UNCHANGED <<kind, encoded, cells, cellsChanged>>

CodecNext == AlterCells \/ ReadCells

CodecSpec == CodecInit /\ [][CodecNext]_codecVars

----------------------------------------------------------------------------
(* Properties *)

\* What was written is what is read, whatever lengths the parts have
\* (types.rs:48-119, ipa.rs:306-347, circuit.rs:527-593, pallas.rs:617-701).
RoundTrip ==
  (decoded # NotRead /\ cells = Encode(kind, encoded)) => decoded = {encoded}

\* A buffer is read only if it is the encoding of the value it is read as: none
\* is read in two ways, cut short, read with a remainder, with a length that
\* leaves usize or with an item that has another encoding.  A proof cannot be
\* changed and stay the same proof (types.rs:127-155).
OnlyCanonical ==
  decoded # NotRead => \A v \in decoded \ {Panicked} : Encode(kind, v) = cells

\* Decoding never panics, as docs/fuzzing.md:35-37 has it of the public inputs.
\* It does: the number of commitments is believed before any of them is read
\* (types.rs:95-99).
MalformedNeverPanics == decoded # {Panicked}

=============================================================================
