----------------------------- MODULE R1csLayout -----------------------------
(***************************************************************************)
(* The two uses of R1cs: a verifier builds the circuit of a constraint     *)
(* system, a prover builds the circuit and its witness.  The system and    *)
(* the list of committed columns are the statement; the list may be in any *)
(* order and may be one the code refuses.                                  *)
(***************************************************************************)
EXTENDS R1cs

CONSTANTS Systems,           \* constraint systems
          IndexLists,        \* lists of committed columns
          FullWitnesses,     \* full witnesses, in the order of the columns
          WitnessBlindings   \* lists of blindings

ASSUME LayoutAssumption ==
  /\ \A given \in Systems : IsMatrix(given.a) /\ IsMatrix(given.b) /\ IsMatrix(given.c)
  /\ IndexLists \subseteq Seq(Nat)
  /\ FullWitnesses \subseteq Seq(Scalars) /\ WitnessBlindings \subseteq Seq(Scalars)

VARIABLES system, listed,    \* the statement
          laidOut,           \* the verifier's circuit: none yet, {} or {circuit}
          built              \* the prover's, with the vector it is for

layoutVars == <<system, listed, laidOut, built>>

NotBuilt == {[notYet |-> TRUE]}

LayoutInit ==
  /\ system \in Systems
  /\ listed \in IndexLists
  /\ laidOut = NotBuilt
  /\ built = NotBuilt

BuildCircuit ==
  /\ laidOut = NotBuilt
  /\ laidOut' = R1csToCircuit(system, listed)
  /\ UNCHANGED <<system, listed, built>>

BuildWithWitness(full, blindings) ==
  /\ laidOut # NotBuilt /\ built = NotBuilt
  /\ built' = {[full |-> full, both |-> both] :
                 both \in ToCircuitWithWitness(system, full, listed, blindings)}
  /\ UNCHANGED <<system, listed, laidOut>>

LayoutNext ==
  \/ BuildCircuit
  \/ \E full \in FullWitnesses, blindings \in WitnessBlindings :
       BuildWithWitness(full, blindings)

LayoutSpec == LayoutInit /\ [][LayoutNext]_layoutVars

----------------------------------------------------------------------------
(* Properties *)

\* The vector solves the system: (A z)(B z) = C z row by row.
R1csSatisfied(r1cs, vector) ==
  LET m == Normalize(r1cs) IN
  Hadamard(RowValues(m.a, vector), RowValues(m.b, vector)) = RowValues(m.c, vector)

\* The witness built from a vector satisfies the circuit exactly when the vector
\* solves the system, whichever columns are committed: moving the columns and
\* padding the wires neither loses nor adds a constraint (circuit.rs:712-798).
LayoutFaithful ==
  built # NotBuilt =>
    \A b \in built :
      WitnessSatisfied(b.both.circuit, b.both.witness) <=> R1csSatisfied(system, b.full)

\* The vector a circuit assignment stands for.
ReadBack(layout, values, left) ==
  [k \in 1 .. (layout.variables + 1) |->
     LET column == k - 1 IN
     IF column = 0 THEN 1
     ELSE IF column \in layout.committed THEN values[Position(layout, column) + 1]
     ELSE left[layout.rows + Position(layout, column) + 1]]

\* Nothing but a solution satisfies the verifier's circuit: any assignment of the
\* wires that does, also one no prover of this code would build, gives a vector
\* that solves the system.
CircuitSound ==
  (laidOut # NotBuilt /\ built = NotBuilt) =>
    \A c \in laidOut, layout \in LayoutOf(system, listed) :
      \A values \in [1 .. c.committed -> Scalars],
         left, right \in [1 .. c.internal -> Scalars] :
        CircuitSatisfied(c, values, left, right) =>
          R1csSatisfied(system, ReadBack(layout, values, left))

=============================================================================
