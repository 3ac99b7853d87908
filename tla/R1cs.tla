-------------------------------- MODULE R1cs --------------------------------
(***************************************************************************)
(* The constraint side of golden-proofs/src/pallas/circuit.rs: a rank-1    *)
(* constraint system, rows (A z)(B z) = C z over a vector z that begins    *)
(* with 1, is laid out as a Bulletproofs circuit, linear rows over         *)
(*        1 | committed | left | right | output                            *)
(* with output = left * right wire by wire.  Rows and columns count from   *)
(* zero as in the code; sequences, as always in TLA+, from one.            *)
(*                                                                         *)
(*   matrix   [width, height, weights]   weights: <<row, column>> -> scalar*)
(*   circuit  [committed, internal, weights]   weights: a matrix           *)
(*   witness  [values, blinding, left, right, output]                      *)
(*                                                                         *)
(* An operator that stands for a function returning an Option yields a     *)
(* singleton or the empty set.                                             *)
(***************************************************************************)
EXTENDS PallasVectors, TLC

Larger(m, n) == IF m > n THEN m ELSE n

\* The entries of a matrix are within its dimensions.
IsMatrix(matrix) ==
  /\ matrix = [width |-> matrix.width, height |-> matrix.height, weights |-> matrix.weights]
  /\ matrix.width \in Nat /\ matrix.height \in Nat
  /\ DOMAIN matrix.weights
       \subseteq (0 .. (matrix.height - 1)) \X (0 .. (matrix.width - 1))
  /\ \A at \in DOMAIN matrix.weights : matrix.weights[at] \in Scalars

WithDimensions(width, height) ==
  [width |-> width, height |-> height, weights |-> <<>>]

Pad(matrix, width, height) ==
  [matrix EXCEPT !.width = Larger(@, width), !.height = Larger(@, height)]

\* f, and g where f has nothing (TLC's f @@ g, which the provers cannot expand).
Overlay(f, g) ==
  [at \in DOMAIN f \cup DOMAIN g |-> IF at \in DOMAIN f THEN f[at] ELSE g[at]]

\* Writing entries makes the matrix large enough to hold them.
WithEntries(matrix, entries) ==
  [width   |-> Max({matrix.width} \cup {at[2] + 1 : at \in DOMAIN entries}),
   height  |-> Max({matrix.height} \cup {at[1] + 1 : at \in DOMAIN entries}),
   weights |-> Overlay(entries, matrix.weights)]

\* The sum of value[at] over the entries in S.
SumOver(S, value) == FoldFunctionOnSet(Add, 0, value, S)

----------------------------------------------------------------------------
(* Circuits and their witnesses *)

NewCircuit(committed, matrix) ==
  LET remaining == matrix.width - (committed + 1) IN
  IF remaining < 0 \/ remaining % 3 # 0 THEN {}
  ELSE {[committed |-> committed, internal |-> remaining \div 3, weights |-> matrix]}

\* Entrywise, as far as the shorter vector goes.
Hadamard(u, v) == [k \in DOMAIN u \cap DOMAIN v |-> Mul(u[k], v[k])]

Assignment(values, left, right) ==
  <<1>> \o values \o left \o right \o Hadamard(left, right)

\* The value of each row; entries beyond the vector do not count.
RowValues(matrix, vector) ==
  LET inside == {at \in DOMAIN matrix.weights : at[2] < Len(vector)}
      term == [at \in inside |-> Mul(matrix.weights[at], vector[at[2] + 1])]
  IN  [row \in 1 .. matrix.height |-> SumOver({at \in inside : at[1] = row - 1}, term)]

CircuitSatisfied(circuit, values, left, right) ==
  /\ Len(values) = circuit.committed
  /\ Len(left) = circuit.internal /\ Len(right) = circuit.internal
  /\ ToSet(RowValues(circuit.weights, Assignment(values, left, right))) \subseteq {0}

NewWithBlinding(values, blinding, left, right, output) ==
  IF \/ Len(values) # Len(blinding)
     \/ Len(left) # Len(right) \/ Len(right) # Len(output)
  THEN {}
  ELSE {[values |-> values, blinding |-> blinding,
         left |-> left, right |-> right, output |-> output]}

WitnessSatisfied(circuit, witness) ==
  /\ witness.output = Hadamard(witness.left, witness.right)
  /\ CircuitSatisfied(circuit, witness.values, witness.left, witness.right)

----------------------------------------------------------------------------
(* From the constraint system to the circuit *)

Width(r1cs) == Larger(r1cs.a.width, Larger(r1cs.b.width, r1cs.c.width))
Height(r1cs) == Larger(r1cs.a.height, Larger(r1cs.b.height, r1cs.c.height))

Normalize(r1cs) ==
  [name \in {"a", "b", "c"} |-> Pad(r1cs[name], Width(r1cs), Height(r1cs))]

\* Where the columns go: the committed ones first, in the order of their numbers,
\* the others on left wires behind those that hold the rows of A.
NewLayout(width, height, indices) ==
  LET committed == ToSet(indices)
      variables == IF width = 0 THEN 0 ELSE width - 1
      inner == IF variables < Cardinality(committed) THEN 0
               ELSE variables - Cardinality(committed)
  IN  IF \/ ~IsInjective(indices)
         \/ \E index \in committed : index = 0 \/ index >= width
      THEN {}
      ELSE {[committed |-> committed,
             variables |-> variables,
             rows      |-> height,
             internal  |-> height + inner]}

CommittedLen(layout) == Cardinality(layout.committed)

\* How many columns of its kind come before this one.
Position(layout, column) ==
  Cardinality({other \in 1 .. (column - 1) :
                 (other \in layout.committed) = (column \in layout.committed)})

\* Two slips of the next definition: the wires that hold the rows of A are
\* forgotten; the constant column is taken for a variable.
NewColumnOnRows(layout, column) ==
  IF column = 0 THEN 0
  ELSE IF column \in layout.committed THEN 1 + Position(layout, column)
  ELSE 1 + CommittedLen(layout) + Position(layout, column)

NewColumnDropsConstant(layout, column) ==
  IF column \in layout.committed THEN 1 + Position(layout, column)
  ELSE 1 + CommittedLen(layout) + layout.rows + Position(layout, column)

NewColumn(layout, column) ==
  IF column = 0 THEN 0
  ELSE IF column \in layout.committed THEN 1 + Position(layout, column)
  ELSE 1 + CommittedLen(layout) + layout.rows + Position(layout, column)

\* The entries of one matrix, moved, and a wire for each of its rows with weight
\* minus one.
Block(layout, matrix, rowStart, columnStart) ==
  LET moved == {<<rowStart + at[1], NewColumn(layout, at[2])>> : at \in DOMAIN matrix.weights}
      wires == {<<rowStart + row, columnStart + row>> : row \in 0 .. (layout.rows - 1)}
      Source(at) == CHOOSE old \in DOMAIN matrix.weights :
                      at = <<rowStart + old[1], NewColumn(layout, old[2])>>
  IN  [at \in moved \cup wires |->
         IF at \in wires THEN Negate(1) ELSE matrix.weights[Source(at)]]

ToCircuit(layout, r1cs) ==
  LET n == CommittedLen(layout)
      blank == WithDimensions(1 + n + 3 * layout.internal, 3 * layout.rows)
      entries == Overlay(Block(layout, r1cs.a, 0, 1 + n),
                   Overlay(Block(layout, r1cs.b, layout.rows, 1 + n + layout.internal),
                           Block(layout, r1cs.c, 2 * layout.rows, 1 + n + 2 * layout.internal)))
  IN  NewCircuit(n, WithEntries(blank, entries))

\* The product, none if an entry is beyond the vector.
MatrixVectorProduct(matrix, vector) ==
  IF \E at \in DOMAIN matrix.weights : at[2] >= Len(vector) THEN {}
  ELSE {RowValues(matrix, vector)}

Resized(vector, n) == [k \in 1 .. n |-> IF k <= Len(vector) THEN vector[k] ELSE 0]

\* The k-th committed column, and the column on a left wire behind the rows.
CommittedAt(layout, k) ==
  CHOOSE column \in layout.committed : 1 + Position(layout, column) = k

InnerAt(layout, wire) ==
  CHOOSE column \in (1 .. layout.variables) \ layout.committed :
    layout.rows + 1 + Position(layout, column) = wire

WitnessOf(layout, full, blindings, az, bz, cz) ==
  NewWithBlinding(
    [k \in 1 .. CommittedLen(layout) |-> full[CommittedAt(layout, k) + 1]], blindings,
    [k \in 1 .. layout.internal |->
       IF k <= layout.rows THEN az[k] ELSE full[InnerAt(layout, k) + 1]],
    Resized(bz, layout.internal), Resized(cz, layout.internal))

ToWitness(layout, r1cs, full, blindings) ==
  IF \/ Len(full) # layout.variables + 1
     \/ full[1] # 1
     \/ Len(blindings) # CommittedLen(layout)
  THEN {}
  ELSE UNION {WitnessOf(layout, full, blindings, az, bz, cz) :
                az \in MatrixVectorProduct(r1cs.a, full),
                bz \in MatrixVectorProduct(r1cs.b, full),
                cz \in MatrixVectorProduct(r1cs.c, full)}

LayoutOf(r1cs, indices) == NewLayout(Width(r1cs), Height(r1cs), indices)

R1csToCircuit(r1cs, indices) ==
  UNION {ToCircuit(layout, Normalize(r1cs)) : layout \in LayoutOf(r1cs, indices)}

ToCircuitWithWitness(r1cs, full, indices, blindings) ==
  UNION {{[circuit |-> circuit, witness |-> witness] :
            witness \in ToWitness(layout, Normalize(r1cs), full, blindings),
            circuit \in ToCircuit(layout, Normalize(r1cs))} :
         layout \in LayoutOf(r1cs, indices)}

----------------------------------------------------------------------------
(* The rows weighted by the powers of a challenge z and summed by column *)

\* A slip of the next definition: the rows are weighted by 1, z, ... and not by
\* z, z squared, ...; the rows of a system then weigh as much as the products.
ColumnSumFromOne(circuit, column, z) ==
  LET entries == circuit.weights.weights
      power == PowersFromOne(z, circuit.weights.height + 1)
      term == [at \in DOMAIN entries |-> Mul(entries[at], power[at[1] + 1])]
  IN  SumOver({at \in DOMAIN entries : at[2] = column}, term)

ColumnSum(circuit, column, z) ==
  LET entries == circuit.weights.weights
      power == PowersFromOne(z, circuit.weights.height + 1)
      term == [at \in DOMAIN entries |-> Mul(entries[at], power[at[1] + 2])]
  IN  SumOver({at \in DOMAIN entries : at[2] = column}, term)

ReducedCircuit(circuit, z) ==
  LET Sums(start, n) == [k \in 1 .. n |-> ColumnSum(circuit, start + k - 1, z)]
      lambdaStart == 1 + circuit.committed
      rhoStart    == lambdaStart + circuit.internal
      omegaStart  == rhoStart + circuit.internal
  IN  [kappa  |-> ColumnSum(circuit, 0, z),
       theta  |-> Sums(1, circuit.committed),
       lambda |-> Sums(lambdaStart, circuit.internal),
       rho    |-> Sums(rhoStart, circuit.internal),
       omega  |-> Sums(omegaStart, circuit.internal)]

=============================================================================
