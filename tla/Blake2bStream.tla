---------------------------- MODULE Blake2bStream ----------------------------
(***************************************************************************)
(* The prover hashes the shared point and the transcript piece by piece    *)
(* with a library that keeps a buffer (blake2b_simd, modelled from RFC     *)
(* 7693: a full buffer is compressed when more bytes come, never before);  *)
(* the circuit then hashes the whole message block by block                *)
(* (blake2b_512_circuit, golden-proofs/src/pallas.rs).  The compression    *)
(* function is ideal: its value is the record of what it was given.        *)
(***************************************************************************)
EXTENDS Integers, Sequences

CONSTANTS BlockBytes,
          Streams,    \* the bytes to come, MaxLength of them or more
          Pieces,     \* lengths of the pieces, of a block at most
          MaxLength   \* bound: bytes hashed

ASSUME StreamAssumption ==
  /\ BlockBytes \in Nat \ {0}
  /\ \A n \in Pieces : n \in 0 .. BlockBytes
  /\ MaxLength \in Nat
  /\ \A bytes \in Streams : bytes \in Seq(Nat) /\ Len(bytes) >= MaxLength

VARIABLES stream, length,    \* the bytes to come, and how many have come
          chain, buffer,     \* the library's state
          digest,            \* its digest, or <<>>
          index, h           \* the circuit's blocks so far, and its words

vars == <<stream, length, chain, buffer, digest, index, h>>

message == SubSeq(stream, 1, length)

\* The list of the compressions so far stands for the eight words.
InitialChain == <<>>
Compress(words, block, counter, isLast) ==
  Append(words, [block |-> block, counter |-> counter, isLast |-> isLast])
Padded(bytes) == bytes \o [k \in 1 .. (BlockBytes - Len(bytes)) |-> 0]

Init ==
  /\ stream \in Streams
  /\ length = 0
  /\ chain = InitialChain
  /\ buffer = <<>>
  /\ digest = <<>>
  /\ index = 0
  /\ h = InitialChain

Update(n) ==
  /\ digest = <<>>
  /\ length + n <= MaxLength
  /\ LET bytes == buffer \o SubSeq(stream, length + 1, length + n)
     IN  IF Len(bytes) <= BlockBytes
         THEN buffer' = bytes /\ UNCHANGED chain
         ELSE /\ buffer' = SubSeq(bytes, BlockBytes + 1, Len(bytes))
              /\ chain' = Compress(chain, SubSeq(bytes, 1, BlockBytes),
                                   length - Len(buffer) + BlockBytes, FALSE)
  /\ length' = length + n
  /\ UNCHANGED <<stream, digest, index, h>>

Finalize ==
  /\ digest = <<>>
  /\ digest' = Compress(chain, Padded(buffer), length, TRUE)
  /\ UNCHANGED <<stream, length, chain, buffer, index, h>>

\* A slip of the next definition: a message that fills its blocks gets one more.
BlockCountExtra == length \div BlockBytes + 1

\* A message has at least one block, and a full last one stays the last.
BlockCount ==
  IF length = 0 THEN 1 ELSE (length + BlockBytes - 1) \div BlockBytes

\* One turn of the circuit's loop.
CircuitBlock ==
  /\ digest # <<>>
  /\ index < BlockCount
  /\ LET start == index * BlockBytes
         end == IF start + BlockBytes < length THEN start + BlockBytes ELSE length
     IN  h' = Compress(h, Padded(SubSeq(message, start + 1, end)), end,
                       index + 1 = BlockCount)
  /\ index' = index + 1
  /\ UNCHANGED <<stream, length, chain, buffer, digest>>

Next == \/ \E n \in Pieces : Update(n)
        \/ Finalize
        \/ CircuitBlock

Spec == Init /\ [][Next]_vars

----------------------------------------------------------------------------

\* Whatever pieces the prover hashed a message in, empty ones and ones that
\* end with a block included, the circuit's digest of the whole is the
\* prover's (blake2b_512_circuit, pallas.rs:965).
CircuitDigestIsProvers == (digest # <<>> /\ index = BlockCount) => h = digest

=============================================================================
