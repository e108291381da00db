--------------------------- MODULE CrcCombine ---------------------------
(***************************************************************************)
(* core/crc32c_combine.py: the checksum of adjacent ranges from the        *)
(* checksums and lengths of the parts, by arithmetic over GF(2). A vector  *)
(* of bits is the set of the positions that are 1, so that xor is the      *)
(* symmetric difference; a matrix has one vector for every position. The   *)
(* pieces of a file are folded one after the other, as combine_all does,   *)
(* and each half of the body of combine's loop is one action.              *)
(***************************************************************************)
EXTENDS Naturals, Sequences, FiniteSetsExt, SequencesExt

CONSTANTS
  Dim,        \* _GF2_DIM
  Poly,       \* the positions of 1 in _CRC32C_REFLECTED_POLY
  Pieces,     \* the pieces: sequences of bytes, a byte the set of its ones
  MaxPieces   \* bound: how many are folded

VARIABLES
  file,      \* the bytes folded so far
  folded,    \* how many pieces they were
  result,    \* combine_all's running result
  piece,     \* the piece combine is at; empty between two calls
  even, odd, crc, remaining,   \* combine's locals: the buffers, crc1, remaining
  half       \* which half of the loop's body is next: the one that squares into even, or into odd

locals == <<even, odd, crc, remaining, half>>
vars == <<file, folded, result, piece, locals>>

Positions == 0..Dim - 1
Xor(v, w) == (v \ w) \cup (w \ v)
ShiftRight(v) == {i - 1 : i \in v \ {0}}

---------------------------------------------------------------------------
(* The reference: CRC-32C bit by bit *)

NextBit(register, bit) ==
  IF (0 \in register) # bit THEN Xor(ShiftRight(register), Poly) ELSE ShiftRight(register)
NextByte(register, byte) ==
  FoldLeft(LAMBDA r, i : NextBit(r, i \in byte), register, [i \in 1..8 |-> i - 1])
Crc(bytes) == Positions \ FoldLeft(NextByte, Positions, bytes)

ZeroBytes(register, n) == FoldLeft(NextByte, register, [i \in 1..n |-> {}])

---------------------------------------------------------------------------
(* The algorithm *)

Times(mat, vec) == FoldSet(LAMBDA i, total : Xor(mat[i], total), {}, vec)

Square(mat) == [n \in Positions |-> Times(mat, mat[n])]

\* The operators of one zero bit, of two, and of four.
OneBit == [n \in Positions |-> IF n = 0 THEN Poly ELSE {n - 1}]
TwoBits == Square(OneBit)
FourBits == Square(Square(OneBit))
Zeros == [n \in Positions |-> {}]

Init ==
  /\ file = <<>> /\ folded = 0 /\ result = {} /\ piece = <<>>
  /\ even = Zeros /\ odd = Zeros /\ crc = {} /\ remaining = 0 /\ half = "even"

Idle == remaining = 0

Bits(p) == 8 * Len(p)
Length(p) == Len(p)

\* The pairs of combine_all: the first is taken as it is, and a part of no
\* bytes changes nothing.
Take(p) ==
  /\ Idle /\ folded < MaxPieces
  /\ folded' = folded + 1
  /\ IF folded = 0 \/ p = <<>>
     THEN /\ file' = file \o p
          /\ result' = IF folded = 0 THEN Crc(p) ELSE result
          /\ UNCHANGED <<piece, locals>>
     ELSE /\ piece' = p /\ crc' = result /\ remaining' = Length(p)
          /\ even' = TwoBits /\ odd' = FourBits /\ half' = "even"
          /\ UNCHANGED <<file, result>>

OddBit(left) == left % 2 = 1

\* The matrix is applied for a 1, what remains is halved; and the return.
Apply(mat) ==
  /\ crc' = IF OddBit(remaining) THEN Times(mat, crc) ELSE crc
  /\ remaining' = remaining \div 2
  /\ IF remaining' = 0
     THEN result' = Xor(crc', Crc(piece)) /\ file' = file \o piece /\ piece' = <<>>
     ELSE UNCHANGED <<file, result, piece>>
  /\ UNCHANGED folded

\* Each half squares the other's buffer into its own, and applies that.
EvenBuffer(e, o) == e
OddBuffer(e, o) == o
EvenHalf ==
  /\ ~Idle /\ half = "even"
  /\ even' = Square(odd) /\ Apply(EvenBuffer(even', odd))
  /\ half' = "odd" /\ UNCHANGED odd
OddHalf ==
  /\ ~Idle /\ half = "odd"
  /\ odd' = Square(even) /\ Apply(OddBuffer(even, odd'))
  /\ half' = "even" /\ UNCHANGED even

Next == EvenHalf \/ OddHalf \/ \E p \in Pieces : Take(p)

Spec == Init /\ [][Next]_vars

---------------------------------------------------------------------------
(* Properties *)

\* The locals hold vectors and matrices of Dim bits, and the file is what
\* was folded.
TypeOK ==
  /\ {result, crc} \subseteq SUBSET Positions
  /\ \A mat \in {even, odd} :
       DOMAIN mat = Positions /\ \A n \in Positions : mat[n] \subseteq Positions
  /\ half \in {"even", "odd"} /\ remaining \in 0..Len(piece) /\ folded \in 0..MaxPieces

\* What a sliced upload and a ranged download rest on: the checksum combined
\* from the parts is the one a read of the whole file would give.
CombinedIsWhole == Idle /\ folded > 0 => result = Crc(file)

\* The loop of combine: what was applied so far is exactly the low bits of
\* the length, that many zero bytes shifted through the register of the first
\* part; and the buffer that was squared last holds the operator of the bit
\* that was looked at last, in whichever half (core/crc32c_combine.py:54-67).
LoopInvariant ==
  ~Idle =>
    \E k \in 0..Len(piece) :
      /\ remaining = Len(piece) \div 2^k
      /\ crc = ZeroBytes(result, Len(piece) % 2^k)
      /\ half = IF k % 2 = 0 THEN "even" ELSE "odd"
      /\ k > 0 => \A n \in Positions :
           (IF half = "odd" THEN even ELSE odd)[n] = ZeroBytes({n}, 2^(k - 1))

=============================================================================
