------------------------------- MODULE Ciphers -------------------------------
(***************************************************************************)
(* The arithmetic around the ciphers, as functions, each with what it is   *)
(* meant to compute: which initialization vector belongs to which segment  *)
(* of WAL and to which block.                                              *)
(*                                                                         *)
(* Widths are scaled down, with every proportion that the code relies on   *)
(* kept: Half is the 64-bit word, Quarter its 32 bits, Eighth 16 of them;  *)
(* a byte has ByteBits bits.                                               *)
(***************************************************************************)
EXTENDS Integers, FiniteSets, Bitwise

CONSTANTS
    Eighth,      \* bits standing for 16
    ByteBits     \* bits standing for 8

ASSUME CiphersAssumption == Eighth \in Nat \ {0} /\ ByteBits \in Nat \ {0}

-----------------------------------------------------------------------------
(* Initialization vectors of WAL segments.                                 *)

Quarter == 2 * Eighth
Half == 4 * Eighth
Word == 2 ^ Half

\* CalcXLogPageIVPrefix() with 128-bit integers: bit 32 of the base is cleared,
\* then timeline and segment are added.
ClearBit(n, b) == IF (n \div 2 ^ b) % 2 = 1 THEN n - 2 ^ b ELSE n

SegOffset(seg) == seg * 2 ^ Quarter

IvPrefix(tli, seg, base) ==
    LET offset == ((tli * 2 ^ (7 * Eighth)) % (Word * Word)) + SegOffset(seg) IN
    (ClearBit(base, Quarter) + offset) % (Word * Word)

\* The same for compilers without them: two halves and a carry.
CarryNone(lo, baseLo) == 0
Carry(lo, baseLo) == IF lo < baseLo THEN 1 ELSE 0

IvPrefixHalves(tli, seg, base) ==
    LET baseLo == ClearBit(base % Word, Quarter)
        baseHi == base \div Word
        offLo == (seg * 2 ^ Quarter) % Word
        offHi == ((seg \div 2 ^ Quarter) + (tli % 2 ^ Eighth) * 2 ^ (3 * Eighth)) % Word
        lo == (baseLo + offLo) % Word
        hi == (baseHi + offHi + Carry(lo, baseLo)) % Word IN
    hi * Word + lo

\* The two are "byte-identical", for every base, timeline and segment.
IvPathsAgree ==
    \A base \in 0 .. Word * Word - 1, tli \in 0 .. 2 ^ Quarter - 1, seg \in 0 .. Word - 1 :
        IvPrefix(tli, seg, base) = IvPrefixHalves(tli, seg, base)

\* The counter takes the place of the last 32 bits of the vector, so the rest of
\* it must tell segments apart: one base never gives two segments of the first
\* 2^16 timelines the same keystream.
IvOfSegment(tli, seg, base) == IvPrefix(tli, seg, base) \div 2 ^ Quarter

SegmentIvsDiffer ==
    \A base \in {0, 2 ^ Quarter - 1, Word - 1, Word * Word - 1, (Word * Word) \div 3} :
        Cardinality({IvOfSegment(t, s, base) : t \in 0 .. 2 ^ Eighth - 1, s \in 0 .. Word - 1})
            = 2 ^ Eighth * Word

\* The vector of a WAL segment is the same whichever compiler built the server,
\* and no other segment's.
SegmentIvs == IvPathsAgree /\ SegmentIvsDiffer

-----------------------------------------------------------------------------
(* Initialization vectors of blocks.  A vector is 16 bytes.                *)

ByteVals == 2 ^ ByteBits
XorBytes(u, v) == [i \in 1 .. 16 |-> u[i] ^^ v[i]]

\* Byte i, from the right and from zero, of a number.
ByteAt(n, i) == (n \div ByteVals ^ i) % ByteVals

ForkNumbers == [main |-> 0, fsm |-> 1, vm |-> 2, init |-> 3]

\* CalcBlockIv()
ForkByte(fork) == ForkNumbers[IF fork = "init" THEN "main" ELSE fork]

BlockIvOf(fork, bn) ==
    [i \in 1 .. 16 |->
        IF i = 8 THEN ForkByte(fork)
        ELSE IF i > 12 THEN ByteAt(bn, 16 - i) ELSE 0]
CalcBlockIv(fork, bn, base) == XorBytes(BlockIvOf(fork, bn), base)

\* tempfile_block_iv()
TempFileIvUnsalted(salt, bn, base) ==
    XorBytes(base, [i \in 1 .. 16 |-> IF i > 8 THEN ByteAt(bn, 16 - i) ELSE 0])
TempFileIv(salt, bn, base) ==
    XorBytes(XorBytes(base, salt), [i \in 1 .. 16 |-> IF i > 8 THEN ByteAt(bn, 16 - i) ELSE 0])

BlockNumbers == 0 .. ByteVals ^ 4 - 1
Bases == {[i \in 1 .. 16 |-> 0], [i \in 1 .. 16 |-> (i * 5) % ByteVals]}

\* Two blocks of a relation have the same vector only if they are the same block
\* of the main and the init fork, which must have it.
BlockIvsDiffer ==
    \A base \in Bases :
        /\ \A bn \in BlockNumbers : CalcBlockIv("init", bn, base) = CalcBlockIv("main", bn, base)
        /\ Cardinality({CalcBlockIv(f, bn, base) : f \in {"main", "fsm", "vm"}, bn \in BlockNumbers})
               = 3 * ByteVals ^ 4

\* The blocks of a temporary file have vectors of their own, and so do those of
\* two files whose salts differ in the bytes that no block number reaches.
TempFileIvsDiffer ==
    \A base \in Bases :
        LET salts == {[i \in 1 .. 16 |-> IF i = 3 THEN a ELSE IF i = 16 THEN b ELSE 0] :
                         a \in 0 .. ByteVals - 1, b \in {0, 1}}
            vectors(s) == {TempFileIv(s, bn, base) : bn \in BlockNumbers} IN
        /\ \A s \in salts : Cardinality(vectors(s)) = ByteVals ^ 4
        /\ \A s, t \in salts : s[3] # t[3] => vectors(s) \cap vectors(t) = {}

\* No two blocks that one key encrypts share a vector, in relations and in
\* temporary files; but a block of an init fork has the one it will have as a
\* block of the main fork.  The salts of temporary files, which are random, are
\* taken to differ in the bytes that no block number reaches: files whose salts
\* differ only in the others may share vectors of different blocks.
BlockIvs == BlockIvsDiffer /\ TempFileIvsDiffer

=============================================================================
