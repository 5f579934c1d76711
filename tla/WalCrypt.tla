------------------------------ MODULE WalCrypt ------------------------------
(***************************************************************************)
(* One call of TDEXLogCryptBuffer(): a buffer of WAL is encrypted or       *)
(* decrypted, range after range of the list of keys, and the part of it    *)
(* that lies in a range by open_pg_tde_stream_crypt(), batch after batch   *)
(* of AES blocks.  The result takes the place of the data, or of a copy:   *)
(* that makes no difference, as the ranges of a list do not overlap.       *)
(*                                                                         *)
(* What a byte has become is the set of keystream bytes it was combined    *)
(* with, each named by the number of the range and the position in the     *)
(* keystream; to combine it again with the same one undoes that.           *)
(***************************************************************************)
EXTENDS Integers, Sequences

CONSTANTS
    AesBlock,    \* AES_BLOCK_SIZE
    Batch,       \* NUM_AES_BLOCKS_IN_BATCH
    SegSize,     \* wal_segment_size
    Jobs         \* the calls: keys in the cache, and which part of which segment

VARIABLES
    job,         \* the arguments of the call
    cur,         \* curr_key, by its number
    crypting,    \* within open_pg_tde_stream_crypt()
    batchNo,     \* batch_no
    dataIndex,   \* data_index
    buf          \* by offset in the segment: what the byte was combined with

cryptVars == <<job, cur, crypting, batchNo, dataIndex, buf>>

Locations == [tli : Nat, lsn : Nat]

\* wal_location_cmp() < 0
Before(l, m) == l.tli < m.tli \/ (l.tli = m.tli /\ l.lsn < m.lsn)

\* wal_location_valid()
Valid(l) == l.tli # 0 /\ l.lsn # 0

\* A buffer is of one segment, and a range with a key ends after its start (WalKeys).
ASSUME WalCryptAssumption ==
    /\ AesBlock \in Nat \ {0} /\ Batch \in Nat \ {0} /\ SegSize \in Nat \ {0}
    /\ \A j \in Jobs :
        /\ j.tli \in Nat /\ j.seg \in Nat /\ j.off \in Nat /\ j.count \in Nat \ {0}
        /\ j.off + j.count <= SegSize
        /\ j.keys \in Seq([start : Locations, end : Locations, encrypted : BOOLEAN])
        /\ \A i \in DOMAIN j.keys :
              j.keys[i].encrypted /\ Valid(j.keys[i].start)
                  => Before(j.keys[i].start, j.keys[i].end)

Lesser(a, b) == IF a < b THEN a ELSE b
Greater(a, b) == IF a < b THEN b ELSE a

-----------------------------------------------------------------------------
(* The part of the buffer that lies in the current range.                  *)

Range == job.keys[cur]
DataStart == [tli |-> job.tli, lsn |-> job.seg * SegSize + job.off]
DataEnd == [tli |-> job.tli, lsn |-> job.seg * SegSize + (job.off + job.count)]

Applies == Range.encrypted /\ Valid(Range.start)
Overlaps == Before(DataStart, Range.end) /\ Before(Range.start, DataEnd)

\* A range may span timelines: only on the timeline where it begins or ends does
\* its position count.
EndLsn == IF DataEnd.tli < Range.end.tli THEN DataEnd.lsn ELSE Lesser(DataEnd.lsn, Range.end.lsn)
StartLsn ==
    IF DataStart.tli > Range.start.tli THEN DataStart.lsn
    ELSE Greater(DataStart.lsn, Range.start.lsn)

DecOff == StartLsn % SegSize
DecEnd == IF EndLsn % SegSize = 0 THEN job.off + job.count ELSE EndLsn % SegSize
DecSize == DecEnd - DecOff

-----------------------------------------------------------------------------
(* Its way through the keystream, in batches.                              *)

StartBlock(off) == off \div AesBlock
EndBlock(off, len) == (off + len + (AesBlock - 1)) \div AesBlock

\* The first batch skips the bytes of its first block that are before the offset.
SkipNever(off, i) == 0
Skip(off, i) == IF i > 0 THEN 0 ELSE off % AesBlock

FromBlock(off, i) == StartBlock(off) + i * Batch
UptoBlock(off, len, i) == Lesser(FromBlock(off, i) + Batch, EndBlock(off, len))

\* current_batch_bytes, when the bytes before done are done.
BatchBytes(off, len, i, done) ==
    Lesser((UptoBlock(off, len, i) - FromBlock(off, i)) * AesBlock - Skip(off, i), len - done)

\* AesCtrEncryptedZeroBlocks(): where the keystream made from a block on begins.
KeystreamFrom(block) == block * AesBlock

\* tde_xor_stream() on one byte.
Combine(combined, byte) == IF byte \in combined THEN combined \ {byte} ELSE combined \cup {byte}

-----------------------------------------------------------------------------
CryptInit ==
    /\ job \in Jobs
    /\ cur = 1 /\ crypting = FALSE /\ batchNo = 0 /\ dataIndex = 0
    /\ buf = [o \in job.off .. job.off + job.count - 1 |-> {}]

\* A range that does not concern the buffer.
NextKey ==
    /\ ~crypting /\ cur <= Len(job.keys)
    /\ ~(Applies /\ Overlaps)
    /\ cur' = cur + 1
    /\ UNCHANGED <<job, crypting, batchNo, dataIndex, buf>>

\* One that does: the call of open_pg_tde_stream_crypt().
StreamCrypt ==
    /\ ~crypting /\ cur <= Len(job.keys)
    /\ Applies /\ Overlaps
    /\ crypting' = TRUE /\ batchNo' = 0 /\ dataIndex' = 0
    /\ UNCHANGED <<job, cur, buf>>

\* Byte k of the batch is combined with byte Skip + k of the keystream that is made
\* from the first block of the batch on.
CryptBatch ==
    /\ crypting
    /\ FromBlock(DecOff, batchNo) < EndBlock(DecOff, DecSize)
    /\ LET n == BatchBytes(DecOff, DecSize, batchNo, dataIndex)
           first == DecOff + dataIndex
           keyFirst == KeystreamFrom(FromBlock(DecOff, batchNo)) + Skip(DecOff, batchNo) IN
       /\ buf' = [o \in DOMAIN buf |->
                     IF o \in first .. first + n - 1 THEN Combine(buf[o], <<cur, keyFirst + (o - first)>>)
                     ELSE buf[o]]
       /\ dataIndex' = dataIndex + n
    /\ batchNo' = batchNo + 1
    /\ UNCHANGED <<job, cur, crypting>>

CryptedRange ==
    /\ crypting
    /\ FromBlock(DecOff, batchNo) >= EndBlock(DecOff, DecSize)
    /\ crypting' = FALSE /\ cur' = cur + 1
    /\ UNCHANGED <<job, batchNo, dataIndex, buf>>

CryptNext == NextKey \/ StreamCrypt \/ CryptBatch \/ CryptedRange

CryptSpec == CryptInit /\ [][CryptNext]_cryptVars

-----------------------------------------------------------------------------
Returned == cur > Len(job.keys)

\* The byte at offset o of the segment lies in range i.
Holds(i, o) ==
    LET k == job.keys[i]
        at == [tli |-> job.tli, lsn |-> job.seg * SegSize + o] IN
    k.encrypted /\ Valid(k.start) /\ ~Before(at, k.start) /\ Before(at, k.end)

\* However a segment is cut into reads and writes, TDEXLogCryptBuffer() combines
\* the bytes that lie in a range, and no others, with its keystream, each once and
\* byte N of the segment with byte N: also when the range begins or ends inside of
\* the buffer or spans timelines, the buffer ends with its segment, or its first
\* byte is in the middle of an AES block.
RangeCryptsItsBytes ==
    Returned =>
        buf = [o \in job.off .. job.off + job.count - 1 |->
                  {<<i, o>> : i \in {k \in DOMAIN job.keys : Holds(k, o)}}]

=============================================================================
