------------------------------- MODULE Image -------------------------------
(***************************************************************************)
(* The contents of files: read_data of filesystem.c over the data blocks   *)
(* of the image.  A byte is known by its place among them, so what a read  *)
(* returns is a sequence of places.                                        *)
(***************************************************************************)
EXTENDS Integers, Sequences

CONSTANTS
    block_size,
    length_in_b,       \* inode -> the length of the file
    data_block_number  \* inode -> the numbers of its blocks, in order

ASSUME BlockAssumption == block_size \in Nat \ {0}
ASSUME InodeAssumption ==
    \A inode \in DOMAIN length_in_b :
        /\ length_in_b[inode] \in Nat
        /\ data_block_number[inode] \in Seq(Nat)
        /\ length_in_b[inode] <= Len(data_block_number[inode]) * block_size

\* The place of byte k of a file.
ByteOf(inode, k) ==
    data_block_number[inode][(k \div block_size) + 1] * block_size + (k % block_size)

\* The loop ends one block early.
LastBlock_Short(offset, length) == ((offset + length) \div block_size) - 1

LastBlock(offset, length) == (offset + length) \div block_size

\* A read of less than a block is taken to be in one block.
byte_to_copy(offset, length) ==
    IF length >= block_size THEN block_size - (offset % block_size) ELSE length

\* memcpy of n bytes from an offset in a block; the places after the last one
\* of a block are those of the block with the next number.
CopyFrom(block, offset, n) == [k \in 1 .. n |-> block * block_size + (offset % block_size) + k - 1]

\* One round of the loop, at block i of the file.
CopyBlock(inode, i, s) ==
    LET n == byte_to_copy(s.offset, s.length)
    IN  [offset |-> s.offset + n, length |-> s.length - n,
         buf |-> IF n = 0 THEN s.buf
                 ELSE s.buf \o CopyFrom(data_block_number[inode][i + 1], s.offset, n)]

\* What is left of the length asked for.
Shrunk(inode, offset, length) ==
    IF offset + length > length_in_b[inode] THEN length_in_b[inode] - offset ELSE length

read_data(inode, offset, length) ==
    LET n == Shrunk(inode, offset, length)
        first == offset \div block_size
        rounds == LastBlock(offset, n) - first + 1
        after[k \in 0 .. rounds] ==
            IF k = 0 THEN [offset |-> offset, length |-> n, buf |-> <<>>]
            ELSE CopyBlock(inode, first + k - 1, after[k - 1])
    IN  IF offset >= length_in_b[inode] THEN <<>>
        ELSE after[rounds].buf
============================================================================
