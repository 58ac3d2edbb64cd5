----------------------------- MODULE ChunkedHash -----------------------------
(***************************************************************************)
(* Chunk boundaries of the MEGA file MAC scheme (ChunkedHash::chunkfloor / *)
(* chunkceil in src/src/utils.cpp) and the chunk walk generateMetaMac uses *)
(* to recompute a local file's meta-MAC.  Chunks 1..8 have sizes           *)
(* SEGSIZE, 2*SEGSIZE, ..., 8*SEGSIZE; every later chunk has 8*SEGSIZE.    *)
(*                                                                         *)
(* One model unit is one byte scaled by the segment size: the cfg uses     *)
(* SEGSIZE = 1, SZ_128K = 1 and SZ_1024K = 8, which is the code's          *)
(* 128 KiB / 1 MiB relation.                                               *)
(***************************************************************************)
EXTENDS Integers, Sequences, Bitwise

CONSTANTS
  SEGSIZE,    \* ChunkedHash::SEGSIZE (131072 in the SDK)
  SZ_128K,    \* generateMetaMac's growth step (128 KiB)
  SZ_1024K    \* generateMetaMac's maximal read (1 MiB)

ASSUME SEGSIZE \in Nat \ {0} /\ SZ_128K \in Nat \ {0} /\ SZ_1024K \in Nat \ {0}

(* The low 16 bits of the two's complement value -(8 * SEGSIZE).  Every   *)
(* offset of a model is below 2^16, so x & -(8*SEGSIZE) = x & MaskSteady. *)
MaskSteady == 2^16 - 8 * SEGSIZE

(* Mutation of FloorLoop that also accepts p = np as inside the chunk.   *)
RECURSIVE FloorLoopInclusive(_, _, _)
FloorLoopInclusive(p, cp, i) ==
  IF i > 8
  THEN ((p - cp) & MaskSteady) + cp
  ELSE LET np == cp + i * SEGSIZE
       IN IF p >= cp /\ p <= np THEN cp ELSE FloorLoopInclusive(p, np, i + 1)

(* chunkfloor(p): the loop over the first 8 growing chunks, then the mask *)
(* that rounds down to a multiple of 8*SEGSIZE past the 8th boundary.     *)
RECURSIVE FloorLoop(_, _, _)
FloorLoop(p, cp, i) ==
  IF i > 8
  THEN ((p - cp) & MaskSteady) + cp
  ELSE LET np == cp + i * SEGSIZE
       IN IF p >= cp /\ p < np THEN cp ELSE FloorLoop(p, np, i + 1)

ChunkFloor(p) == FloorLoop(p, 0, 1)

(* Mutation of Clamp that forgets the limit.                              *)
ClampIgnoringLimit(np, limit) == np

(* limit < 0 means "no limit"; otherwise the end is clamped to limit.     *)
Clamp(np, limit) == IF limit < 0 \/ np < limit THEN np ELSE limit

RECURSIVE CeilLoop(_, _, _, _)
CeilLoop(p, limit, cp, i) ==
  IF i > 8
  THEN Clamp(((p - cp) & MaskSteady) + cp + 8 * SEGSIZE, limit)
  ELSE LET np == cp + i * SEGSIZE
       IN IF p >= cp /\ p < np THEN Clamp(np, limit)
                               ELSE CeilLoop(p, limit, np, i + 1)

ChunkCeil(p, limit) == CeilLoop(p, limit, 0, 1)

(* generateMetaMac: the pieces <<start, length>> it passes to            *)
(* ctr_encrypt, in order, for a file of the given size.  chunkLength     *)
(* grows by SZ_128K per read and is capped by SZ_1024K and by what is    *)
(* left of the file.                                                      *)
MinOf(a, b) == IF a < b THEN a ELSE b

(* Mutation of MetaMacPieces that does not carry the grown length on.    *)
RECURSIVE MetaMacPiecesStale(_, _, _)
MetaMacPiecesStale(current, remaining, chunkLength) ==
  IF remaining <= 0
  THEN << >>
  ELSE LET len == MinOf(chunkLength + SZ_128K, MinOf(remaining, SZ_1024K))
       IN << <<current, len>> >> \o MetaMacPiecesStale(current + len, remaining - len, chunkLength)

RECURSIVE MetaMacPieces(_, _, _)
MetaMacPieces(current, remaining, chunkLength) ==
  IF remaining <= 0
  THEN << >>
  ELSE LET len == MinOf(chunkLength + SZ_128K, MinOf(remaining, SZ_1024K))
       IN << <<current, len>> >> \o MetaMacPieces(current + len, remaining - len, len)

GenerateMetaMacPieces(size) == MetaMacPieces(0, size, 0)

=============================================================================
