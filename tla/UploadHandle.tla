---------------------------- MODULE UploadHandle ----------------------------
(***************************************************************************)
(* UploadHandle::next of src/src/utils.cpp: the next upload handle, made  *)
(* by incrementing the handle's bytes as one counter whose lowest digit   *)
(* is the byte at the highest address (ptr starts at &h + 1 and walks     *)
(* down), skipping UNDEF and every handle whose top two bytes are zero    *)
(* (those could clash with a NodeHandle).                                 *)
(*                                                                         *)
(* A handle is the sequence of its bytes in memory order; on the          *)
(* little-endian platforms the SDK runs on, b[1] is the least significant *)
(* byte of the value and b[HANDLE_BYTES] the most significant.            *)
(***************************************************************************)
EXTENDS Integers, Sequences, SequencesExt

CONSTANTS
  HANDLE_BYTES,   \* sizeof(handle): 8
  BYTE_MOD        \* values of a byte: 256

ASSUME HANDLE_BYTES >= 3 /\ BYTE_MOD >= 2

Handles == [1..HANDLE_BYTES -> 0..(BYTE_MOD - 1)]

UNDEF == [i \in 1..HANDLE_BYTES |-> BYTE_MOD - 1]
Zero  == [i \in 1..HANDLE_BYTES |-> 0]

(* (h & 0xFFFF000000000000) == 0: the two most significant bytes are 0.   *)
TopTwoZero(b) == b[HANDLE_BYTES] = 0 /\ b[HANDLE_BYTES - 1] = 0

(* while (!++*--ptr): increment the byte below ptr, and go on to the one  *)
(* below it while the increment wrapped to 0.  A carry out of b[1] would *)
(* write before &h; overrun records that.                                 *)
RECURSIVE Increment(_, _)
Increment(b, i) ==
  IF i = 0 THEN [h |-> b, overrun |-> TRUE]
  ELSE LET c == [b EXCEPT ![i] = (@ + 1) % BYTE_MOD]
       IN IF c[i] = 0 THEN Increment(c, i - 1) ELSE [h |-> c, overrun |-> FALSE]

(* Mutation of NextLoop that only skips UNDEF, not a clashing handle.    *)
RECURSIVE NextLoopNoClashCheck(_)
NextLoopNoClashCheck(b) ==
  LET r == Increment(IF b = UNDEF THEN Zero ELSE b, HANDLE_BYTES)
  IN IF ~r.overrun /\ r.h = UNDEF THEN NextLoopNoClashCheck(r.h) ELSE r

(* The do-while loop: reset UNDEF to 0, increment, and repeat while the  *)
(* result clashes with a NodeHandle or is UNDEF.                         *)
RECURSIVE NextLoop(_)
NextLoop(b) ==
  LET r == Increment(IF b = UNDEF THEN Zero ELSE b, HANDLE_BYTES)
  IN IF ~r.overrun /\ (TopTwoZero(r.h) \/ r.h = UNDEF) THEN NextLoop(r.h) ELSE r

=============================================================================
