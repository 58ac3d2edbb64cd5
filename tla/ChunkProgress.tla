---------------------------- MODULE ChunkProgress ----------------------------
(***************************************************************************)
(* What chunkmac_map (src/src/utils.cpp) records for a transfer, without   *)
(* MACs, compaction or scans: how many bytes of each chunk are in hand,    *)
(* and the snapshot last saved to the transfer cache.  A download adds the *)
(* next bytes of a chunk, a confirmed upload completes a chunk, a save     *)
(* takes a snapshot, and a restart goes back to the snapshot.  Nothing     *)
(* else may change what is recorded.                                       *)
(***************************************************************************)
EXTENDS Naturals

CONSTANTS
  Chunks,      \* chunk starts of the file
  ChunkLen     \* ChunkLen[k]: the size of the chunk starting at k

VARIABLES
  got,         \* got[k]: bytes of chunk k received (or confirmed) in order
  saved        \* got as of the last save

cvars == <<got, saved>>

Init ==
  /\ got = [k \in Chunks |-> 0]
  /\ saved = got

(* The next len bytes of chunk k arrive.                                  *)
Receive(k, len) ==
  /\ len > 0 /\ got[k] + len <= ChunkLen[k]
  /\ got' = [got EXCEPT ![k] = @ + len]
  /\ UNCHANGED saved

(* The server confirms the upload of chunk k.                             *)
Confirm(k) ==
  /\ got' = [got EXCEPT ![k] = ChunkLen[k]]
  /\ UNCHANGED saved

Save ==
  /\ saved' = got
  /\ UNCHANGED got

Restore ==
  /\ got' = saved
  /\ UNCHANGED saved

Next ==
  \/ \E k \in Chunks : Confirm(k) \/ \E len \in 1..ChunkLen[k] : Receive(k, len)
  \/ Save
  \/ Restore

Spec == Init /\ [][Next]_cvars

=============================================================================
