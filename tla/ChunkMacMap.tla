----------------------------- MODULE ChunkMacMap -----------------------------
(***************************************************************************)
(* The per-transfer chunk MAC table (class chunkmac_map, utils.cpp) and    *)
(* the transfer that drives it: download pieces decrypted in place,        *)
(* upload requests encrypted into a request-local table and merged on      *)
(* confirmation, progress scans, the "macsmac so far" compaction, the      *)
(* serialization that lets a transfer resume after the client restarts,   *)
(* and the fold of the table into the file's meta-MAC.                     *)
(*                                                                         *)
(* MAC values are symbolic, under the ideal-cipher reading of AES:         *)
(*   <<lo, hi>>   the CBC-MAC state of a chunk after bytes [lo, hi) were   *)
(*                folded into it (ctr_crypt);                              *)
(*   a sequence   c1, ..., cn of chunk MACs is the block                   *)
(*                E(...E(E(0 ^ c1) ^ c2)... ^ cn): ecb_encrypt(acc ^ mac). *)
(* The all-zero block is << >>, both a fresh ChunkMAC's mac and the empty  *)
(* fold.  Two values are equal exactly when the real blocks are (up to    *)
(* AES collisions).                                                        *)
(***************************************************************************)
EXTENDS ChunkedHash, SequencesExt, FiniteSets

CONSTANTS
  FileSize,     \* size of the transferred file (model units)
  FoldMargin,   \* updateMacsmacProgress: 5 MiB margin behind progresscontiguous
  MinEntries,   \* updateMacsmacProgress: keep more than 32*3+5 entries
  Conns,        \* upload connections, each with at most one request in flight
  MaxCrashes,   \* bound on client restarts
  MaxReqSize,   \* expandUnprocessedPiece: maximal size of one download request
  RAIDLINE      \* the RAID stripe line that copyEntriesToUntilRaidlineBeforePos aligns to

Up   == "up"
Down == "down"

(* Chunk starts of the file and the end of the chunk starting at k.       *)
Chunks == {p \in 0..(FileSize - 1) : ChunkFloor(p) = p}
ChunkEnd(k) == ChunkCeil(k, FileSize)

ASSUME FileSize \in Nat \ {0}
ASSUME MinEntries \in Nat
(* The 5 MiB margin exceeds the largest chunk (1 MiB) in the code.         *)
ASSUME \A k \in Chunks : FoldMargin >= ChunkEnd(k) - k

(* ChunkMAC::offset holds unsigned(-1) in the entry that carries the      *)
(* macsmac of all chunks up to its key.  Only equality is ever applied to *)
(* the sentinel, and no real offset reaches it.                           *)
OFFSET_SOFAR == -1

ZeroBlock == << >>

(* A default-constructed ChunkMAC, as mMacMap[pos] creates it.            *)
NewChunkMAC == [mac |-> ZeroBlock, offset |-> 0, finished |-> FALSE]

IsMacsmacSoFar(e) == e.offset = OFFSET_SOFAR
NotStarted(e)     == e.offset = 0 /\ ~e.finished

EmptyMap == [k \in {} |-> NewChunkMAC]

VARIABLES
  macMap,              \* chunkmac_map::mMacMap: chunk start -> ChunkMAC
  macsmacSoFarPos,     \* chunkmac_map::macsmacSoFarPos
  progresscontiguous,  \* chunkmac_map::progresscontiguous
  dir,                 \* the transfer direction (fixed)
  reqMacs,             \* each upload connection's request-local chunkmac_map
  persisted,           \* the table as last serialized into the transfer DB
  crashes,             \* restarts so far
  calcSinceLoad        \* history: calcprogress has run since the table was
                       \* last unserialized (TRUE for a fresh table)

vars == <<macMap, macsmacSoFarPos, progresscontiguous, dir, reqMacs,
          persisted, crashes, calcSinceLoad>>

SortedKeys(m) == SetToSortSeq(DOMAIN m, <)

FinishedAt(m, pos) == pos \in DOMAIN m /\ m[pos].finished

-----------------------------------------------------------------------------
(* Queries of the table (no state change).                                *)

(* macsmac: fold the entries in ascending order; the so-far entry seeds   *)
(* the accumulator, every other entry is xored in and encrypted.  The     *)
(* final 128->64 bit fold of the accumulator is the fixed map MetaMac.    *)
MetaMac(block) == [metamac |-> block]

(* Mutation of MacsMacBlock that xors the so-far block in like a chunk.  *)
MacsMacBlockNoSeed(m) ==
  FoldLeft(LAMBDA acc, k : Append(acc, m[k].mac), ZeroBlock, SortedKeys(m))

MacsMacBlock(m) ==
  FoldLeft(LAMBDA acc, k : IF IsMacsmacSoFar(m[k]) THEN m[k].mac
                                                   ELSE Append(acc, m[k].mac),
           ZeroBlock, SortedKeys(m))

MacsMac(m) == MetaMac(MacsMacBlock(m))

(* macsmac_gaps: as macsmac, but entries whose ordinal n lies in          *)
(* [g1,g2) or [g3,g4) are skipped.  After the so-far entry the code adds  *)
(* one to n for every chunk boundary pos <= key, then the loop's n++.     *)
ChunksUpTo(k) == Cardinality({c \in Chunks : c <= k})

MacsMacGaps(m, g) ==
  LET skip(n) == (n >= g[1] /\ n < g[2]) \/ (n >= g[3] /\ n < g[4])
      step(acc, k) ==
        IF IsMacsmacSoFar(m[k])
        THEN [block |-> m[k].mac, n |-> acc.n + ChunksUpTo(k) + 1]
        ELSE IF skip(acc.n) THEN [acc EXCEPT !.n = @ + 1]
        ELSE [block |-> Append(acc.block, m[k].mac), n |-> acc.n + 1]
  IN MetaMac(FoldLeft(step, [block |-> ZeroBlock, n |-> 0], SortedKeys(m)).block)

(* calcprogress: the scan's result <<chunkpos, progresscompleted, so-far>>.*)
(* Mutation of CalcProgressScan that advances chunkpos over any finished *)
(* chunk, contiguous or not.                                             *)
CalcProgressScanNoContiguity(m) ==
  LET step(acc, k) ==
        LET ceil == ChunkEnd(k) IN
        IF IsMacsmacSoFar(m[k])
        THEN [chunkpos |-> ceil, completed |-> ceil, sofar |-> k]
        ELSE IF m[k].finished
        THEN [acc EXCEPT !.chunkpos = ceil, !.completed = @ + (ceil - ChunkFloor(k))]
        ELSE [acc EXCEPT !.completed = @ + m[k].offset]
  IN FoldLeft(step, [chunkpos |-> 0, completed |-> 0, sofar |-> macsmacSoFarPos],
              SortedKeys(m))

CalcProgressScan(m) ==
  LET step(acc, k) ==
        LET ceil == ChunkEnd(k) IN
        IF IsMacsmacSoFar(m[k])
        THEN [chunkpos |-> ceil, completed |-> ceil, sofar |-> k]
        ELSE IF acc.chunkpos = k /\ m[k].finished
        THEN [acc EXCEPT !.chunkpos = ceil, !.completed = ceil]
        ELSE IF m[k].finished
        THEN [acc EXCEPT !.completed = @ + (ceil - ChunkFloor(k))]
        ELSE [acc EXCEPT !.completed = @ + m[k].offset]
  IN FoldLeft(step, [chunkpos |-> 0, completed |-> 0, sofar |-> macsmacSoFarPos],
              SortedKeys(m))

(* Mutation of HasUnfinishedGap that reports any finished successor,      *)
(* without first having seen an unfinished or missing chunk.              *)
HasUnfinishedGapNoSaw(m) ==
  LET keys == SortedKeys(m)
      step(acc, i) ==
        LET k == keys[i] IN
        IF acc.gap THEN acc
        ELSE [gap |-> FinishedAt(m, ChunkEnd(k)), saw |-> acc.saw]
  IN FoldLeft(step, [gap |-> FALSE, saw |-> FALSE], [i \in 1..Len(keys) |-> i]).gap

(* hasUnfinishedGap: is some unfinished chunk followed by a finished one?  *)
HasUnfinishedGap(m) ==
  LET keys == SortedKeys(m)
      step(acc, i) ==
        LET k    == keys[i]
            saw  == acc.saw \/ ~m[k].finished
            next == ChunkEnd(k)
            nextIsExpected == i < Len(keys) /\ keys[i + 1] = next
        IN IF acc.gap THEN acc
           ELSE IF saw /\ FinishedAt(m, next) THEN [gap |-> TRUE, saw |-> saw]
           ELSE [gap |-> FALSE, saw |-> saw \/ (i < Len(keys) /\ ~nextIsExpected)]
  IN FoldLeft(step, [gap |-> FALSE, saw |-> FALSE], [i \in 1..Len(keys) |-> i]).gap

(* Mutation of NextUnprocessedPosFrom that stops at a partial chunk's   *)
(* start instead of adding its offset.                                   *)
RECURSIVE NextUnprocessedPosFromNoOffset(_, _)
NextUnprocessedPosFromNoOffset(m, pos) ==
  IF ChunkFloor(pos) \notin DOMAIN m THEN pos
  ELSE IF m[ChunkFloor(pos)].finished
       THEN NextUnprocessedPosFromNoOffset(m, ChunkCeil(pos, -1))
       ELSE pos

(* nextUnprocessedPosFrom: skip finished chunks; in an unfinished chunk   *)
(* with an entry, move past the bytes its offset says were processed.    *)
RECURSIVE NextUnprocessedPosFrom(_, _)
NextUnprocessedPosFrom(m, pos) ==
  IF ChunkFloor(pos) \notin DOMAIN m THEN pos
  ELSE IF m[ChunkFloor(pos)].finished
       THEN NextUnprocessedPosFrom(m, ChunkCeil(pos, -1))
       ELSE pos + m[ChunkFloor(pos)].offset

(* expandUnprocessedPiece: grow the request end npos chunk by chunk while *)
(* inside the file, under maxReqSize, and the chunk at npos is untouched. *)
RECURSIVE ExpandUnprocessedPiece(_, _, _, _, _)
ExpandUnprocessedPiece(m, pos, npos, fileSize, maxReqSize) ==
  IF /\ npos < fileSize
     /\ npos - pos < maxReqSize
     /\ npos \notin DOMAIN m \/ NotStarted(m[npos])
  THEN ExpandUnprocessedPiece(m, pos, ChunkCeil(npos, fileSize), fileSize, maxReqSize)
  ELSE npos

(* copyEntriesToUntilRaidlineBeforePos: maxPos is floored to a chunk     *)
(* boundary, then lowered to RAIDLINE and re-floored until it is both;     *)
(* the entries below it are copied up to the first unfinished one.  The   *)
(* result is the aligned position and the other table's new entries.      *)
(* Mutation of RaidlineFloor that does not re-floor after aligning.      *)
RECURSIVE RaidlineFloorNoRefloor(_)
RaidlineFloorNoRefloor(maxPos) ==
  IF maxPos > 0 /\ maxPos % RAIDLINE # 0
  THEN RaidlineFloorNoRefloor(maxPos - (maxPos % RAIDLINE))
  ELSE maxPos

RECURSIVE RaidlineFloor(_)
RaidlineFloor(maxPos) ==
  IF maxPos > 0 /\ maxPos % RAIDLINE # 0
  THEN RaidlineFloor(ChunkFloor(maxPos - (maxPos % RAIDLINE)))
  ELSE maxPos

CopyEntriesToUntilRaidlineBeforePos(m, maxPos) ==
  LET pos  == RaidlineFloor(ChunkFloor(maxPos))
      stop == {k \in DOMAIN m : k >= pos \/ ~m[k].finished}
      keep == {k \in DOMAIN m : \A s \in stop : k < s}
  IN [pos |-> pos, copied |-> IF pos = 0 THEN EmptyMap ELSE [k \in keep |-> m[k]]]

-----------------------------------------------------------------------------
(* updateMacsmacProgress: the loop, one iteration per CompactStep.         *)
(* Mutation of CompactCond without the margin behind progresscontiguous. *)
CompactCondNoMargin(s) ==
  /\ s.sofar < s.pc
  /\ Cardinality(DOMAIN s.map) > MinEntries

CompactCond(s) ==
  /\ s.sofar + FoldMargin < s.pc
  /\ Cardinality(DOMAIN s.map) > MinEntries

CompactStep(s) ==
  LET first == Min(DOMAIN s.map) IN
  IF IsMacsmacSoFar(s.map[first])
  THEN LET next == Min(DOMAIN s.map \ {first})
           e    == [s.map[next] EXCEPT !.mac = Append(s.map[first].mac, s.map[next].mac),
                                       !.offset = OFFSET_SOFAR]
       IN [s EXCEPT !.map = [k \in DOMAIN s.map \ {first} |->
                                IF k = next THEN e ELSE s.map[k]],
                    !.sofar = next]
  ELSE IF first = 0 /\ FinishedAt(s.map, 0)
  THEN [s EXCEPT !.map[0] = [s.map[0] EXCEPT !.mac = Append(ZeroBlock, s.map[0].mac),
                                             !.offset = OFFSET_SOFAR],
                 !.sofar = 0]
  ELSE s   \* neither branch applies: the code's loop spins forever here

RECURSIVE Compact(_)
Compact(s) ==
  IF CompactCond(s) /\ CompactStep(s) /= s THEN Compact(CompactStep(s)) ELSE s

(* updateContiguousProgress: advance over finished chunks.                *)
(* Mutation of AdvanceContiguous that steps over any existing entry.     *)
RECURSIVE AdvanceOverEntries(_, _)
AdvanceOverEntries(m, p) ==
  IF p \in DOMAIN m THEN AdvanceOverEntries(m, ChunkEnd(p)) ELSE p

RECURSIVE AdvanceContiguous(_, _)
AdvanceContiguous(m, p) ==
  IF FinishedAt(m, p) THEN AdvanceContiguous(m, ChunkEnd(p)) ELSE p

(* serialize: entry count as unsigned short, then (pos, ChunkMAC) pairs. *)
Serialize(m) ==
  [count |-> Cardinality(DOMAIN m) % 2^16,
   entries |-> [i \in 1..Cardinality(DOMAIN m) |-> <<SortedKeys(m)[i], m[SortedKeys(m)[i]]>>]]

(* unserialize into a fresh chunkmac_map: read count entries; an entry   *)
(* carrying the so-far sentinel sets macsmacSoFarPos.                    *)
UnserializeMap(d) ==
  LET read == SubSeq(d.entries, 1, d.count)
  IN [k \in {read[i][1] : i \in 1..d.count} |->
        read[CHOOSE i \in 1..d.count : read[i][1] = k][2]]

(* unserialize sets macsmacSoFarPos to the key of the last so-far entry *)
(* it reads, in key order; -1 (the fresh map's value) if there is none.  *)
UnserializedSoFarPos(m) ==
  LET soFarKeys == {k \in DOMAIN m : IsMacsmacSoFar(m[k])}
  IN IF soFarKeys = {} THEN -1 ELSE Max(soFarKeys)

-----------------------------------------------------------------------------
Init ==
  /\ macMap = EmptyMap
  /\ macsmacSoFarPos = -1
  /\ progresscontiguous = 0
  /\ dir \in {Up, Down}
  /\ reqMacs = [c \in Conns |-> EmptyMap]
  /\ persisted = Serialize(EmptyMap)
  /\ crashes = 0
  /\ calcSinceLoad = TRUE

InFlight == UNION {DOMAIN reqMacs[c] : c \in Conns}

(* Mutation of CtrDecrypt that does not reset offset when the piece     *)
(* finishes the chunk.                                                    *)
CtrDecryptNoOffsetReset(k, len) ==
  LET e        == IF k \in DOMAIN macMap THEN macMap[k] ELSE NewChunkMAC
      startpos == k + e.offset
      endpos   == startpos + len
      finishes == endpos = ChunkEnd(k)
      mac      == IF NotStarted(e) THEN <<startpos, endpos>> ELSE <<e.mac[1], endpos>>
  IN
  /\ dir = Down
  /\ k > macsmacSoFarPos
  /\ ~e.finished
  /\ endpos <= ChunkEnd(k)
  /\ macMap' = (k :> [mac |-> mac, offset |-> e.offset + len, finished |-> finishes])
               @@ macMap
  /\ UNCHANGED <<macsmacSoFarPos, progresscontiguous, dir, reqMacs, persisted, crashes, calcSinceLoad>>

(* ctr_decrypt of one piece of a download: the caller delivers the bytes  *)
(* of a chunk in order, from where the chunk's progress stands.           *)
CtrDecrypt(k, len) ==
  LET e        == IF k \in DOMAIN macMap THEN macMap[k] ELSE NewChunkMAC
      startpos == k + e.offset
      endpos   == startpos + len
      finishes == endpos = ChunkEnd(k)
      mac      == IF NotStarted(e) THEN <<startpos, endpos>> ELSE <<e.mac[1], endpos>>
  IN
  /\ dir = Down
  /\ k > macsmacSoFarPos
  /\ ~e.finished
  /\ endpos <= ChunkEnd(k)
  /\ macMap' = (k :> [mac |-> mac,
                      offset |-> IF finishes THEN 0 ELSE e.offset + len,
                      finished |-> finishes]) @@ macMap
  /\ UNCHANGED <<macsmacSoFarPos, progresscontiguous, dir, reqMacs, persisted, crashes, calcSinceLoad>>

(* Mutation of CtrEncrypt that also records the chunk, finished, in the   *)
(* transfer's table before the server has confirmed it.                   *)
CtrEncryptIntoTable(c, k) ==
  /\ dir = Up
  /\ reqMacs[c] = EmptyMap
  /\ k > macsmacSoFarPos
  /\ ~FinishedAt(macMap, k)
  /\ k \notin InFlight
  /\ reqMacs' = [reqMacs EXCEPT ![c] =
                   (k :> [mac |-> <<k, ChunkEnd(k)>>, offset |-> 0, finished |-> FALSE])]
  /\ macMap' = (k :> [mac |-> <<k, ChunkEnd(k)>>, offset |-> 0, finished |-> TRUE]) @@ macMap
  /\ UNCHANGED <<macsmacSoFarPos, progresscontiguous, dir, persisted, crashes, calcSinceLoad>>

(* ctr_encrypt of a whole chunk into connection c's request table; the    *)
(* chunk becomes finished only when the server confirms it.               *)
CtrEncrypt(c, k) ==
  /\ dir = Up
  /\ reqMacs[c] = EmptyMap
  /\ k > macsmacSoFarPos
  /\ ~FinishedAt(macMap, k)
  /\ k \notin InFlight
  /\ reqMacs' = [reqMacs EXCEPT ![c] =
                   (k :> [mac |-> <<k, ChunkEnd(k)>>, offset |-> 0, finished |-> FALSE])]
  /\ UNCHANGED <<macMap, macsmacSoFarPos, progresscontiguous, dir, persisted, crashes, calcSinceLoad>>

(* finishedUploadChunks: the request's chunks are confirmed by the server *)
(* and copied, marked finished, into the transfer's table.                *)
FinishedUploadChunks(c) ==
  /\ reqMacs[c] /= EmptyMap
  /\ macMap' = [k \in DOMAIN reqMacs[c] |-> [reqMacs[c][k] EXCEPT !.finished = TRUE]]
               @@ macMap
  /\ reqMacs' = [reqMacs EXCEPT ![c] = EmptyMap]
  /\ UNCHANGED <<macsmacSoFarPos, progresscontiguous, dir, persisted, crashes, calcSinceLoad>>

(* The upload request fails; its request table is dropped.               *)
UploadFailed(c) ==
  /\ reqMacs[c] /= EmptyMap
  /\ reqMacs' = [reqMacs EXCEPT ![c] = EmptyMap]
  /\ UNCHANGED <<macMap, macsmacSoFarPos, progresscontiguous, dir, persisted, crashes, calcSinceLoad>>

CalcProgress ==
  LET r == CalcProgressScan(macMap) IN
  /\ progresscontiguous' = r.chunkpos
  /\ macsmacSoFarPos' = r.sofar
  /\ calcSinceLoad' = TRUE
  /\ UNCHANGED <<macMap, dir, reqMacs, persisted, crashes>>

UpdateContiguousProgress ==
  /\ progresscontiguous > macsmacSoFarPos
  /\ progresscontiguous' = AdvanceContiguous(macMap, progresscontiguous)
  /\ UNCHANGED <<macMap, macsmacSoFarPos, dir, reqMacs, persisted, crashes, calcSinceLoad>>

UpdateMacsmacProgress ==
  LET r == Compact([map |-> macMap, sofar |-> macsmacSoFarPos, pc |-> progresscontiguous])
  IN
  /\ macMap' = r.map
  /\ macsmacSoFarPos' = r.sofar
  /\ UNCHANGED <<progresscontiguous, dir, reqMacs, persisted, crashes, calcSinceLoad>>

SaveToDb ==
  /\ persisted' = Serialize(macMap)
  /\ UNCHANGED <<macMap, macsmacSoFarPos, progresscontiguous, dir, reqMacs, crashes, calcSinceLoad>>

(* The client restarts: in-flight requests are lost and the transfer     *)
(* resumes from a fresh chunkmac_map unserialized from the DB.           *)
Restart ==
  LET m == UnserializeMap(persisted) IN
  /\ crashes < MaxCrashes
  /\ macMap' = m
  /\ macsmacSoFarPos' = UnserializedSoFarPos(m)
  /\ progresscontiguous' = 0
  /\ reqMacs' = [c \in Conns |-> EmptyMap]
  /\ crashes' = crashes + 1
  /\ calcSinceLoad' = FALSE
  /\ UNCHANGED <<dir, persisted>>

Next ==
  \/ \E k \in Chunks, len \in 1..FileSize : CtrDecrypt(k, len)
  \/ \E c \in Conns, k \in Chunks : CtrEncrypt(c, k)
  \/ \E c \in Conns : FinishedUploadChunks(c) \/ UploadFailed(c)
  \/ CalcProgress
  \/ UpdateContiguousProgress
  \/ UpdateMacsmacProgress
  \/ SaveToDb
  \/ Restart

Spec == Init /\ [][Next]_vars

-----------------------------------------------------------------------------
(* The bytes of chunk k a table records: all of a folded or finished     *)
(* chunk, the offset of a partial one, none of a chunk without an entry.  *)
GotOf(m, sofar, k) ==
  IF k <= sofar \/ FinishedAt(m, k) THEN ChunkEnd(k) - k
  ELSE IF k \in DOMAIN m THEN m[k].offset ELSE 0

GotView(m, sofar) == [k \in Chunks |-> GotOf(m, sofar, k)]

CP == INSTANCE ChunkProgress WITH
        ChunkLen <- [k \in Chunks |-> ChunkEnd(k) - k],
        got <- GotView(macMap, macsmacSoFarPos),
        saved <- LET m == UnserializeMap(persisted)
                 IN GotView(m, UnserializedSoFarPos(m))

(* chunkmac_map implements the transfer progress of ChunkProgress: the    *)
(* bytes it records change only by a received piece or a confirmed        *)
(* upload, compaction, the progress scans, request tables and failed      *)
(* uploads leave them alone, and a restart returns exactly to the view    *)
(* of the table last serialized.                                          *)
ImplementsChunkProgress == CP!Spec

(* Byte b of the file has been received and decrypted: its chunk is      *)
(* folded or finished, or lies below the chunk's offset.                  *)
Received(b) ==
  LET k == ChunkFloor(b) IN
  \/ k <= macsmacSoFarPos
  \/ FinishedAt(macMap, k)
  \/ k \in DOMAIN macMap /\ b < k + macMap[k].offset

(* The next download request, as the transfer slot picks it from a chunk  *)
(* boundary pos: nextUnprocessedPosFrom(pos), then expandUnprocessedPiece *)
(* from the end of that chunk.                                            *)
NextPiece(pos) ==
  LET p == NextUnprocessedPosFrom(macMap, pos)
  IN <<p, ExpandUnprocessedPiece(macMap, p, ChunkCeil(p, FileSize), FileSize, MaxReqSize)>>

(* The meta-MAC generateMetaMac computes from the local file: the chain  *)
(* of every chunk's full MAC in file order.                               *)
RefBlock ==
  LET pieces == GenerateMetaMacPieces(FileSize)
  IN [i \in 1..Len(pieces) |-> <<pieces[i][1], pieces[i][1] + pieces[i][2]>>]

RefMetaMac == MetaMac(RefBlock)

RefBlockUpTo(k) == SelectSeq(RefBlock, LAMBDA c : c[1] <= k)

ChunkMacValue(k) ==
  {<<k, hi>> : hi \in (k + 1)..ChunkEnd(k)} \cup {ZeroBlock}

EntryOK(k, e) ==
  \/ /\ e.offset \in 0..(ChunkEnd(k) - k - 1)
     /\ e.mac \in ChunkMacValue(k)
     /\ e.finished \in BOOLEAN
  \/ /\ e.offset = OFFSET_SOFAR
     /\ e.finished = TRUE

TypeOK ==
  /\ DOMAIN macMap \subseteq Chunks
  /\ \A k \in DOMAIN macMap : EntryOK(k, macMap[k])
  /\ macsmacSoFarPos \in {-1} \cup Chunks
  /\ progresscontiguous \in {0, FileSize} \cup Chunks
  /\ dir \in {Up, Down}
  /\ \A c \in Conns : DOMAIN reqMacs[c] \subseteq Chunks
  /\ crashes \in 0..MaxCrashes
  /\ calcSinceLoad \in BOOLEAN

(* The compaction invariant of chunkmac_map (spec 3, 4.4): the table has  *)
(* at most one so-far entry, it is the first entry, its key is            *)
(* macsmacSoFarPos, and the block it carries is the MAC chain of exactly  *)
(* the chunks up to that key.  Breaking it takes a fold that absorbs an   *)
(* unfinished or missing chunk, or a restart that loses the position.     *)
MacsmacSoFarSound ==
  /\ \A k \in DOMAIN macMap : IsMacsmacSoFar(macMap[k]) => k = macsmacSoFarPos
  /\ macsmacSoFarPos >= 0 =>
       /\ macsmacSoFarPos = Min(DOMAIN macMap)
       /\ IsMacsmacSoFar(macMap[macsmacSoFarPos])
       /\ macsmacSoFarPos \in DOMAIN macMap
       /\ macMap[macsmacSoFarPos].mac = RefBlockUpTo(macsmacSoFarPos)

(* progresscontiguous, cached by calcprogress and updateContiguousProgress *)
(* and trusted by updateMacsmacProgress, is never ahead of the table:      *)
(* every chunk below it is folded or finished, across out-of-order         *)
(* completion, failed uploads and restarts.                               *)
ProgressContiguousSound ==
  \A k \in Chunks : k < progresscontiguous =>
    k <= macsmacSoFarPos \/ FinishedAt(macMap, k)

(* updateMacsmacProgress never spins: whenever its loop condition holds,  *)
(* the first entry is the so-far entry or a finished chunk 0, so one of   *)
(* the two branches makes progress.                                       *)
NoCompactionSpin ==
  LET s == [map |-> macMap, sofar |-> macsmacSoFarPos, pc |-> progresscontiguous]
  IN CompactCond(s) =>
       \/ IsMacsmacSoFar(macMap[Min(DOMAIN macMap)])
       \/ Min(DOMAIN macMap) = 0 /\ FinishedAt(macMap, 0)

(* When calcprogress reports the whole file completed, macsmac of the      *)
(* table equals the meta-MAC generateMetaMac computes from the file, so    *)
(* CompareLocalFileMetaMacWithNodeKey accepts the transfer: whatever the   *)
(* order chunks finished in, the compactions in between, and the restarts *)
(* from the DB.                                                            *)
FileMacVerifies ==
  CalcProgressScan(macMap).completed = FileSize => MacsMac(macMap) = RefMetaMac

(* macsmac_gaps with ranges that exclude chunks by ordinal computes the   *)
(* same value whether or not compaction folded a prefix (spec 4.5, 8):     *)
(* the chain over the chunks whose ordinal is not excluded.               *)
GapChoices == {<<1, 2, 0, 0>>, <<2, 3, 0, 0>>}

RefGapsMac(g) ==
  LET ord(c) == Cardinality({x \in Chunks : x < c[1]})
      keep(c) == ~((ord(c) >= g[1] /\ ord(c) < g[2]) \/ (ord(c) >= g[3] /\ ord(c) < g[4]))
  IN MetaMac(SelectSeq(RefBlock, keep))

MacsMacGapsTransparent ==
  CalcProgressScan(macMap).completed = FileSize =>
    \A g \in GapChoices : MacsMacGaps(macMap, g) = RefGapsMac(g)

(* The download range selection of nextUnprocessedPosFrom and             *)
(* expandUnprocessedPiece asks for exactly the missing bytes: from any     *)
(* chunk boundary past the folded prefix, every byte it skips has been    *)
(* received and no byte of the chosen piece has, whatever mix of partial, *)
(* finished, compacted and restored entries the table holds.              *)
PieceIsUnreceived ==
  \A pos \in Chunks : pos > macsmacSoFarPos =>
    LET piece == NextPiece(pos) IN
    /\ \A b \in pos..(piece[1] - 1) : b < FileSize => Received(b)
    /\ \A b \in piece[1]..(piece[2] - 1) : ~Received(b)

(* copyEntriesToUntilRaidlineBeforePos hands off what spec 4 promises    *)
(* for the multi-connection switch: for every maxPos it returns the       *)
(* largest offset at or below it that is a chunk boundary and a multiple *)
(* of RAIDLINE, and it copies only finished entries below that offset,   *)
(* unchanged, whatever the table holds at that moment.                    *)
AlignedBoundaryBelow(maxPos) ==
  Max({b \in 0..maxPos : ChunkFloor(b) = b /\ b % RAIDLINE = 0})

RaidlineCopySound ==
  \A maxPos \in 0..FileSize :
    LET r == CopyEntriesToUntilRaidlineBeforePos(macMap, maxPos) IN
    /\ r.pos = AlignedBoundaryBelow(maxPos)
    /\ \A k \in DOMAIN r.copied :
         k < r.pos /\ FinishedAt(macMap, k) /\ r.copied[k] = macMap[k]

(* hasUnfinishedGap never reports a gap that is not there: whenever it    *)
(* returns true, some chunk past the folded prefix that is not finished   *)
(* (a partial entry or no entry at all) lies before a finished chunk of  *)
(* the table.  The converse does not hold (see README): the scan misses   *)
(* gaps before the first entry and some gaps between entries.             *)
Settled(m, c) ==
  FinishedAt(m, c) \/ \E j \in DOMAIN m : IsMacsmacSoFar(m[j]) /\ c <= j

HasUnfinishedGapSound ==
  HasUnfinishedGap(macMap) =>
    \E c \in Chunks, k \in DOMAIN macMap :
      c < k /\ macMap[k].finished /\ ~Settled(macMap, c)

(* The assertion of updateContiguousProgress (progresscontiguous >        *)
(* macsmacSoFarPos) holds in every state reached after calcprogress has   *)
(* run on the table last unserialized: decrypts, encrypts, confirmations, *)
(* compactions and saves interleaved in any order never move the so-far   *)
(* position up to the contiguous progress.  Only a restart, before its    *)
(* calcprogress, leaves it false.                                          *)
ContiguousAheadOfSoFar ==
  calcSinceLoad => progresscontiguous > macsmacSoFarPos

=============================================================================
