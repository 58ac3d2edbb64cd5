# TLA+ models of the MEGA C++ SDK

This directory has TLA+ specifications of parts of the MEGA C++ SDK under
`src/`, and the TLC configurations that check them. They cover:

* file integrity: the per-chunk MAC table (`chunkmac_map`) of every
  transfer and the chunk grid (`ChunkedHash`) it is built on;
* the API command queue (`RequestDispatcher`);
* the worker thread pool (`MegaClientAsyncQueue`);
* the backup heartbeats (`BackupMonitor`);
* the gfx worker's socket I/O (`SocketUtils`);
* the cache record codec (`CacheableWriter` / `CacheableReader`);
* the pure algorithms of `utils.cpp`: natural sort, wildcard match,
  `readLines`, and the LIKE matcher of name and tag search
  (`icuLikeCompare`, `escapeWildCards`), the UTF-8 to Latin-1
  decoder `Utils::utf8toUnicode`, and the upload handle generator
  `UploadHandle::next`.

`PROJECT.json` lists every component, every run, the mutants that show
each property can fail, the source lines each definition models, the
findings and the hazards.

## The system: parts and how they interact

| Part | Source | State | Operations |
|---|---|---|---|
| Chunk grid | `utils.cpp` `ChunkedHash::chunkfloor/chunkceil` (1216–1258) | none (pure) | floor and ceil of an offset |
| Chunk MAC table | `utils.cpp` `chunkmac_map` (468–880) | `mMacMap` (chunk start → `ChunkMAC{mac, offset, finished}`), `macsmacSoFarPos`, `progresscontiguous` | `ctr_encrypt`, `ctr_decrypt`, `finishedUploadChunks`, `calcprogress`, `updateContiguousProgress`, `updateMacsmacProgress`, `serialize`/`unserialize`, `macsmac`, `macsmac_gaps`, `hasUnfinishedGap`, `nextUnprocessedPosFrom`, `expandUnprocessedPiece`, `copyEntries*`, `swap` |
| Local meta-MAC check | `utils.cpp` `generateMetaMac`, `CompareLocalFileMetaMacWithNodeKey` (2450–2497) | a private table | read the file in growing pieces, encrypt, fold |
| Command batching | `request.cpp` `Request`, `RequestDispatcher` | `nextreqs`, `inflightreq`, processing flags, `clearWhenSafe` | add, serverrequest, serverresponse, servererror, requeue, continueProcessing, clear |
| Async worker queue | `utils.cpp` `MegaClientAsyncQueue` (2504–2580) | job deque, mutex, condition variable, threads | push, worker loop, clearDiscardable, destructor |
| Backup heartbeats | `heartbeats.cpp` | `mSending`, `mModified`, `lastBeat`, per-sync info | beat, beatBackupInfo, updateOrRegisterSync, completion callback |
| Gfx worker sockets | `posix/gfx/worker/socket_utils.cpp` | none (OS) | poll with EINTR retry, read/write loops with timeout |
| Cache record codec | `utils.cpp` `CacheableWriter` / `CacheableReader` (203–466, 882–1110) | the reader's `ptr`, `end`, `fieldnum` | `serialize*`, `unserialize*` |
| Text utilities | `utils.cpp` `naturalsorting_compare` (3543–3666), `wildcardMatch` (2690–2738), `readLines` (2628–2685), `icuLikeCompare`/`escapeWildCards`/`TextPattern` (3210–3442) | none (pure) | compare, match, split, LIKE match, escape |

A transfer has one main `chunkmac_map`. Each HTTP request (upload) or
connection (download) works on chunks of the grid. When data arrives
(`ctr_decrypt`) or is sent and confirmed (`ctr_encrypt` into the request's
own table, then `finishedUploadChunks`), the entries become finished.
`calcprogress` and `updateContiguousProgress` track how far from the start
every chunk is finished. `updateMacsmacProgress` then folds that prefix
into a single "so far" entry (`offset == -1`) to bound the table's size.
The table is saved to the transfer cache (`serialize`) and reloaded after a
restart (`unserialize`). At the end, `macsmac` folds the table into the
file's meta-MAC. `CompareLocalFileMetaMacWithNodeKey` later recomputes the
meta-MAC from the file on disk through `generateMetaMac`. The two must
agree.

## Modules

* `ChunkedHash.tla` models the chunk grid and generateMetaMac's read pieces.
  * `FloorLoop`/`ChunkFloor` and `CeilLoop`/`ChunkCeil`/`Clamp` translate
    the two loops and the final mask.
  * The mask `& -(8*SEGSIZE)` is a Bitwise `&` with its 16-bit two's
    complement (`MaskSteady`).
  * `MetaMacPieces` is the `while (remaining > 0)` loop of
    `generateMetaMac`.
* `ChunkMacMap.tla` models the chunk MAC table during one transfer.
  * Variables:
    * `macMap`: chunk start ↦ `[mac, offset, finished]`.
    * `macsmacSoFarPos`.
    * `progresscontiguous`.
    * `dir`: download or upload.
    * `reqMacs`: each connection's private table for an upload request in
      flight.
    * `persisted`: what `serialize` last wrote.
    * `crashes`.
    * `calcSinceLoad`: a history variable, not state of the code. It is
      true when `calcprogress` has run since the table was last
      unserialized; a fresh table starts with it true.
  * MACs are symbolic, read under an ideal-cipher assumption.
    * A chunk's CBC-MAC is the pair `<<lo, hi>>` of the bytes it covers.
      A partial decrypt followed by its continuation gives the pair of the
      whole chunk.
    * The chained ECB fold is the sequence of chunk MACs it has absorbed.
      The so-far entry therefore carries the sequence of the prefix it
      folded.
    * The 128→64 condensation is `MetaMac`.

  | Action | Code |
  |---|---|
  | `CtrDecrypt(k, len)` | `ctr_decrypt` for a piece of chunk `k`, finishing or partial |
  | `CtrEncrypt(c, k)` | `ctr_encrypt` of a whole chunk into connection `c`'s request table |
  | `FinishedUploadChunks(c)` | request confirmed: `finishedUploadChunks` |
  | `UploadFailed(c)` | the request's table is discarded |
  | `CalcProgress` | `calcprogress` |
  | `UpdateContiguousProgress` | `updateContiguousProgress`, under its assertion |
  | `UpdateMacsmacProgress` | `updateMacsmacProgress`: the whole loop, as the recursive `Compact` |
  | `SaveToDb` | `serialize` into the cache |
  | `Restart` | a fresh `chunkmac_map` that `unserialize`s the cache; `progresscontiguous` restarts at 0 and requests in flight are lost |

  * When neither branch of the `updateMacsmacProgress` loop applies, the
    loop spins forever. `CompactStep` models that by returning its
    argument unchanged, and `NoCompactionSpin` checks that it never
    happens.
  * `NextUnprocessedPosFrom` and `ExpandUnprocessedPiece` translate the
    two loops that pick the next download request. `NextPiece(pos)`
    composes them as the transfer slot does: the piece starts at
    `nextUnprocessedPosFrom(pos)` and is expanded from the end of that
    chunk, up to `MaxReqSize`. `Received(b)` says which bytes the table
    records as received.
  * `RaidlineFloor` and `CopyEntriesToUntilRaidlineBeforePos` translate
    the hand-off of a table to another transfer strategy: `maxPos` is
    floored to a chunk boundary, then aligned to `RAIDLINE` and floored
    again until it is both, and the finished entries below it are copied
    up to the first unfinished one. `RAIDLINE` is defined outside `src/`
    and is a constant of the model.
  * `ImplementsChunkProgress` checks that the table refines
    `ChunkProgress.tla`. The mapping `GotView` reads each chunk's
    received bytes off the table as `calcprogress` counts them: all of a
    folded or finished chunk, the offset of a partial one. The saved
    view is the same reading of the table `unserialize` would rebuild
    from `persisted`.
  * An upload chunk is written only to its request's table, and becomes
    finished in the transfer's table only on confirmation. The model's
    `CtrEncrypt` does the same, so a failed request leaves the transfer
    table untouched. The mutant `CtrEncryptIntoTable` marks the chunk
    finished at encryption time. It breaks both `ImplementsChunkProgress`
    and `FileMacVerifies`.
* `ChunkProgress.tla` is the abstract transfer progress: `got[k]`, the
  bytes of chunk `k` in hand, and `saved`, the snapshot of the last
  save. `Receive(k, len)` adds the next bytes of a chunk, `Confirm(k)`
  completes an uploaded chunk, `Save` takes a snapshot and `Restore`
  returns to it. Compaction, scans, request tables and failed uploads
  must be stuttering steps.
* `MCChunkMacMap.tla` instantiates `ChunkMacMap` with two connections as
  model values and symmetry over them.

* `RequestDispatcher.tla` models `request.cpp`.
  * Variables: `nextreqs`, `inflightreq`, `processing` and
    `clearWhenSafe` are the dispatcher's fields. `caller` is the
    dispatcher method on the stack of `Request::process`. `stReply` holds
    the in-flight commands whose reply is a seqtag not yet seen. The ghost
    variables `added`, `results`, `doomed` and `lost` record history.
  * Commands are model values. JSON is abstracted to which commands a
    batch holds.
  * Actions: `Add` (with `AddTo`: new batch for batch-separate and v3
    commands, `MAX_COMMANDS`), `ServerRequest`, `Requeue`,
    `ServerResponse`, `ServerError`, `ProcessCmd` and its variants where
    the procresult adds commands (`ProcessCmdAdds`) or calls `clear()`
    (`ProcessCmdClears`), `FinishProcess`, `PauseAtSeqtag`, `ScCatchUp`,
    `ContinueProcessing` and `Clear`.
* `AsyncQueue.tla` models `MegaClientAsyncQueue`.
  * Each critical section under `mMutex` is one step. A worker is in
    "check", "waiting", "run" or "exited".
  * Actions: `Push`/`PushNotify`, `ClearDiscardable`, the destructor's
    steps (`DestroyClear`, `DestroyPush`, `DestroyNotify`,
    `DestroyNotifyAll`, `DestroyJoin`), and per worker `TakeJob`, `Sleep`,
    `RunJob` and `SpuriousWakeup`.
  * `ImplementsJobQueue` checks that this implementation refines
    `JobQueue.tla`.
* `JobQueue.tla` is the abstract queue: what `MegaClientAsyncQueue`
  promises, without threads or locks.
  * Variables: `submitted`, the FIFO `waiting`, `active`, `done`,
    `dropped` and `phase` (open, closing, closed).
  * Actions: `Submit`, `RunInline` (no worker threads), `Start` of the
    front job, `Finish`, `ClearDiscardable`, `Close` (drops the
    discardable waiting jobs) and `Shut` once nothing waits or runs.
  * `Spec` has weak fairness on `Start`, every `Finish` and `Shut`.
  * `AsyncQueue` maps onto it with `INSTANCE JobQueue WITH`: `waiting`
    is `mQueue` without the destructor's null jobs, `active` the jobs of
    workers in "run", `done` the jobs executed at least once, and the
    phase follows the client's program counter.
* `HeartbeatMonitor.tla` models `BackupMonitor` for one sync.
  * Variables: the sync's flags and config (inputs), `mBackupInfo`,
    `mSending`, `mModified`, `lastBeat`, the FIFO `net` of queued
    commands, and what the server holds.
  * Time is seconds since the last beat, saturated at
    `MAX_HEARBEAT_SECS_DELAY`, because the guards only compare it with
    constants up to that value. It is read off the wall clock, and
    `ClockStepsBack` sets the clock back by `CLOCK_STEP_BACK` seconds.
    The count can then go below zero. From the saturated value this
    stands for a larger step back of the real clock.
  * Actions: `Tick`, `ClockStepsBack`, `Beat` (updateOrRegisterSync, then the heartbeat
    if `BeatDue`), `ChangeFlags`, `ChangeConfig`, `SetProgress`,
    `SetLastSyncedItem` and `Deliver(ok)`: the server answers the oldest
    command, with success or an error, and a heartbeat's completion
    clears `mSending`.
* `SocketUtils.tla` models one call of `SocketUtils::read`, `write`,
  `accept` or `listen`.
  * The kernel is the environment. `Poll` takes any outcome (ready,
    hang-up, timeout, EINTR, EIO) after any delay up to the timeout, and
    keeps the code's `remaining` arithmetic. `Read`, `Write` and `Accept`
    take a partial transfer, end of file, a retryable errno or another
    errno. `PeerCloses` closes the other end at any moment.
  * `Listen` walks `listen` and `doBindAndListen`: a path too long for
    `sun_path` (`ENAMETOOLONG`), then `::socket`, `::bind` and
    `::listen`, each of which may fail. `sock` records the descriptor
    the call created (by `::socket`, or by `::accept`) and whether it
    was closed. A failed `bind` or `listen` closes it
    (`BindOrListenFails`).
  * `now` counts milliseconds since the call started, and `pollEntry`
    is when the current `poll()` built its clock.
* `CacheableCodec.tla` models the cache record codec as operators.
  * A buffer is a sequence of bytes and `ptr` a 0-based offset.
    Integers are little-endian two's complement (`LE`, `Unsigned`,
    `Signed`). The u16 length casts are kept (`% 2^16`).
  * `Serialize` writes a record of fields. `Unserialize` reads them back
    and stops at the first failed read, returning what it read and where
    `ptr` was left.
* `NaturalSort.tla`, `WildcardMatch.tla` and `ReadLines.tla` translate
  the three text algorithms into recursive operators.
  * In `NaturalSort`, the digit loops work in a word of `ULONG_BITS`
    bits, with the code's `maxNumber` subtraction and overflow count.
  * In `WildcardMatch`, the backtrack pointers are indices, and 0 stands
    for the initial nullptr.
* `LikeCompare.tla` translates `icuLikeCompare`, `escapeWildCards` and
  `TextPattern::recalcPattern`, which wraps a search text in `*`
  unless it is empty or all `*` (`RecalcPattern`, `IsOnlyWildCards`).
  * Strings are sequences of UTF-8 bytes, read through the code's
    `SQLITE_ICU_READ_UTF8` and `SKIP_UTF8` macros (`ReadUtf8`,
    `SkipUtf8`, with the `icuUtf8Trans1` table). Past the end a read
    gives the terminating NUL.
  * `IcuLikeCompare` keeps the four cases of the code: `*` (with the
    loop that skips further `*` and `?`, then a try at every remaining
    text position), `?`, the escape character, and a literal compared by
    `foldCaseAccentEqual`.
  * `Fold` is utf8proc's case fold and accent strip, given for the code
    points the model uses (ASCII letters, É and é).
* `Utf8ToUnicode.tla` translates `Utils::utf8toUnicode`: ASCII bytes are
  copied, a 0xC2 or 0xC3 lead with a continuation byte gives one
  Latin-1 byte, and every other byte from 0x80 on, or a lead at the end,
  fails.
* `UploadHandle.tla` translates `UploadHandle::next`. A handle is its
  bytes in memory order. `Increment` is `while (!++*--ptr)`: it starts
  at the byte at the highest address and carries downwards, and
  `overrun` records a carry out of the first byte (a write before the
  handle). `NextLoop` is the do-while: reset UNDEF to 0, increment, and
  repeat while the top two bytes are zero (`TopTwoZero`) or the handle
  is UNDEF. In phase "upload", `MCUtilsAlgorithms` calls it repeatedly
  from UNDEF and compares each result with `RefNextUpload`, the next
  valid handle in counter order.
* `MCUtilsAlgorithms.tla` checks the pure algorithms against reference
  definitions written independently of the code.
  * A phase picks the algorithm. The state grows the inputs one byte
    (or one field) at a time, so every bounded input is a reachable state
    and an invariant compares the code's result with the reference.
  * For the chunk grid it walks a file of every size up to `MaxSize`.
  * The references:
    * `RefBoundary`: the closed-form chunk grid.
    * `NaturalOrder`: token-wise order with numbers compared as integers.
    * `Glob`: the set-of-split-points semantics of `*` and `?`.
    * `RefLines`: split at line ends, with blank lines dropped.
    * `Serialize` itself, for the codec.
    * `LikeMatches` over `LikeTokens`: a pattern is read as tokens
      (any run, one character, a literal, an escaped literal) and
      matched over code points, not bytes.
    * `Utf8`, the UTF-8 encoder, for `utf8toUnicode`.

## Runs

| Run | cfg | Expect | What it shows |
|---|---|---|---|
| `utils_algorithms` | `MCUtilsAlgorithms.cfg` | pass | For every file of up to 120 units, `chunkfloor`/`chunkceil` match the reference grid (`ChunkGridMatchesReference`). generateMetaMac reads exactly the grid's chunks (`MetaMacPiecesAreChunks`). `naturalsorting_compare` agrees with numeric order on all strings of up to 4 bytes (`CompareMatchesNaturalOrder`). `wildcardMatch` agrees with glob semantics on all texts and patterns of up to 5 bytes (`WildcardMatchIsGlob`). `readLines` agrees with the reference split on every input of up to 6 bytes, with or without a BOM (`ReadLinesIsLineSplit`). Every record of up to 3 of 17 field shapes reads back as written, and `ptr` ends at the end (`CodecRoundTrip`). The same record cut at any byte is refused, `ptr` never passes the end, and the fields before the cut read back right (`TruncatedRecordRejected`). `icuLikeCompare` agrees with the token semantics on UTF-8 texts and patterns of up to 4 code points, with and without accent stripping (`LikeCompareIsLike`). Text passed through `escapeWildCards` matches exactly the texts equal to it up to case. Wrapped by `TextPattern`, a non-empty escaped text matches exactly the texts that contain it up to case (`EscapedTextMatchesLiterally`). `utf8toUnicode` decodes the UTF-8 encoding of every Latin-1 text of up to 3 characters, and every byte string of up to 3 bytes it accepts is the encoding of its result (`Utf8ToUnicodeIsLatin1`). 61 calls of `UploadHandle::next` from UNDEF never carry out of the handle, each returns the next valid handle in counter order, wrapping past UNDEF, and no handle repeats within a cycle of the 59 valid ones (`UploadHandlesFollowCounter`). |
| `chunkmac_transfer` | `MCChunkMacMap.cfg` | pass | A 10-unit file is downloaded or uploaded out of order on two connections, with partial pieces, failed upload requests, compaction, saves and one restart. The so-far entry always holds the ordered fold of exactly the chunks below it (`MacsmacSoFarSound`). The cached `progresscontiguous` is never ahead (`ProgressContiguousSound`). Compaction never spins (`NoCompactionSpin`). A completed table gives the local file's meta-MAC (`FileMacVerifies`). From every chunk boundary past the so-far entry, the next download piece skips only received bytes and asks only for missing ones (`PieceIsUnreceived`). The table refines `ChunkProgress`: no step but a piece or a confirmation gains bytes, and only a restart loses them, back to exactly the saved view (`ImplementsChunkProgress`). For every `maxPos`, the RAID hand-off returns the largest chunk boundary at or below it that is a multiple of `RAIDLINE`, and copies only finished entries below it (`RaidlineCopySound`). Every gap `hasUnfinishedGap` reports is real: a chunk past the folded prefix that is not finished lies before a finished one (`HasUnfinishedGapSound`). Once `calcprogress` has run after a restart, the assertion of `updateContiguousProgress` (`progresscontiguous > macsmacSoFarPos`) holds in every later state, whatever compactions, pieces and saves follow (`ContiguousAheadOfSoFar`). |
| `macsmac_gaps_after_fold` | `MCChunkMacMapGaps.cfg` | violation | `macsmac_gaps` gives a different value for a compacted table than for the same chunks uncompacted. |
| `request_dispatch` | `MCRequestDispatcher.cfg` | pass | Four commands (batch-separate, two v3, one plain) go through requeues, server errors, seqtag pauses and procresults that issue commands or call `clear()`. Results come exactly once and in issue order (`ResultsFollowAddOrder`). No command is stranded behind an empty batch (`NoStrandedCommand`). Batches respect `MAX_COMMANDS` and the v3 split (`BatchesWellFormed`). Every command completes or is dropped by a clear (`EveryCommandCompletes`). |
| `requeue_batch_separately` | `MCRequestDispatcherBatchSeparateAlone.cfg` | violation | After `requeuerequest`, `add()` appends an ordinary command to a batch-separate command's batch. |
| `clear_during_continue` | `MCRequestDispatcherNothingRunsAfterClear.cfg` | violation | A `clear()` made by a procresult inside `continueProcessing` is never carried out. |
| `async_queue` | `MCAsyncQueue.cfg` | pass | Zero to two workers, three jobs (one discardable), `clearDiscardable`, spurious wakeups and destruction at any time are all explored. Every job runs once unless discarded (`NoJobLostOrRepeated`). The destructor returns only when every thread has exited with the kept jobs done (`DestroyedOnlyWhenDrained`, `DestructionCompletes`). Every pushed job runs (`EveryJobRuns`). The queue refines the abstract FIFO queue of `JobQueue.tla`: jobs start in push order, clearing drops only waiting discardable jobs, and the destructor returns only on an empty, idle queue (`ImplementsJobQueue`). |
| `heartbeat` | `MCHeartbeatMonitor.cfg` | pass | The sync's flags, config and progress change, the wall clock may be set back, and one command fails. At most one heartbeat is in flight, and `mSending` tracks it (`SingleHeartbeatInFlight`). Once the sync stays enabled, the server ends up with its current status (`HeartbeatEventuallyCurrent`). A clock set back only delays heartbeats. |
| `registration_after_failed_put` | `MCHeartbeatMonitorRegistration.cfg` | violation | A `CommandBackupPut` answered with an error is never resent. |
| `socket_io` | `MCSocketUtils.cfg` | pass | The call meets partial transfers, retries, interrupted polls, timeouts and a peer that closes. `read`/`write` succeed exactly when all bytes went through (`SuccessIffWholeTransfer`). `accept` and `listen` hand back an open descriptor exactly when they succeed, so no failure of `bind` or `listen` leaks the socket (`FdReturnedIffOk`). Every call returns (`CallReturns`). |
| `natural_sort_long_numbers` | `MCUtilsAlgorithmsLongNumbers.cfg` | violation | A digit run that overflows `maxNumber` sorts below a smaller number. |
| `poll_timeout` | `MCSocketUtilsTimeout.cfg` | violation | `poll()`'s EINTR loop either waits past its timeout or gives up with EINTR before it. |

Every property of a passing run has a mutant in `PROJECT.json`: a
plausible bug in the modelled code (a dropped guard, an off-by-one) under
which TLC finds the property violated.

### Findings

1. **`macsmac_gaps` after compaction** (`utils.cpp:855–861`). For the so-far
   entry at key `k`, the inner loop adds one to `n` for every chunk in
   `[0, k]`, and the `for` loop's `n++` adds one more. The next chunk then
   gets ordinal (its index + 1), so the exclusion ranges `[g1,g2)` and
   `[g3,g4)` skip the wrong chunks. The function tries these "late gap"
   corrections only when the normal MAC does not match, so on compacted
   tables they test the wrong candidates.
2. **Batch-separate command shares a batch after a requeue**
   (`request.cpp:371`). `requeuerequest` puts the failed batch back at
   the front. When `nextreqs` was empty, that batch is also the back one,
   and the next `add()` appends to it. A requeued fetchnodes then shares
   its batch.
3. **`clear()` inside `continueProcessing` is lost** (`request.cpp:411`).
   `clear()` called from a procresult only sets `clearWhenSafe`.
   `serverresponse` and `servererror` perform the deferred clear
   afterwards, but `continueProcessing` does not. The batches queued
   before the logout are still sent. The leftover flag later wipes
   commands issued after it.
4. **Failed backup registration is never resent** (`heartbeats.cpp:281`).
   `updateOrRegisterSync` stores the new `BackupInfoSync` whether or not
   its `CommandBackupPut` succeeds. After a failure, later beats compare
   with the unsent info and never send it again.
5. **Natural sort overflow** (`utils.cpp:3601`). The digit loops subtract
   `maxNumber` at most once per digit and then compare
   (overflow count, rest). The rest is still multiplied by 10 after that,
   so the pair does not grow with the number. With 64-bit `unsigned long`,
   "18446744073709551580" sorts before "9999999999999999999". The model
   shows the same thing with a 10-bit word: "99" sorts after "960".
6. **`poll()` timeout budget** (`socket_utils.cpp:47–48`). Every pass of
   the EINTR loop calls `::poll` with the full timeout, so one `poll()`
   can block for almost twice its timeout. Every pass also subtracts the
   time since `poll()` began, so earlier passes count again. With timeout
   4, signals at 1 ms and 3 ms make `poll()` return EINTR after 3 ms, and
   the read, write or accept fails.

### Behaviours noted without a run

* A `*` followed by a lone trailing escape matches nothing
  (`utils.cpp:3394`). Text ending in `\` wrapped as `*text*` therefore
  escapes its closing star: `*a\*` does not match "ba" but matches
  "ba*". `LikeCompareIsLike` excludes such patterns; the behaviour was
  confirmed by evaluating `LikeCompareOf` on these inputs.
* The fallback of `foldCaseAccentEqual` (`utils.cpp:3308`) compares
  `u_foldCase(codePoint1)` with itself, so it is always true when
  reached.
* `copyEntriesToUntilRaidlineBeforePos` returns the aligned offset even
  when it stopped copying at an unfinished chunk below it
  (`utils.cpp:795`). Whether a caller can then resume past the missing
  chunks depends on callers not under `src/`.
  It also copies a folded so-far entry below the aligned offset as it
  is, because that entry is marked finished. `RaidlineCopySound`
  accepts that copy, and the receiving table's `macsmacSoFarPos` is set
  by callers not under `src/`.
* `hasUnfinishedGap` (`utils.cpp:585`) misses gaps that spec 4.3
  counts: a missing leading chunk, and a partial chunk whose successor
  chunk has no entry, before a later finished chunk. Evaluating
  `HasUnfinishedGap` on entries {0 finished, 1 partial, 6 finished} of
  the model's grid gives false; with 3 in place of 6 it gives true.
  Nothing under `src/` calls it, so no run checks the converse of
  `HasUnfinishedGapSound`.
* Every pass of the `read` and `write` loops polls with a fresh full
  timeout (`socket_utils.cpp:165`). A peer that sends one byte per
  timeout therefore keeps a read of `count` bytes going for `count`
  timeouts. The function promises no overall deadline, so no run checks
  one.
* `nextUnprocessedPosFrom` adds the entry's offset to `pos`, not to the
  chunk start (`utils.cpp:562`). It is right for a `pos` on a chunk
  boundary, the case `PieceIsUnreceived` checks.

## Bounds and why they are enough

* Chunk MAC table. One model unit is one 128 KiB segment: `SEGSIZE = 1`,
  `SZ_1024K = 8`.
  * The file of 10 units has chunks `[0,1)`, `[1,3)`, `[3,6)` and
    `[6,10)`. That is enough for out-of-order completion, a gap on
    either side of a chunk, and a piece that finishes a partly received
    chunk.
  * `FoldMargin = 4` stands for the 5 MiB margin, and `MinEntries = 1`
    for the `32*3+5` minimum table size. With both scaled down,
    compaction happens inside a 10-unit file.
  * `MaxCrashes = 1` allows a restart between any two steps.
  * `MaxReqSize = 4` stops a fresh download request after the chunks
    `[0,1)`, `[1,3)` and `[3,6)`, so the size limit, a partial chunk and
    a started chunk each end some piece.
  * `RAIDLINE = 5`: the boundaries are 0, 1, 3, 6 and 10, so aligning
    `maxPos = 9` takes two turns of the loop (6 → 5 → 3 → 0), and 10 is
    aligned.
* Chunk grid. `SEGSIZE = 2`, so the mask clears a low bit. Files go up
  to 120 units, so the steady 16-unit chunks repeat.
* Request queue. `MAX_COMMANDS = 2`, so a third command opens a new
  batch. The four commands cover every batching rule.
* Async queue. Up to two workers (zero is allowed, since thread creation
  may fail) and three jobs. That covers a job pushed while one runs, a
  wakeup delivered to a busy worker, and destruction with a queue that
  is not empty.
* Heartbeats. `MAX_HEARBEAT_SECS_DELAY = 3` and `MaxEnvChanges = 2`, so
  a change can arrive while a heartbeat is in flight.
  `CLOCK_STEP_BACK = 2` sets the clock back past a beat one second old,
  so `elapsed` goes negative, and twice in a row it goes to -4. `MaxFailures = 1`.
* Sockets. `TIMEOUT = 4` ms, so two signals can fall inside one timeout.
  `COUNT = 3` bytes allows two partial transfers. `MaxSignals = 2` and
  `MaxRetries = 1`.
* Natural sort. `ULONG_BITS` scales the word down from 64 bits:
  * 16 bits in the passing run, where only 4-digit runs overflow
    (`maxNumber = 6547`);
  * 10 bits in the violation run (`maxNumber = 96`).

  The code's logic does not depend on the width, only on `maxNumber`.
* Codec. `WCHAR_SIZE = 4`, as on Linux and macOS. Records have up to
  three fields. The 17 field shapes include a sign bit, bytes above 127,
  a node handle above 16 bits, null and NUL-terminated C strings, empty
  strings and expansion flags.
* LIKE matcher. Texts are drawn from {a, é, `*`, `?`, 你} and patterns
  from {a, É, e, `*`, `?`, `\`}, up to 4 code points each. That covers
  one-, two- and three-byte UTF-8, case folding, accent stripping, and
  wildcards and escapes in the text as well as in the pattern.
* UTF-8 to Latin-1. Texts are drawn from U+0000, A, U+0080, é and ÿ, and
  byte strings from 0x41, 0x80, 0xBF, 0xC0, 0xC2, 0xC3 and 0xC4, up to 3
  each: the edges of the accepted range, an overlong lead (0xC0) and a
  lead just past it (0xC4).
* Upload handles have 3 bytes of 4 values (`HANDLE_BYTES = 3`,
  `BYTE_MOD = 4`, for 8 and 256). The loop treats every byte alike, so
  a smaller byte shows the same carries. With 3 bytes there are both a
  byte below the top two and a carry into them. 61 calls pass the 59
  valid handles, so the run covers the skip of handles whose top two
  bytes are zero (every 16th value), the wrap past UNDEF, and the
  reset.
* The u16 entry count of `chunkmac_map::serialize` and the u16 string
  lengths of the codec are modelled (`% 2^16`), but no bounded input
  reaches 65536. The entry count is a listed hazard. The string
  length (`utils.cpp:241`) silently cuts a text of 65536 bytes or more
  to its length mod 65536. The writer then appends only that many bytes,
  so the record stays readable and no read property could tell.

## Fairness

* `RequestDispatcher`. Each of the following is weakly fair: a
  processing call runs to its end, the client loop sends a pending batch
  and resumes a paused one (`MegaClient::exec` calls these on every
  pass), and the action-packet channel catches up. The server's answer
  is strongly fair, because requeues may disable it again and again.
* `AsyncQueue`. Each started thread is weakly fair, and so is the client
  thread once it has begun a push or the destructor. Nothing forces the
  client to push or destroy, and nothing forces a spurious wakeup.
* `HeartbeatMonitor`. Time passes, the sync thread calls `beat()`
  periodically, and the server answers queued commands. Clock steps
  back, like the other environment changes, are bounded and not fair.
* `SocketUtils`. The kernel is weakly fair: a blocked `::poll` returns
  (at the latest at its timeout), and a system call returns (`listen`'s
  included). Signals and
  retryable errors are bounded, as they must be for any call to return.
* The chunk MAC table has no liveness property. Nothing in
  `chunkmac_map` drives progress. The spin of `updateMacsmacProgress` is
  therefore checked as a safety property.

## Not modelled, and why

* The plain copy helpers of `chunkmac_map`: `copyEntriesTo`,
  `copyEntryTo` and `swap`. Their callers (RAID and upload request
  bookkeeping) are not under `src/`, so no property depends on them.
* `serializecompressedu64`/`unserializecompressedu64` call `Serialize64`,
  which is not under `src/`. Doubles and fingerprints are left out too.
* Cipher wrappers (PaddedCBC, PayCrypter, HashSignature). They are
  cryptography; the models treat MACs as ideal.
* Drive-id files, rlimit and the time helpers. They are I/O with no
  concurrency.
* `SyncTransferCounts::progress`. The type is declared outside
  `src/include`, so its fields and their widths cannot be read off
  these sources.
* The `SyncConfig` overload of `BackupInfoSync::getSyncState`,
  `getSyncType` and the `BackupInfoSync` constructors. They are
  one-step mappings from a configuration to an enum. Their callers,
  the registration of a sync, are outside `src/`.
* `Utils` hex, case-compare, replace, join, trim and environment
  helpers, `webdavurlescape` and `ensureAsteriskSurround` (which has no
  caller). They are loops over one string with no state kept between
  calls. A property about one of them would be a reference
  definition of the same loop, and every property slot of the project
  is spent on behaviour with more at stake.
* UTF-8 case mapping and path helpers (apart from `utf8toUnicode`). They are string transformations with no
  control-flow hazard beyond what unit tests reach.
* Headers that only declare classes (NamedPipe, DriveInfoCollector,
  NodeInfo, fuse Session, AndroidFileSystem). They contain no behaviour.

## Plan

1. A larger chunk MAC configuration. A 15-unit file (five chunks, two
   of them aligned to `RAIDLINE`) passes, but takes over 8 minutes.
   Fitting it into a routine run needs a smaller state space, for example
   by dropping `persisted` when no restart remains.
2. The remaining `chunkmac_map` copy operations.
3. The hex codecs of `Utils` as a round-trip phase of
   `MCUtilsAlgorithms`, if a property slot frees up.
4. Several heartbeat syncs sharing one `BackupMonitor`, and the
   request queue composed with the heartbeat model.
