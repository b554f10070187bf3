# Verification of ces265

ces265 is a multi-threaded H.265 intra encoder: it reads a YUV 4:2:0 file and
writes `Video.h265`, a reconstructed YUV file and statistics. This directory
holds TLA+ modules for its core logic, the TLC configurations that check them,
and TLAPS proofs of the central properties. Paths below are relative to the
repository, except module and `.cfg` names.

## The system

| Component | State | Operations | Interaction |
|---|---|---|---|
| `EncTop` | frame buffers, files, per-GOP compressors | `ConfigureEncoder`, `InitEncoder`, `OpenIOFiles`, `Encode`, `WritePS`, `FreeAllocBuff` | owns everything; `Encode` reads a frame, calls `CompressGOP`, writes the linked bitstream handlers and the reconstructed frame |
| `H265GOPCompressor` | slice compressors | `CompressGOP` | one `CompressSlice` call per frame |
| `H265SliceCompressor` | tile compressors, CABAC engines, bitstream handlers, work queue, thread pool | `InitialToCompression`, `CompressSlice`, entry points, concatenation, pool creation, destructor | pushes all tiles but the last to the queue, compresses the last one itself, waits, collects the bitstreams |
| `H265TileCompressor` | CTU address map | `CompressTile` | runs on the main thread or on a worker; reads and overwrites the shared frame buffer |
| `H265CTUCompressor` | reference borders, saved modes, reconstruction | `CompressCTU`, `EncodeCTU`, `UpdateBuffers` | per tile |
| `WorkQueue` | circular buffer, two locations, two counters, mutex, two condition variables | `AddToJob`, `GetNextJob`, `IncNumJobsUnderProcess`, `JobDone`, `WaitQueueEmpty` | between the main thread and the workers |
| `ThreadHandler` | a thread | `RunThread`, `StartThread`, join, detach, cancel | loops over the queue's jobs |
| `ImageParameters` | frame and tile geometry | `InitImgProp`, `SetTileStruct`, CTU numbering | read by all |
| `BitStreamHandler`, `H265Headers`, `Cabac` | word cache and buffer; syntax; arithmetic coder | put codes, flush, encode bins | used by slice, tile and CTU compressors |

What is hard here: the tile threads. Tiles carry no lock of their own; frames
are separated only by `WaitQueueEmpty`; a job is taken and counted in two
critical sections; signals are not stored; the queue has exactly one slot less
than there are tiles; bitstream handlers are reused, read several times and, with
one tile, shared with the slice header; the reconstruction overwrites the source
picture in place. Sequential and hard to test are the boundaries: tile
geometry by truncating division, bit codes crossing a word, the CABAC carry, entry
point lengths, neighbour availability, buffers that a given-up trial has overwritten,
fast forms of the standard's arithmetic, the teardown order.
`PROJECT.json` lists the hazards with their lines and the properties on them.

What makes each component correct:

- *Queue*: first in first out, each job to one worker, no lost wake-up, exact
  counters, a `WaitQueueEmpty` that returns, and returns only when it should.
- *Slice and tile compressors*: every tile once per frame and by one thread; files
  that do not depend on the scheduling; no assertion that fires; termination.
- *Tile geometry*: the tiles partition the frame and fit their buffers.
- *Bitstream and headers*: a decoder reads back every field and code, finds start
  codes where they were put and nowhere else, and can enter every tile at its offset.
- *CABAC*: an arithmetic decoder reads the bins that were coded; no carry is lost.
- *CTU compressor*: every block is predicted from samples the decoder has, its mode
  is coded against the decoder's candidates, the syntax is that of the CUs kept.
- *Prediction, transform, coefficients*: a decoder rebuilds the same samples from the
  modes and levels it reads; no intermediate value overflows its 16 bits.
- *Teardown*: no object is deleted while a thread may use it (not modelled).

## Modules

| Module | Models | Uses |
|---|---|---|
| `JobPool` | abstract specification: what the queue and its threads promise | |
| `WorkQueue` | `WorkQueue.cpp`, `ThreadHandler::RunThread` | instantiates `JobPool` for the refinement |
| `SliceCompressor` | `Encode` (one GOP thread), `CompressGOP`, `CompressSlice`, `CompressTile`, the pool | extends `WorkQueue` |
| `TileStruct` | tile options, `SetTileStruct`, `GenTileBoundingPixels`, `MakeCTUAddrMap` | |
| `BitStreamHandler` | `BitStreamHandler.cpp`, `FLUSH_BITS`, `LOG2`, as operators on a handler | |
| `H265Headers` | `H265Headers.cpp`, as lists of fields, and a decoder of them | extends `BitStreamHandler` |
| `SliceStream` | `WritePS`, `CompressSlice` and `Encode` seen from the bits | extends `H265Headers` |
| `EntryPoints` | the slice header and its entry points for tiles of any size | extends `H265Headers` |
| `Cabac` | the arithmetic coding engine of `Cabac.cpp`, and an arithmetic decoder | extends `BitStreamHandler` |
| `H265CTUCompressor` | the CTUs of a tile: search, chroma pass, syntax, borders, in `H265CTUCompressor.cpp` | |
| `H265Transform` | `H265Transform.cpp`, as operators on blocks, and the standard's inverse | |
| `IntraPrediction` | prediction, reference filter, candidate modes, mode bins, and the standard's | extends `H265Transform` |
| `CabacResidual` | `EncodeCoeffNxN` and what it calls, as bins, and a decoder of them | extends `IntraPrediction` |
| `BlockCodec` | one transform block from references to bins, beside a decoder | extends `CabacResidual` |
| `MCTileStruct`, `MCSliceStream`, `MCCabac`, `MCBlockCodec` | options, codes, table rows, bins and blocks for TLC | |
| `WorkQueueProofs` | inductive invariant of `WorkQueue`; it implements `JobPool` | extends `WorkQueue` |
| `SliceCompressorProofs` | `SliceCompressor` uses the queue correctly, space, types, exclusive use of tiles; the files are those of sequential encoding | extends `SliceCompressor`, `WorkQueueProofs` |
| `InductionLemmas` | least elements, induction over numbers, sums over sets, powers of two | |
| `TileStructProofs` | the tiles partition every frame | extends `TileStruct`, `InductionLemmas` |
| `CabacProofs` | ranges of the engine, room for carries, codes fit | extends `Cabac`, `InductionLemmas` |
| `CabacDecoderProofs` | a decoder reads the bins of every tile | extends `CabacProofs` |
| `SliceStreamProofs` | the handlers' types, no zero at the end, assertions, growth of a tile and room in its buffer | extends `SliceStream`, `InductionLemmas` |
| `CTUCompressorProofs` | the reconstruction is the decoder's picture; references and candidates are the decoder's | extends `H265CTUCompressor`, `InductionLemmas` |

Definitions called *faulty variant* are plausible mistakes in the operation that
follows them. No specification uses them. They are there to show that each
property fails for some mistake; `PROJECT.json` pairs them ("mutants").

### WorkQueue

One action is one critical section of `m_ptMutex`. `pthread_cond_wait` ends a
critical section: the thread's program counter moves to a *wait* label
(`waitJobAvail`, `waitQueueEmpty`), the wait set of the condition variable. A signal
moves one waiter back to the label of the call, where the loop condition is tested
again; it does nothing when nobody waits. `SpuriousWakeup` and
`CallerSpuriousWakeup` are the returns POSIX allows without a signal. `RunThread` takes a job
(`GetNextJob`), counts it (`IncNumJobsUnderProcess`), runs it and reports it
(`JobDone`); these are separate steps, as in `ThreadHandler.cpp:59-63`. The caller is
left open: any item in any order, `WaitQueueEmpty` at any time. An initial `pc`
of `GetNextJob` for each worker is a thread just created. The assertion in
`GetNextJob` (size not negative) is part of `TypeOK`.

`JobPool` says the same with a sequence, the job each worker holds, the set of counted
workers and a barrier. It is honest about the weak spot: the barrier opens when
the queue is empty and no *counted* job is held.

### SliceCompressor

`SliceCompressor` gives the caller its program: read a frame, empty the handlers and
begin the slice header, push a tile per step, compress the last tile, wait, collect
sizes, entry points, write. Each action that touches the queue contains the
queue's action. One CTU (`CompressCTU`, `EncodeCTU`, `UpdateBuffers`) is one step, so the
interleavings are those of the tiles at CTU granularity. Data is provenance:
a frame buffer cell says which frame it shows and whether it is still *source*
or already *rec*; a bitstream is the sequence of the units coded into it (a
header, or the cell a CTU was coded from). `--rec` and `--stat` are taken as given.
Bits and bytes, and `FixZeroTermination`, which looks at one, are the subject of
`SliceStream`; it also shows that `FixZeroTermination` never changes anything.

`leftBehind` is a history variable: it becomes true when `WaitQueueEmpty` returns
while a worker still has a job. From then on the program has data races; the
model goes on with CTU-sized steps, and the properties of the output claim nothing.
They are about everything else that could go wrong, and
`ThreadsFinished` is about this one.

### TileStruct

The tile options, the two passes over sizes, the boundaries, the bounding pixels with
their assertion, and the address map each tile compressor rebuilds from pixels.
`MAKE_SURE` ends the program (`abort`). Frame sizes are those `ConfigureEncoder`
accepts (multiples of the CTU), given in CTUs. The options are `i32`, the fields of the
grid `u32`: negative options wrap (`U32`), and so does the product in the assertion on
the grid. A word has `WordSize` values, 2^32 in the code; TLC's instance has 2^12,
in which the same options wrap to a product of 4. A grid that passes this way leaves the tables of
`SetTileStruct` (`SetTileSizesOffTables`).
More than 24 tiles are modelled as the code treats them: the count becomes 24,
the grid 12 by 12, and the assertion that follows always fails, although the
printed warning announces a correction (`EncTop.cpp:247-254`).

### BitStreamHandler, H265Headers and SliceStream

A handler is a record: the cached word as 32 bits, the number of its free bits, the
bytes of the buffer, the allocated size, and whether every `MAKE_SURE` so far
held, in `room` the one on the buffer's size and in `sure` the others. A step with a
`MAKE_SURE` that failed is the last one (`AllSure`), as `assert` ends the program. The operations are functions from handler to handler at the code's widths. A
header is the list of its fields in the order of the code; putting a list in a
handler is `H265Headers.cpp`, and reading the same list from bits, with the
definitions of the standard for `u(n)`, `ue(v)` and `se(v)`, is the decoder that the
properties use. The decoder shares the names of the fields with the encoder but none
of its operations.

`SliceStream` is the life of the handlers: parameter sets in the first tile's
handler, one field per step; then for every slice the header, the bytes
CABAC puts in each tile, the end of the tile, the entry points and the file. Tiles
follow one another here. `TileExclusive` says that no two threads share a handler, so
any interleaving of them leaves the same handlers behind, and `SliceCompressor` covers
what happens between them. A tile of the model is a short sequence of bytes
and a last code of 5 to 12 bits; that CABAC's output has this form is `CodesFit`.
`FileReadsBack` and `TilesDecodableAlone` compare the whole file, and each
tile cut out at the offsets the header codes, with what was put. Only
`I_SLICE` occurs, as in `Encode`. A tile's handler has the size that `InitEncoder` gives it,
800 bytes for each CTU of the largest tile (`TotalBytesPerTile`); the tiles stand in one row, each of at least
two columns of CTUs, and at least two rows.

`FixZeroTermination` asks for the last byte of the slice's last tile. `NoZeroTermination` looks at the tiles
before that call and finds that it never has anything to do. If it had, the byte appended
would be 0: `FLUSH_BITS` takes the first byte of the word `0x03`, although the comment at
`BitStreamHandler.cpp:152-156` speaks of a final 0x03. `FlushBits` does the same.

`EntryPoints` takes the slice header by itself to the sizes that `SliceStream` does not reach: up to 24 tiles
of up to 71,999 bytes (what one of 24 tiles of a frame of 1920x1088 may have). Its handler has 50
bytes, of which two are the guard bytes in front of the buffer; `InBuffer` says that nothing was written
behind the allocation, `room` that the code's own assertion did not fail.

A code of no bits shifts a zero by 32, which C++ leaves
undefined; the result is taken to be zero.

### Cabac

The engine is `m_uiLow`, `m_uiRange`, `m_iBitsLeft`, `m_bBuffer`, `m_uiNumByte` and
the codes it hands to the bitstream handler. Any row of the table of LPS
ranges may be met by any bin, so the states of the contexts are left open: every
adaptation of contexts is among the behaviours. Bypass bins, remaining levels
(`WriteCoeffRemainExGolomb`) and the end of a CTU and of a tile are the other actions. The
reference is the decoder of the standard with its register of nine bits; bypass
bins are decoded several at a time, which is one division. `DecoderReadsBins` also
asks that the decoder has then read exactly up to the stop bit.
`CarryHasRoom` is the reason why a carry never meets a missing or full byte:
`low + range` exceeds the register only while a byte other than 0xff is held back.

### H265CTUCompressor

The order of work in a CTU, on provenance instead of samples: a sample, a mode or a
block of levels is the tag of the coding unit that wrote it. `xCompressLumaCU` is
recursive; `stack` holds its activations, and the actions are what happens between
two calls. A CU tests the modes (`TestModes`), tries its parts, stops as soon as
their SAD is too high (`SplitIsBad`) or keeps all four (`SplitIsGood`), and is
coded whole in the other cases (`CodeCU`). SADs are not computed: which outcome a comparison has
is a choice, so the model has every partition the code can produce, after
every trial it can give up. `CompressChromaCU` walks the CTU once more by a counter of 4x4 blocks,
`EncodeCTU` turns what is left in the buffers into syntax elements, and
`UpdateBuffers` hands the borders to the next CTU. The arrays have PUs of 4x4 luma pixels as
cells: all blocks and all borders of the code are unions of these, with one exception, the
top-left sample of a CTU, for which `refTop` and `savedLT` keep the code's swapping. Buffers
start with what another frame left in them (`Stale`).

The decoder's side is written from the standard over the whole tile: available is
what precedes in decoding order, and a missing sample takes the nearest one. It shares
with the encoder's side nothing but the tags in `pic`, a history of the CUs coded last.
A tag at a neighbour stands for its mode and its samples; that equal references and candidates give
equal predictions and modes is `BlockCodec`'s subject.

### H265Transform, IntraPrediction, CabacResidual and BlockCodec

The arithmetic of one transform block on numbers. `H265Transform` has the forward and
inverse passes with their butterflies, roundings, shifts and stores to 16 bits
(`Wrap16`, then `Clip3`), the quantiser and its inverse. The transform of a size goes
through that of half the size, as the unrolled code does. The tables of 4 to 32 points are one
column of the largest and the symmetries of the cosine; like the scan orders, they
have been compared with the source's tables number by number. The inverse of the standard, which
the decoder uses, is a plain product with the matrix. `IntraPrediction` has planar, DC and angular prediction with the
projection of the second reference, the smoothing of references and the edge filters, the three
candidate modes and the index of a mode among the others, and the bins of luma and chroma
modes. `CabacResidual` gives `EncodeCoeffNxN` as lists of bins with the contexts chosen
for them, one sub-block per step. The engine that codes the bins is `Cabac`.

`BlockCodec` composes them: predict, transform, quantise, reconstruct, code. Every
action that codes bins lets a decoder of the standard read them: it derives the scan from the mode it has read,
checks every context against its own, and from the levels and modes it has read builds the block with the
standard's formulas (no butterflies, no second reference array, no swapped planes for
horizontal modes). `DecoderReconstructs` compares the two blocks sample by sample.

The standard is the published one throughout: its edge filters stop below 32x32, and its table of
chroma QPs is HEVC's. The encoder differs in both (runs `edge_filter` and `chroma_qp`), so run
`blocks` has neither blocks of 32x32 with an edge filter nor chroma blocks at the QPs in question.

## Runs

| Run | Bounds | Shows |
|---|---|---|
| `wq_safety` | 3 workers, 2 items, 3 slots; 214,654 states | invariants, the promise of `WaitQueueEmpty`, refinement of `JobPool`; every queued job is taken, every `WaitQueueEmpty` returns |
| `slice_safety` | 2 workers, 3 tiles of 1 CTU, 2 frames; 89,841 states | space in the queue, exclusive tiles, output independent of scheduling; the program ends |
| `tile_struct` | all frames up to 12x8 CTUs, tile counts 0..4, 6, 9, 24, 25, grid arguments -2, 0..4, 6; 107,432 states | partition, buffer size, no thin tile |
| `slice_stream` | 1 to 3 tiles, 3 tiles in all (up to 3 slices), 3 bytes of {0, 1, 3}, 3 last codes, QP 1 and 51, frame 416x224; 139,642 states | the file and every tile read back, no assertion fails, zero termination is never needed, emulation prevention adds at most half again |
| `entry_points` | 2, 3, 9, 10, 11, 24 tiles; 15 sizes from 1 to 71,999; 53,460 states | offsets read back; the header of up to ten tiles always fits |
| `cabac` | 4 calls before the end of a tile; 3 table rows, 4 bypass codes, 4 remaining levels; 162,723 states | the decoder reads the bins, codes fit their bits, a carry has a byte to go to |
| `ctu` | a tile of 3x2 CTUs, 3 splits tried beyond the first part; 134,778 states | references, candidates and syntax are those of a decoder after every search; the frame buffer is its picture |
| `blocks` | 806 blocks: 35 modes in each size and plane (16 at 32x32), QP 1 to 51; 6,158 states | modes and levels read back, the decoder rebuilds the block, no 16 bit overflow |
| `slice_left_behind` | 1 worker, 2 tiles | *violation*: see findings |
| `slice_default_threads` | no worker, 2 tiles | *violation*: see findings |
| `chroma_qp` | 10 chroma blocks at QP 34 | *violation*: see findings |
| `edge_filter` | 15 luma blocks of 32x32, DC, horizontal and vertical | *violation*: see findings |

Why the bounds suffice: three workers let two of them race for one job while the
third is past the race; three slots make the locations wrap at different times,
and an item may be in the queue several times. Two frames are what a stale
handler, a stale statistic or a left-over job needs; a third repeats the second.
Two pushed tiles and the main thread's make every pair of roles meet. Three
columns or rows with every remainder occur in frames of up to 12 CTUs, and the
largest grid, 24 tiles of 2x2 CTUs in 12x8, is among them.
In `slice_stream`, emulation prevention depends on the last three bytes and knows
0, up to 3, and more; three bytes with the ends 0 and 0xff give each pattern, at every
offset in the word that headers of odd length leave. The first slice has a header of
its own, the second has the other kind, the third meets handlers used twice. Three
tiles have an offset that is not the first. The few bytes of this run do not come near the end of a tile's
buffer; that is what `TileBytesBounded` and its theorem are for. In `entry_points` sizes lie at the powers of two, beside
them, and at zeros in the middle of an offset, one tile (the first or the last) different from the others. In `cabac` rows are the widest, a
middle and the narrowest; 65535 and 257 move the interval to its upper end, so
that 0xff bytes pile up and a carry runs through them (several outstanding bytes and a
carry occur within four calls); remainders are 0, one below and one above the
limit between the two codings, and one that is long.
In `ctu` a tile of 3x2 has CTUs at every edge and corner, and one with all of its
neighbours above; the second row reads what the first has left. `MaxTrials` bounds the
splits of the whole tile that get past their first part, counted twice when they are given up later: three reach a
CTU with nested splits to 4x4, a split given up after any of its parts, and
two split CTUs side by side. The first parts down to 4x4 are tried in every CTU
without being counted. `LastTileOfSlice` is false, so a CTU
ends with one or with two flags. In `blocks` modes are complete for 4x4 to
16x16; 32x32 has each class of modes without an edge filter. Sources and references are noisy, smooth, extreme
(0 and 255, which gives the largest residuals), an edge, and grey; QP 1
keeps levels of 16 bits, 51 leaves blocks without any. A decoder error
in a formula would show in any noisy block; the numbers are not exhausted.
The proofs cover what the bounds hide in the queue, the compressor of slices, the tile
structure, the ranges of the arithmetic coder, and the frame buffer, references and candidates of the CTU
compressor.
`tile_struct`, `slice_stream`, `entry_points`, `ctu`, `blocks`, `chroma_qp` and
`edge_filter` do not
check deadlock: configuration ends, and so do the last slice, its header, a tile and a block. The
other runs check it; an encoder that has ended still has workers asleep that may wake up.

## Fairness

Weak fairness of each worker's loop and of the caller inside `WaitQueueEmpty` (in
`SliceCompressor`, of the main thread): a runnable thread eventually runs, as the
operating system's scheduler provides. A mutex does not need strong fairness
here because each action is always enabled for its thread until taken, or
disabled by a condition the thread tests itself. Nothing is assumed about spurious
wake-ups, which need not come, about the choice among waiters, or, in `WorkQueue`,
about the caller ever adding a job. `OldestJobTaken` and `WaitReturns` therefore
rest on signals alone. The loop of `CompressTile` ends because a tile has finitely
many CTUs; in `WorkQueue` `JobReturns` assumes the same of any job.

## Findings

1. `ThreadsFinished` fails. A worker is preempted between `GetNextJob` and
   `IncNumJobsUnderProcess` (`ThreadHandler.cpp:59-60`); the queue is empty, nothing is
   pending, and `WaitQueueEmpty` lets the main thread write a frame whose tile has
   not been compressed. The comment at `H265SliceCompressor.cpp:295` says "Let the threads
   finish their job".
2. `EncodeTerminates` fails with several tiles and the default thread count. `Defines.h:65`
   gives 1 as the minimum and `README.md:76` as the default; the pool then has
   no worker and `WaitQueueEmpty` never returns.
3. `DecoderReconstructs` fails for chroma at QP 34. The table at
   `H265CTUCompressor.cpp:74-79` is that of H.264; HEVC's has 33 for 34 and QP minus 6
   from 43 on. `README.md:42` promises a standard-compliant encoder. At the default
   QP of 32 the tables agree; they differ at 34 and from 44 on.
4. `DecoderReconstructs` fails for luma blocks of 32x32 with DC, horizontal or vertical mode. The code filters
   the edges of these predictions in every size (`H265CTUCompressor.cpp:467` and `:566`), the standard only below 32
   (`nTbS` less than 32, 8.4.4.2.5 and 8.4.4.2.6). `README.md:42` again.

Four more have no run of their own; the models contain them.

- The tiles are not all of one size, although `README.md:75` says "For ces265, the sizes of the tiles are equal":
  `UniformPart` is the standard's uniform spacing, whose parts differ by one. The documentation's own example,
  352x288 with `-Ntiles 2 2 1`, has tiles of 5 and 6 CTU columns.
- `-Ntiles 4 -2 -2` passes the assertion "The total tiles do not match the frame width in tiles and frame height in
  tiles" (`EncTop.cpp:254`): the options become unsigned and their product wraps to 4. `SetTileStruct` then writes far
  outside its four entries (`SetTileSizesOffTables`, which fires in `tile_struct`).
- The slice header with the entry points of many large tiles needs more than the 50 bytes of
  `H265SliceCompressor.cpp:92`, although `Defines.h:58` allows 24 tiles; with 24 tiles of 16,384 bytes the assertion at
  `BitStreamHandler.cpp:95` ends the program. Ten tiles of up to 71,999 bytes fit (`TenTilesFit`; with 24 in place of 10 it fails).
- That assertion does not count the two guard bytes, and `FlushRemBytes` (`BitStreamHandler.cpp:130`) has none, so a header
  may end a few bytes behind its memory without "Bitstream buffer overflow detected": `EntryPoints` reaches
  handlers with `room` and without `InBuffer`.

## Proofs

All for any finite set of workers and any capacity, items, tiles, CTUs and frames.

*WorkQueueProofs.* The run's invariants together, `IInv`, are inductive, and no smaller
set is: a decrement keeps `m_iPendingJobs` natural only because `PendingJobsExact`
counts the worker in `JobDone`; `JobPointersValid` needs the types to keep the window
inside the buffer; `CallerWillBeWoken` needs the exact counter. Each of the five has a lemma
with a case per action, over two lemmas on moving one worker between program
counters. `NoLostJobSignal`, *while a worker sleeps, the awake
workers at `GetNextJob` are at least as many as the queued jobs*, is the
inductive form of "no lost wake-up": `AddToJob` adds one to both sides, `GetNextJob`
takes one from both, and a worker goes to sleep only on an empty queue.
`WaitReturnsEmpty` follows as an action property.

Its second part proves `Refinement`: every step of `WorkQueue` is a step of `JobPool` or a stutter
under the mapping in `WorkQueue`; the work is in showing that the live window of
the circular buffer is appended to and shortened as a sequence.

*SliceCompressorProofs.* `UsesWorkQueue`: with `Control` (main thread and queue agree on who is
inside `WaitQueueEmpty`, only tiles with a work item are pushed) every step is a
queue step or leaves the queue alone, so all theorems on `WorkQueue` carry
over. `SpaceForTiles` then follows from *the queue is empty between frames and
holds no more than the tiles pushed so far* (`QueueWithinTiles`); it needs no
assumption on jobs left behind. `SliceTypeCorrectness` shows among other things
that each file has exactly one picture per encoded frame.

`TilesExclusive` strengthens exclusivity to: between frames all workers are
idle; while pushing, only tiles below `uiTile` are in use; no tile is at two positions, with two
workers, or both.

In its second half, `OutputIsSequential` and `StatsAreOfFile` (`StatsMatchFile`, the statistics are of the tiles that were
written, is proved and not run). Both hold for a single tile as well, whose handler also has the slice header and whose queue has no
slot; `slice_stream` checks that case on bits. The tile threads change
nothing in the output. What the files hold at the end of a frame says nothing of
the frame under way, so the invariant `DataInv` follows each tile through it
(`TileProgress`). A tile not begun (not pushed yet, queued, or with a worker that has not counted its
job) has an empty handler, but for the slice header of a single tile, and its whole source
picture. A tile with thread `th` has the first `iCtu[th]` CTUs in its handler, coded from the
source, and these alone reconstructed. A tile in neither place is complete. Coding a CTU keeps this for
every tile because of `TilesExclusive`'s invariant: no other thread is at that tile, and
it is not in the queue. `MainData` adds what the main thread has read, coded and
collected between two of its calls. When it asks the handlers for their sizes nothing is
queued and no worker has a tile, so every tile is complete.

*InductionLemmas.* The library's induction theorems take an operator as a parameter, which
none of the installed provers can instantiate. This module states induction with *sets* in its place:
strict inclusion among the subsets of a finite set is well founded (a library theorem without
such a parameter), so every non-empty set of them has a minimal one; intervals `0..n` give the
least natural number, and *a set with 0 and all successors contains Nat*. The second part is
about `SumFunctionOnSet` of the community modules, whose definition picks elements by `CHOOSE`: it satisfies
its recursion, any element may be taken out first, and differences of
consecutive boundaries telescope. The third is about powers of two, as far as a word of 32 bits needs them.

*TileStructProofs.* The code computes sizes by differences of two divisions,
`(i+1)*w/cols - i*w/cols`, and boundaries by adding sizes up. By `SumOfDifferences` a boundary
is `i*w/cols`, increasing from 0 to `w`; each column of CTUs is then in exactly one
column of tiles (`PartUnique`, by the greatest boundary not beyond it), and the address map, which
rebuilds rows and columns from pixels, runs through its tile once. `TileInv` says, step by step of
the configuration, which of sizes, corners, pixels and maps are set and what they
are. `TilesPartitionTheFrame` holds for every frame and every grid
the assertions let through, not only for grids of up to 12x8 CTUs.

*CabacProofs.* The inductive invariant is about the interval of the coder inside the bytes not yet
written: `low + range <= 2^(32 - bitsLeft) * Room`, where `Room` is 2 while a byte below 0xff is held
back and 1 otherwise, and the byte held back is 0xff as long as there is none. Every operation
moves the interval into a part of itself (`Moving`), or doubles both sides (`Shifting`); renormalisation is
a case for each entry of its table; `WriteOutputBitstream` takes the leading byte off with or without
carry and restores `bitsLeft` to 12 or more. A carry can then never meet 0xff, and the byte
written is held + carry <= 255. `EncodeBinsEP` in chunks of 8 and the codes of remaining
levels (at most 15 bits a part) never need a bit of the register beyond the 32 it has. That the last code has 5 to 12
bits is what `SliceStream` takes as the form of a tile's data.

*CabacDecoderProofs.* `BinsAreRead`. The decoder has read a prefix of the stream while the engine still holds bytes back,
so decoder and encoder cannot be compared bit by bit. What has been coded is one number instead: `Value`, the codes
written, the byte and the run of 0xff held back and `low`, with `ReadBits` bits, which is how far the
decoder has read. An operation replaces the interval `[Value, Value + range)` by a part of it, shifted (`Narrows`); holding back,
carrying and writing bytes do not change `Value` at all. A decoder's offset is the stream up to `ReadBits`, as a
number, less `Value`, so it makes the choice the encoder made exactly if the stream lies in the part (`Follows`; renormalisation, the
chunks of bypass bins and the prefix and suffix of a remainder are its cases). The inductive invariant `DecodingInv` then
says: while a tile is coded, *every* stream that lies in the interval is decoded to the bins put so far and leaves the
decoder in the state of the engine (`Decodes`). It has to be every stream, because the bits that follow are not known
yet. `Flush` finally puts a number in the interval, stop bit included, and the tile's own bits are one of those streams (`TileStep`).

*SliceStreamProofs.* A handler is summed up in two numbers. `Weight` is sixteen for each byte in the buffer, eight for each of
up to two zeros at its end, and three for each bit in the cache. A byte that is not zero takes 24 out of
the cache and adds 16; a zero adds 8 more; an escape adds 16 for itself and takes the 16 of the two zeros that caused
it. So an operation that puts `n` bits adds at most `3 n` (`Puts`), through every split of a code at the border of the
cached word (`CodePut`) and the recursion of `FLUSH_BITS`. And the number of free bits moves by `n` modulo 8, which is what
`FlushRemBytes` asserts. A list of fields has a cost, a bound on its bits for every value the headers can have
(`CostsUpTo`: 78 bits for a slice header). The lists that the code ends with trailing bits leave whole bytes and a stop
bit in the last (`Stopped`, `Terminated`). The VPS has none, and is even only because its nine fields happen to have
32 bits (`RestOfVPS`).

`StreamInv` is inductive: types and sizes of the handlers; a tile is whole bytes while it is coded and terminated when it is ended;
its weight is at most 24 for each code put in it (and 3 for each of the 78 bits of the slice header if it is the only tile); and
if these codes account for less than the buffer, no overflow assertion failed. It gives `StreamHandlersOK`,
`NoZeroAtTheEnd` and `TileBytesAreBounded`, *emulation prevention adds at most one byte to every two*, and from that
`TilesStayInBuffers`: a tile of which no more than two thirds of its buffer are coded is never written behind it, `FlushRemBytes`
included, which asserts nothing. How many bytes CABAC makes of a CTU depends on its data, and the code has no bound
on it other than the assertion after the fact; that is why the theorem is about each tile that is small enough, and not about all.
`SureInv` adds what a parameter set under way has put; it gives `StreamAssertionsHold`. No theorem has a hypothesis on the
run: slices may have up to 24 tiles of any size. TLC checked `StreamInv` and `SureInv` on the instance of run `slice_stream` first.

*CTUCompressorProofs.* `FrameIsDecoders` needs *the blocks coded last cover the CTU*, in luma and
in chroma. In luma (`LumaDone`), by the recursion: every part the activations on the stack have
tried, and the CU that has just returned, holds the decoder's samples at every place, and the info at
each place is that of a CU aligned to its size. The four parts of a split make their caller, and
a whole CU coded over them replaces samples and info together. In chroma
(`ChromaDone`), by the counter of 4x4 blocks: what is before it is coded and it stands at the first
4x4 block of the next chroma block, which needs the alignment from `LumaDone`, and that four of the smallest
luma CUs have one chroma block. Every block that a trial wrote and gave up is overwritten before
`UpdateBuffers` reads it. TLC checked `CTUInv` as an invariant on 2x2 CTUs first.

*CTUCompressorProofs, references.* `LumaReferences` and `ChromaReferences` are about what a block sees, so the first part is
about the model's operators alone. The decoding order `Z` interleaves bits: the PUs of an aligned block are
consecutive in it (`ZBlock`), and what a block sees of its tile is the CTUs above, the CTU to the left and the PUs before it
(`DecodedIs`). Of each of the five zones around an aligned block all samples in the tile are decoded or none
(`ZoneIsSeen`), so five flags say all there is to know, and `CheckNeighAvail` computes them (`AvailIs`).
`Substituted` shows that filling missing zones from their neighbour, as `GenReferenceSamplesIntra` does, gives
every missing sample the nearest one in the standard's order; the nearest sample exists by `InductionLemmas`.

The inductive invariant, `RefInv`, says of every moment: PUs before the place of the current activation agree with
the decoder's picture in mode, samples and availability, and those after it are marked missing
(`SearchRefOK`, which makes `neighMode` a picture of the decoding order: this is why a CU that is coded
over its parts must not see them); the column to the left and the row above are the decoder's (`LeftOK`,
`AboveOK`, `RefTopOK`, which follows the top-left sample through its swap between `refTop` and
`savedLT`); and what each activation on the stack found when it tested its modes is still what a decoder
has (`TestedOK`), because a trial writes only inside its CU and only in the prediction buffers of
smaller sizes. A chroma block takes the flags of the luma CU of its size or, over four of the smallest CUs, combines those of
three of them; `ChromaAvailIs` shows that the result is right for the chroma block. At the end of a CTU `UpdateBuffers` leaves the
borders of the next one, on the same row or at the start of the next (`NextPlace`, `BorderRow`). TLC checked `RefInv` on 2x2 CTUs first.

Assumptions: `WorkQueueAssumption` (finite workers, the null item is no item, capacity
a natural number) and `SliceCompressorAssumption` (main is not a worker, at
least one tile and CTU, items are the tiles but the last, capacity one less than the
tiles, as `MakeTileThreadsPool` sets them up); `TileStructAssumption` (a frame has a CTU, arguments are
integers) and `CTUAssumption` (a tile has a CTU); of the engine, `LPSRowsAssumption` (entries
of `g_pbLPSTable` are between 6 and 240, and the first row, 128, 176, 208, 240, bounds the others),
`BypassBinsAssumption` (1 to 20 bins that fit their number), `RemaindersAssumption` (a level has 16
bits, the Rice parameter is at most 4) and `MaxCallsAssumption` (a bound); of the handlers, `SliceStreamAssumption` (width and height are
multiples of the CTU, as `EncTop.cpp:180` asserts, at least two CTUs, as `GenTileBoundingPixels` does, and at most 8192, a bound; 1 to 24 tiles in a row, of at least two columns of CTUs; bytes, last codes of 5 to 12
bits, QPs). `TileStructAssumption` takes the options from all integers and a word of any size. TLC evaluates all of them.

Only model-checked: all liveness (fairness and `ENABLED` are out of the prover's
reach). In `SliceStream`, `FileReadsBack` and `TilesDecodableAlone` compare recursive functions over
all bits of a file, start codes included: a decoder's reading of a list whose length has no bound is an induction over data. Of the CTU compressor, `SyntaxIsStandard` compares
two recursions over the quadtree. The properties of blocks compare numeric sums over
1024 samples, which are outside linear arithmetic.

## Not modelled

Mode decision by SAD and by the bits of a mode: which trial is kept is a choice, so
nothing is said of the quality of the choice. LM chroma is compiled out
(`USE_CHROMA_LM_MODE` in `Defines.h`). Two GOP threads: `Encode` calls `CompressGOP` for each in turn, on
one thread; with an odd number of frames the last one is not coded, as the division
at `EncTop.cpp:357` says. A YUV file that ends early leaves the last reconstruction
in the frame buffer, which is coded again (`EncTop.cpp:433`). The teardown,
destructors and cancellation, starts after the last wait; the thread
it could disturb is one that a wait has left behind, and what cancellation does to it
belongs to the pthread library. Time
stamps, traces, file formats of the statistics and Windows variants are left out.
The contents of a tile's bitstream, and with them its size, are left open:
whether 800 bytes are enough for a CTU depends on them; `TilesStayInBuffers` says which tiles fit. What
a byte behind a buffer would overwrite is not modelled. The adaptation of contexts and the tables of their initial values are
not modelled: the engine is checked for any state, the syntax for the context it chooses.
`GetNumJobsInQueue`, `WaitTillThreadFinish` and `DetachThread` are never called by the
encoder.
