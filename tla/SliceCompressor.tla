---------------------------- MODULE SliceCompressor ----------------------------
(***************************************************************************)
(* The compression of frames by tile threads: the main thread's loop of    *)
(* EncTop::Encode for one GOP thread and a GOP of one frame, with the      *)
(* CompressGOP and CompressSlice calls inlined, H265TileCompressor::       *)
(* CompressTile on the main thread and on the workers, and the queue       *)
(* between them.  The module extends WorkQueue: each step here is a step    *)
(* of the queue and its threads, or leaves them alone.                     *)
(*                                                                         *)
(* Data is reduced to where it comes from.  A cell of the frame buffer is  *)
(* one CTU of one tile, and says which frame it belongs to and whether it  *)
(* is still the source picture or already the reconstruction that          *)
(* UpdateBuffers writes over it.  A bitstream is the sequence of the       *)
(* things coded into it: a slice header, or the cell a CTU was coded from. *)
(* Coding one CTU (CompressCTU, EncodeCTU, UpdateBuffers) is one step.     *)
(***************************************************************************)
EXTENDS WorkQueue, Sequences

(* Workers are the m_uiNumTileThreads - 1 threads of the pool. *)
CONSTANTS Main,          \* the thread that runs Encode
          NumTiles,      \* m_uiTotalTiles
          CtusPerTile,   \* m_uiTotalCTUsInTile
          NumFrames      \* m_uiNumFrames

(* A work item carries its tile (its other arguments are the same for all  *)
(* frames), and the queue has one slot per pushed tile.                    *)
ASSUME SliceCompressorAssumption ==
  /\ Main \notin Workers
  /\ NoItem # NumTiles - 1
  /\ NumTiles \in Nat \ {0}
  /\ CtusPerTile \in Nat \ {0}
  /\ NumFrames \in Nat
  /\ Items = 0 .. (NumTiles - 2)
  /\ iSize = NumTiles - 1

VARIABLES
  \* the main thread
  mainPc,       \* what the main thread does next
  uiFrame,      \* the frame being encoded (i of Encode's loop)
  uiTile,       \* the next tile to push (i of CompressSlice's first loop)
  iCtu,         \* for each thread, i of CompressTile's loop
  \* data
  frameBuff,    \* m_pppcYBuff, m_pppcCbBuff and m_pppcCrBuff, by tile and CTU
  stream,       \* m_ppcBitStreamHandler, and the slice header's handler
  totalBytes,   \* m_pu64TotalBytesPerTile
  entryPoints,  \* the tile entry points coded in the slice header
  bitstreamFile,\* Video.h265: one element per frame
  recFile,      \* the reconstructed YUV file: one element per frame
  \* history
  leftBehind    \* has a WaitQueueEmpty returned before a job was finished?

mainVars  == <<mainPc, uiFrame, uiTile>>
fileVars  == <<totalBytes, entryPoints, bitstreamFile, recFile>>
sliceVars == <<vars, mainVars, iCtu, frameBuff, stream, fileVars, leftBehind>>

Tiles      == 0 .. (NumTiles - 1)
LastTile   == NumTiles - 1           \* the one the main thread compresses itself
Ctus       == 0 .. (CtusPerTile - 1)
Frames     == 0 .. (NumFrames - 1)
Threads    == Workers \cup {Main}

(* With several tiles the slice header has a handler of its own, with one  *)
(* it goes first into the only tile's.                                     *)
HeaderStream == IF NumTiles > 1 THEN NumTiles ELSE 0
Streams      == Tiles \cup {HeaderStream}

MainPcs == {"FillGOPBuffFromYUV", "InitialToCompression", "AddToJob",
            "CompressTile", "WaitQueueEmpty", "GetTotalBytesWritten",
            "WriteTilesEntryPoint", "WriteBitstreamFile", "end"}

--------------------------------------------------------------------------------
(* Data. *)

Cell(f, kind)    == [frame |-> f, kind |-> kind]
Blank            == Cell(0, "none")
Header(f)        == [cell |-> Cell(f, "header"), ctu |-> 0]
Coded(c, cell)   == [cell |-> cell, ctu |-> c]
AllCells(cell)   == [t \in Tiles |-> [c \in Ctus |-> cell]]

(* Encode follows the links set by CatTileBitStreamHandlers: the header's  *)
(* handler, then every tile's in order.                                    *)
SliceStreams == IF NumTiles > 1
                THEN <<HeaderStream>> \o [t \in 1 .. NumTiles |-> t - 1]
                ELSE <<0>>

(* What encoding frame f tile after tile writes: every CTU coded once, in  *)
(* order, from the source picture, behind the frame's header.              *)
SequentialStream(f, s) ==
  (IF s = HeaderStream THEN <<Header(f)>> ELSE << >>) \o
  (IF s \in Tiles
   THEN [k \in 1 .. CtusPerTile |-> Coded(k - 1, Cell(f, "source"))] ELSE << >>)

SequentialFrame(f) ==
  [streams |-> [k \in 1 .. Len(SliceStreams) |-> SequentialStream(f, SliceStreams[k])],
   entries |-> [k \in 1 .. (NumTiles - 1) |-> CtusPerTile]]

--------------------------------------------------------------------------------
SliceInit ==
  /\ Init
  /\ mainPc = "FillGOPBuffFromYUV"
  /\ uiFrame = 0
  /\ uiTile = 0
  /\ iCtu = [th \in Threads |-> 0]
  /\ frameBuff = AllCells(Blank)
  /\ stream = [s \in Streams |-> << >>]
  /\ totalBytes = [t \in Tiles |-> 0]
  /\ entryPoints = << >>
  /\ bitstreamFile = << >>
  /\ recFile = << >>
  /\ leftBehind = FALSE

(* One round of CompressTile's loop over the CTUs of tile t. *)
CompressCTU(th, t) ==
  LET c == iCtu[th] IN
  /\ c < CtusPerTile
  /\ stream' = [stream EXCEPT ![t] = Append(@, Coded(c, frameBuff[t][c]))]
  /\ frameBuff' = [frameBuff EXCEPT ![t][c].kind = "rec"]
  /\ iCtu' = [iCtu EXCEPT ![th] = c + 1]

(* Encode reads the next frame, or leaves its loop. *)
FillGOPBuffFromYUV ==
  /\ mainPc = "FillGOPBuffFromYUV"
  /\ IF uiFrame < NumFrames
     THEN /\ frameBuff' = AllCells(Cell(uiFrame, "source"))
          /\ mainPc' = "InitialToCompression"
     ELSE /\ mainPc' = "end"
          /\ UNCHANGED frameBuff
  /\ UNCHANGED <<vars, uiFrame, uiTile, iCtu, stream, fileVars, leftBehind>>

(* Faulty variant: the tiles' handlers keep the previous frame. *)
InitialKeepsTileStreams ==
  /\ mainPc = "InitialToCompression"
  /\ stream' = [stream EXCEPT ![HeaderStream] = <<Header(uiFrame)>>]
  /\ uiTile' = 0
  /\ mainPc' = "AddToJob"
  /\ UNCHANGED <<vars, uiFrame, iCtu, frameBuff, fileVars, leftBehind>>

(* InitialToCompression empties every handler, WriteSliceHeader begins the *)
(* slice header's.                                                         *)
InitialToCompression ==
  /\ mainPc = "InitialToCompression"
  /\ stream' = [s \in Streams |->
                  IF s = HeaderStream THEN <<Header(uiFrame)>> ELSE << >>]
  /\ uiTile' = 0
  /\ mainPc' = "AddToJob"
  /\ UNCHANGED <<vars, uiFrame, iCtu, frameBuff, fileVars, leftBehind>>

(* Faulty variants: the last tile is pushed too; one work item is used for *)
(* all tiles.                                                              *)
PushLastTileToo ==
  /\ mainPc = "AddToJob"
  /\ uiTile <= LastTile
  /\ AddToJob(uiTile)
  /\ uiTile' = uiTile + 1
  /\ UNCHANGED <<mainPc, uiFrame, iCtu, frameBuff, stream, fileVars, leftBehind>>

PushSharedWorkItem ==
  /\ mainPc = "AddToJob"
  /\ uiTile < LastTile
  /\ AddToJob(0)
  /\ uiTile' = uiTile + 1
  /\ UNCHANGED <<mainPc, uiFrame, iCtu, frameBuff, stream, fileVars, leftBehind>>

(* CompressSlice prepares and pushes the work item of one tile.  Its       *)
(* MAKE_SURE stops the program when AddToJob finds no space;               *)
(* SpaceForEveryTile says that it never does.                              *)
PushTile ==
  /\ mainPc = "AddToJob"
  /\ uiTile < LastTile
  /\ AddToJob(uiTile)
  /\ uiTile' = uiTile + 1
  /\ UNCHANGED <<mainPc, uiFrame, iCtu, frameBuff, stream, fileVars, leftBehind>>

(* All pushed: the main thread enters CompressTile for the last tile. *)
StartLastTile ==
  /\ mainPc = "AddToJob"
  /\ uiTile = LastTile
  /\ iCtu' = [iCtu EXCEPT ![Main] = 0]
  /\ mainPc' = "CompressTile"
  /\ UNCHANGED <<vars, uiFrame, uiTile, frameBuff, stream, fileVars, leftBehind>>

MainCompressCTU ==
  /\ mainPc = "CompressTile"
  /\ CompressCTU(Main, LastTile)
  /\ UNCHANGED <<vars, mainVars, fileVars, leftBehind>>

WaitQueueEmpty ==
  /\ mainPc = "CompressTile"
  /\ iCtu[Main] = CtusPerTile
  /\ CallWaitQueueEmpty
  /\ mainPc' = "WaitQueueEmpty"
  /\ UNCHANGED <<uiFrame, uiTile, iCtu, frameBuff, stream, fileVars, leftBehind>>

WaitQueueEmptySleep ==
  /\ WaitQueueEmptyWait
  /\ UNCHANGED <<mainVars, iCtu, frameBuff, stream, fileVars, leftBehind>>

LeaveWaitQueueEmpty ==
  /\ WaitQueueEmptyReturn
  /\ mainPc' = "GetTotalBytesWritten"
  /\ leftBehind' = (leftBehind \/ \E w \in Workers : pcWorkItem[w] # NoItem)
  /\ UNCHANGED <<uiFrame, uiTile, iCtu, frameBuff, stream, fileVars>>

(* The bytes of every tile are collected. *)
GetTotalBytesWritten ==
  /\ mainPc = "GetTotalBytesWritten"
  /\ totalBytes' = [t \in Tiles |-> Len(stream[t])]
  /\ mainPc' = "WriteTilesEntryPoint"
  /\ UNCHANGED <<vars, uiFrame, uiTile, iCtu, frameBuff, stream,
                 entryPoints, bitstreamFile, recFile, leftBehind>>

(* The handlers are asked again for the entry points, which complete the   *)
(* slice header; with one tile there are none.                             *)
WriteTilesEntryPoint ==
  /\ mainPc = "WriteTilesEntryPoint"
  /\ entryPoints' = [k \in 1 .. (NumTiles - 1) |-> Len(stream[k - 1])]
  /\ mainPc' = "WriteBitstreamFile"
  /\ UNCHANGED <<vars, uiFrame, uiTile, iCtu, frameBuff, stream,
                 totalBytes, bitstreamFile, recFile, leftBehind>>

(* Encode writes the linked handlers and the reconstructed frame. *)
WriteBitstreamFile ==
  /\ mainPc = "WriteBitstreamFile"
  /\ bitstreamFile' = Append(bitstreamFile,
       [streams |-> [k \in 1 .. Len(SliceStreams) |-> stream[SliceStreams[k]]],
        entries |-> entryPoints])
  /\ recFile' = Append(recFile, frameBuff)
  /\ uiFrame' = uiFrame + 1
  /\ mainPc' = "FillGOPBuffFromYUV"
  /\ UNCHANGED <<vars, uiTile, iCtu, frameBuff, stream, totalBytes,
                 entryPoints, leftBehind>>

MainStep ==
  \/ FillGOPBuffFromYUV
  \/ InitialToCompression
  \/ PushTile
  \/ StartLastTile
  \/ MainCompressCTU
  \/ WaitQueueEmpty
  \/ WaitQueueEmptySleep
  \/ LeaveWaitQueueEmpty
  \/ GetTotalBytesWritten
  \/ WriteTilesEntryPoint
  \/ WriteBitstreamFile

(* A worker in the queue's functions. *)
WorkerQueueStep(w) ==
  /\ GetNextJobWait(w) \/ GetNextJob(w) \/ JobDone(w)
  /\ UNCHANGED <<mainVars, iCtu, frameBuff, stream, fileVars, leftBehind>>

(* A worker counts its job and calls CompressTileThread. *)
WorkerStartTile(w) ==
  /\ IncNumJobsUnderProcess(w)
  /\ iCtu' = [iCtu EXCEPT ![w] = 0]
  /\ UNCHANGED <<mainVars, frameBuff, stream, fileVars, leftBehind>>

WorkerCompressCTU(w) ==
  /\ pc[w] = "m_pfPtrToFunc"
  /\ CompressCTU(w, pcWorkItem[w])
  /\ UNCHANGED <<vars, mainVars, fileVars, leftBehind>>

(* Faulty variant: RunThread does not call JobDone. *)
WorkerForgetsJobDone(w) ==
  /\ iCtu[w] = CtusPerTile
  /\ pc[w] = "m_pfPtrToFunc"
  /\ pc' = [pc EXCEPT ![w] = "GetNextJob"]
  /\ UNCHANGED <<buffer, m_iPendingJobs, pcWorkItem, callerPc, addRet>>
  /\ UNCHANGED <<mainVars, iCtu, frameBuff, stream, fileVars, leftBehind>>

WorkerTileReturns(w) ==
  /\ iCtu[w] = CtusPerTile
  /\ JobReturns(w)
  /\ UNCHANGED <<mainVars, iCtu, frameBuff, stream, fileVars, leftBehind>>

WorkerStep(w) ==
  \/ WorkerQueueStep(w)
  \/ WorkerStartTile(w)
  \/ WorkerCompressCTU(w)
  \/ WorkerTileReturns(w)

(* pthread_cond_wait returns although nobody signalled. *)
AnyWakeup ==
  /\ CallerSpuriousWakeup \/ \E w \in Workers : SpuriousWakeup(w)
  /\ UNCHANGED <<mainVars, iCtu, frameBuff, stream, fileVars, leftBehind>>

SliceNext ==
  \/ MainStep
  \/ \E w \in Workers : WorkerStep(w)
  \/ AnyWakeup

SliceSpec == SliceInit /\ [][SliceNext]_sliceVars

(* Every thread that can run does; a spurious wake-up need not come. *)
SliceFairSpec ==
  /\ SliceSpec
  /\ WF_sliceVars(MainStep)
  /\ \A w \in Workers : WF_sliceVars(WorkerStep(w))

--------------------------------------------------------------------------------
(* Invariants. *)

Cells    == [frame : 0 .. NumFrames, kind : {"none", "source", "rec", "header"}]
Units    == [cell : Cells, ctu : Nat]            \* what a bitstream is made of
Pictures == [Tiles -> [Ctus -> Cells]]

SliceTypeOK ==
  /\ TypeOK
  /\ mainPc \in MainPcs
  /\ uiFrame \in 0 .. NumFrames
  /\ uiTile \in Tiles
  /\ iCtu \in [Threads -> 0 .. CtusPerTile]
  /\ frameBuff \in Pictures
  /\ stream \in [Streams -> Seq(Units)]
  /\ totalBytes \in [Tiles -> Nat]
  /\ entryPoints \in Seq(Nat)
  /\ bitstreamFile \in Seq([streams : Seq(Seq(Units)), entries : Seq(Nat)])
  /\ recFile \in Seq(Pictures)
  /\ Len(bitstreamFile) = uiFrame /\ Len(recFile) = uiFrame
  /\ leftBehind \in BOOLEAN

(***************************************************************************)
(* CompressSlice asserts that every AddToJob finds space ("No space in the *)
(* workqueue"): the queue has one slot less than there are tiles and is    *)
(* shared by successive frames, also when workers are still at tiles of an *)
(* earlier frame.                                                          *)
(***************************************************************************)
SpaceForEveryTile ==
  mainPc = "AddToJob" /\ uiTile < LastTile => m_iCurrSize < NumTiles - 1

(***************************************************************************)
(* A tile's compressor, CABAC engine and bitstream handler are not         *)
(* protected by any lock; they are safe because a tile is pushed once per  *)
(* frame and given to one thread.  So, until a wait has left a job behind, *)
(* no tile is with two threads, or with one and in the queue.              *)
(***************************************************************************)
Queued(t) == {k \in 0 .. (m_iCurrSize - 1) : m_ppcWorkItemQueue[LiveSlot(k)] = t}
Holders(t) == {w \in Workers : pcWorkItem[w] = t}
               \cup (IF mainPc = "CompressTile" /\ t = LastTile THEN {Main} ELSE {})

TileExclusive ==
  ~leftBehind =>
    \A t \in Tiles : Cardinality(Queued(t)) + Cardinality(Holders(t)) <= 1

(***************************************************************************)
(* What the files hold is what encoding tile after tile on one thread      *)
(* writes, whatever the interleaving of the workers: every frame's header, *)
(* every tile's CTUs once and in order, coded from the source (never from  *)
(* a cell already replaced by its reconstruction or from another frame),   *)
(* the right entry points, and a fully reconstructed picture.  This holds  *)
(* until a wait has left a job behind.                                     *)
(***************************************************************************)
OutputSequential ==
  ~leftBehind =>
    /\ bitstreamFile = [k \in 1 .. uiFrame |-> SequentialFrame(k - 1)]
    /\ recFile = [k \in 1 .. uiFrame |-> AllCells(Cell(k - 1, "rec"))]

(***************************************************************************)
(* The statistics of a slice (m_pu64TotalBytesPerTile, read by DumpStats)  *)
(* are of the tiles that were written, although the handlers are asked for *)
(* their size three times, with the workers possibly running in between.   *)
(***************************************************************************)
StatsMatchFile ==
  ~leftBehind /\ mainPc = "FillGOPBuffFromYUV" /\ uiFrame > 0 =>
    LET written == bitstreamFile[uiFrame].streams
    IN  \A t \in Tiles : totalBytes[t] = Len(written[Len(written) - LastTile + t])

(***************************************************************************)
(* H265SliceCompressor.cpp:295, on the call of WaitQueueEmpty: "Let the    *)
(* threads finish their job".  After it, while the main thread reads the   *)
(* tiles' bitstreams, no worker has a job.                                 *)
(***************************************************************************)
ThreadsFinished ==
  mainPc \in {"GetTotalBytesWritten", "WriteTilesEntryPoint", "WriteBitstreamFile"} =>
    \A w \in Workers : pcWorkItem[w] = NoItem

(* Every step is one of the work queue, or leaves it alone: what is proved *)
(* of WorkQueue holds here.                                                *)
ImplementsWorkQueue == Spec

(***************************************************************************)
(* Liveness: the program encodes all frames and ends.                      *)
(***************************************************************************)
EncodeTerminates == <>(mainPc = "end" /\ Len(bitstreamFile) = NumFrames)
================================================================================
