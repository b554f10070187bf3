------------------------- MODULE SliceCompressorProofs -------------------------
(***************************************************************************)
(* Proofs about SliceCompressor, for any number of worker threads, tiles,  *)
(* CTUs and frames.                                                        *)
(***************************************************************************)
EXTENDS SliceCompressor, WorkQueueProofs

(* The main thread is inside WaitQueueEmpty exactly when the queue says    *)
(* so, and pushes no other tiles than those of the work items.             *)
Control ==
  /\ mainPc \in MainPcs
  /\ uiTile \in 0 .. LastTile
  /\ callerPc \in CallerPcs
  /\ callerPc = "run" <=> mainPc # "WaitQueueEmpty"

(* The queue is empty outside CompressSlice's pushing and waiting, and     *)
(* during the pushing it holds no more tiles than were pushed.             *)
BetweenFrames == {"FillGOPBuffFromYUV", "InitialToCompression",
                  "GetTotalBytesWritten", "WriteTilesEntryPoint",
                  "WriteBitstreamFile", "end"}

QueueWithinTiles ==
  /\ mainPc \in BetweenFrames => m_iCurrSize = 0
  /\ mainPc = "AddToJob" => m_iCurrSize <= uiTile

--------------------------------------------------------------------------------
LEMMA TileNumbers == LastTile \in Nat /\ LastTile = iSize /\ Items = 0 .. (LastTile - 1)
BY SliceCompressorAssumption DEF LastTile

(* Every step of the program is a step of the queue or leaves it alone. *)
LEMMA QueueStep ==
  ASSUME Control, [SliceNext]_sliceVars
  PROVE  [Next]_vars
<1>1. CASE FillGOPBuffFromYUV \/ InitialToCompression \/ StartLastTile
           \/ MainCompressCTU \/ GetTotalBytesWritten \/ WriteTilesEntryPoint
           \/ WriteBitstreamFile
  BY <1>1 DEF FillGOPBuffFromYUV, InitialToCompression, StartLastTile,
              MainCompressCTU, GetTotalBytesWritten, WriteTilesEntryPoint,
              WriteBitstreamFile
<1>2. CASE WaitQueueEmpty \/ WaitQueueEmptySleep \/ LeaveWaitQueueEmpty
  BY <1>2 DEF WaitQueueEmpty, WaitQueueEmptySleep, LeaveWaitQueueEmpty, Next
<1>3. CASE PushTile
  <2>1. uiTile \in Items
    BY <1>3, TileNumbers DEF PushTile, Control
  <2> QED
    BY <1>3, <2>1 DEF PushTile, Next
<1>4. ASSUME NEW w \in Workers, WorkerStep(w) PROVE [Next]_vars
  BY <1>4 DEF WorkerStep, WorkerQueueStep, WorkerStartTile, WorkerCompressCTU,
              WorkerTileReturns, Next, RunThread
<1>5. CASE AnyWakeup
  BY <1>5 DEF AnyWakeup, Next
<1>6. CASE UNCHANGED sliceVars
  BY <1>6 DEF sliceVars
<1> QED
  BY <1>1, <1>2, <1>3, <1>4, <1>5, <1>6 DEF SliceNext, MainStep

LEMMA ControlInvariant == SliceSpec => []Control
<1>1. SliceInit => Control
  BY TileNumbers DEF SliceInit, Init, Control, MainPcs, CallerPcs
<1>2. ASSUME Control, [SliceNext]_sliceVars PROVE Control'
  <2> USE <1>2, TileNumbers DEF Control, MainPcs, CallerPcs
  <2>1. CASE FillGOPBuffFromYUV \/ InitialToCompression \/ StartLastTile
             \/ MainCompressCTU \/ GetTotalBytesWritten \/ WriteTilesEntryPoint
             \/ WriteBitstreamFile
    BY <2>1 DEF FillGOPBuffFromYUV, InitialToCompression, StartLastTile,
                MainCompressCTU, GetTotalBytesWritten, WriteTilesEntryPoint,
                WriteBitstreamFile, vars, mainVars
  <2>2. CASE PushTile
    BY <2>2 DEF PushTile, AddToJob
  <2>3. CASE WaitQueueEmpty \/ WaitQueueEmptySleep \/ LeaveWaitQueueEmpty
    BY <2>3 DEF WaitQueueEmpty, CallWaitQueueEmpty, WaitQueueEmptySleep,
                WaitQueueEmptyWait, LeaveWaitQueueEmpty, WaitQueueEmptyReturn, mainVars
  <2>4. ASSUME NEW w \in Workers, WorkerStep(w) PROVE Control'
    <3>1. UNCHANGED mainVars
      BY <2>4 DEF WorkerStep, WorkerQueueStep, WorkerStartTile, WorkerCompressCTU,
                  WorkerTileReturns
    <3>2. \/ callerPc' = callerPc
          \/ callerPc = "waitQueueEmpty" /\ callerPc' = "WaitQueueEmpty"
      BY <2>4 DEF WorkerStep, WorkerQueueStep, WorkerStartTile, WorkerCompressCTU,
                  WorkerTileReturns, GetNextJobWait, GetNextJob, JobDone,
                  SignalQueueEmpty, IncNumJobsUnderProcess, JobReturns, vars
    <3> QED
      BY <3>1, <3>2 DEF mainVars
  <2>5. CASE AnyWakeup
    BY <2>5 DEF AnyWakeup, CallerSpuriousWakeup, SpuriousWakeup, mainVars
  <2>6. CASE UNCHANGED sliceVars
    BY <2>6 DEF sliceVars, mainVars, vars
  <2> QED
    BY <2>1, <2>2, <2>3, <2>4, <2>5, <2>6 DEF SliceNext, MainStep
<1> QED
  BY <1>1, <1>2, PTL DEF SliceSpec

(***************************************************************************)
(* The program uses the queue as WorkQueue lets its caller use it, so that *)
(* every theorem about WorkQueue holds of the program.                     *)
(***************************************************************************)
THEOREM UsesWorkQueue == SliceSpec => ImplementsWorkQueue
<1>1. SliceInit => Init
  BY DEF SliceInit
<1>2. Control /\ [SliceNext]_sliceVars => [Next]_vars
  BY QueueStep
<1> QED
  BY <1>1, <1>2, ControlInvariant, PTL DEF SliceSpec, Spec, ImplementsWorkQueue

--------------------------------------------------------------------------------
LEMMA QueueWithinTilesInvariant == SliceSpec => []QueueWithinTiles
<1>1. SliceInit => QueueWithinTiles
  BY DEF SliceInit, Init, QueueWithinTiles
<1>2. ASSUME IInv, Control, QueueWithinTiles, [SliceNext]_sliceVars
      PROVE  QueueWithinTiles'
  <2> USE <1>2, TileNumbers DEF QueueWithinTiles, BetweenFrames
  <2>0. m_iCurrSize \in Nat
    BY WorkQueueAssumption DEF IInv, TypeOK
  <2>1. CASE FillGOPBuffFromYUV \/ InitialToCompression \/ StartLastTile
             \/ MainCompressCTU \/ GetTotalBytesWritten \/ WriteTilesEntryPoint
             \/ WriteBitstreamFile
    BY <2>1 DEF FillGOPBuffFromYUV, InitialToCompression, StartLastTile,
                MainCompressCTU, GetTotalBytesWritten, WriteTilesEntryPoint,
                WriteBitstreamFile, vars, mainVars
  <2>2. CASE PushTile
    BY <2>0, <2>2 DEF PushTile, AddToJob, Control
  <2>3. CASE WaitQueueEmpty \/ WaitQueueEmptySleep
    BY <2>3 DEF WaitQueueEmpty, WaitQueueEmptySleep, WaitQueueEmptyWait, Control, mainVars
  <2>4. CASE LeaveWaitQueueEmpty
    BY <2>0, <2>4 DEF LeaveWaitQueueEmpty, WaitQueueEmptyReturn, buffer
  <2>5. ASSUME NEW w \in Workers, WorkerStep(w) PROVE QueueWithinTiles'
    <3>1. UNCHANGED mainVars
      BY <2>5 DEF WorkerStep, WorkerQueueStep, WorkerStartTile, WorkerCompressCTU,
                  WorkerTileReturns
    <3>2. \/ m_iCurrSize' = m_iCurrSize
          \/ m_iCurrSize # 0 /\ m_iCurrSize' = m_iCurrSize - 1
      BY <2>5 DEF WorkerStep, WorkerQueueStep, WorkerStartTile, WorkerCompressCTU,
                  WorkerTileReturns, GetNextJobWait, GetNextJob, JobDone,
                  IncNumJobsUnderProcess, JobReturns, vars, buffer
    <3> QED
      BY <2>0, <3>1, <3>2 DEF mainVars, Control
  <2>6. CASE AnyWakeup
    BY <2>6 DEF AnyWakeup, CallerSpuriousWakeup, SpuriousWakeup, mainVars, buffer
  <2>7. CASE UNCHANGED sliceVars
    BY <2>7 DEF sliceVars, mainVars, vars
  <2> QED
    BY <2>1, <2>2, <2>3, <2>4, <2>5, <2>6, <2>7 DEF SliceNext, MainStep
<1>3. SliceSpec => []IInv
  BY UsesWorkQueue, Invariance, PTL DEF ImplementsWorkQueue
<1> QED
  BY <1>1, <1>2, <1>3, ControlInvariant, PTL DEF SliceSpec

(***************************************************************************)
(* The assertion of CompressSlice never fires: whatever jobs of the        *)
(* previous frame are unfinished, AddToJob finds space for each tile.      *)
(***************************************************************************)
THEOREM SpaceForTiles == SliceSpec => []SpaceForEveryTile
<1>1. Control /\ QueueWithinTiles /\ IInv => SpaceForEveryTile
  BY TileNumbers, WorkQueueAssumption
  DEF Control, QueueWithinTiles, SpaceForEveryTile, LastTile, IInv, TypeOK
<1> QED
  BY <1>1, ControlInvariant, QueueWithinTilesInvariant, UsesWorkQueue, Invariance, PTL
  DEF ImplementsWorkQueue

--------------------------------------------------------------------------------
(* A frame being compressed is one of the NumFrames. *)
FrameInRange ==
  mainPc \notin {"FillGOPBuffFromYUV", "end"} => uiFrame < NumFrames

(* The parts of the type invariant that the queue and Control do not give. *)
DataTypeOK ==
  /\ FrameInRange
  /\ uiFrame \in 0 .. NumFrames
  /\ iCtu \in [Threads -> 0 .. CtusPerTile]
  /\ frameBuff \in Pictures
  /\ stream \in [Streams -> Seq(Units)]
  /\ totalBytes \in [Tiles -> Nat]
  /\ entryPoints \in Seq(Nat)
  /\ bitstreamFile \in Seq([streams : Seq(Seq(Units)), entries : Seq(Nat)])
  /\ recFile \in Seq(Pictures)
  /\ Len(bitstreamFile) = uiFrame /\ Len(recFile) = uiFrame
  /\ leftBehind \in BOOLEAN

LEMMA FiniteFunctionIsSeq ==
  ASSUME NEW S, NEW n \in Nat, NEW f \in [1 .. n -> S]
  PROVE  f \in Seq(S) /\ Len(f) = n
OBVIOUS

LEMMA StreamOfTile ==
  /\ \A t \in Tiles : t \in Streams
  /\ Items \subseteq Tiles
  /\ LastTile \in Tiles
  /\ HeaderStream \in Streams
BY SliceCompressorAssumption DEF Streams, Tiles, LastTile, HeaderStream

(* The handlers that Encode writes are handlers of this frame. *)
LEMMA LinkedStreams ==
  /\ Len(SliceStreams) \in Nat
  /\ \A k \in 1 .. Len(SliceStreams) : SliceStreams[k] \in Streams
<1>1. CASE NumTiles > 1
  <2> DEFINE tiles == [t \in 1 .. NumTiles |-> t - 1]
  <2>1. tiles \in Seq(Streams) /\ Len(tiles) = NumTiles
    BY SliceCompressorAssumption DEF Streams, Tiles
  <2>2. <<HeaderStream>> \o tiles \in Seq(Streams)
    BY <2>1, StreamOfTile
  <2>3. SliceStreams = <<HeaderStream>> \o tiles
    BY <1>1 DEF SliceStreams
  <2> HIDE DEF tiles
  <2> QED
    BY <2>2, <2>3
<1>2. CASE ~(NumTiles > 1)
  BY <1>2, StreamOfTile, SliceCompressorAssumption DEF SliceStreams, Tiles
<1> QED
  BY <1>1, <1>2

(* Compressing one CTU, on any thread, keeps the data well formed. *)
LEMMA CompressCTUTypes ==
  ASSUME DataTypeOK, NEW th \in Threads, NEW t \in Tiles, CompressCTU(th, t)
  PROVE  /\ iCtu' \in [Threads -> 0 .. CtusPerTile]
         /\ frameBuff' \in Pictures
         /\ stream' \in [Streams -> Seq(Units)]
<1> USE SliceCompressorAssumption DEF DataTypeOK
<1>1. iCtu[th] \in Ctus
  BY DEF CompressCTU, Ctus
<1>2. iCtu' \in [Threads -> 0 .. CtusPerTile]
  BY <1>1 DEF CompressCTU, Ctus
<1>3. frameBuff[t][iCtu[th]] \in Cells
  BY <1>1 DEF Pictures
<1>4. stream' \in [Streams -> Seq(Units)]
  <2>1. Coded(iCtu[th], frameBuff[t][iCtu[th]]) \in Units
    BY <1>1, <1>3 DEF Coded, Units, Ctus
  <2> QED
    BY <2>1, StreamOfTile DEF CompressCTU
<1>5. frameBuff' \in Pictures
  <2> DEFINE c == iCtu[th]
  <2>1. [frameBuff[t][c] EXCEPT !.kind = "rec"] \in Cells
    BY <1>3 DEF Cells
  <2>2. frameBuff' = [frameBuff EXCEPT ![t] =
                        [frameBuff[t] EXCEPT ![c] =
                           [frameBuff[t][c] EXCEPT !.kind = "rec"]]]
    BY <1>1 DEF CompressCTU, Pictures
  <2> QED
    BY <1>1, <2>1, <2>2 DEF Pictures
<1> QED
  BY <1>2, <1>4, <1>5

LEMMA DataInit == SliceInit => DataTypeOK
<1> SUFFICES ASSUME SliceInit PROVE DataTypeOK
  OBVIOUS
<1> USE SliceCompressorAssumption
<1>1. AllCells(Blank) \in Pictures
  BY DEF AllCells, Blank, Cell, Cells, Pictures
<1>2. frameBuff \in Pictures /\ stream \in [Streams -> Seq(Units)]
  BY <1>1 DEF SliceInit
<1>3. /\ bitstreamFile \in Seq([streams : Seq(Seq(Units)), entries : Seq(Nat)])
      /\ recFile \in Seq(Pictures)
      /\ Len(bitstreamFile) = 0 /\ Len(recFile) = 0
      /\ entryPoints \in Seq(Nat)
  <2>1. \A S : << >> \in Seq(S) /\ Len(<< >>) = 0
    OBVIOUS
  <2> QED
    BY <2>1 DEF SliceInit
<1>4. FrameInRange /\ uiFrame = 0 /\ uiFrame \in 0 .. NumFrames
  BY DEF SliceInit, FrameInRange
<1>5. /\ iCtu \in [Threads -> 0 .. CtusPerTile]
      /\ totalBytes \in [Tiles -> Nat]
  BY DEF SliceInit
<1>6. leftBehind \in BOOLEAN
  BY DEF SliceInit
<1> QED
  BY <1>2, <1>3, <1>4, <1>5, <1>6 DEF DataTypeOK

(* A worker's step keeps the data well formed: its work item is a tile. *)
LEMMA WorkerDataTypes ==
  ASSUME IInv, DataTypeOK, NEW w \in Workers, WorkerStep(w)
  PROVE  DataTypeOK'
<1> USE SliceCompressorAssumption DEF DataTypeOK, FrameInRange
<1>0. w \in Threads
  BY DEF Threads
<1>1. CASE WorkerQueueStep(w) \/ WorkerTileReturns(w)
  BY <1>1 DEF WorkerQueueStep, WorkerTileReturns, mainVars, fileVars
<1>2. CASE WorkerStartTile(w)
  BY <1>0, <1>2 DEF WorkerStartTile, mainVars, fileVars
<1>3. CASE WorkerCompressCTU(w)
  <2>1. pcWorkItem[w] \in Tiles
    BY <1>3, StreamOfTile DEF WorkerCompressCTU, IInv, JobPointersValid
  <2> QED
    BY <1>0, <1>3, <2>1, CompressCTUTypes DEF WorkerCompressCTU, mainVars, fileVars
<1> QED
  BY <1>1, <1>2, <1>3 DEF WorkerStep

LEMMA DataStep ==
  ASSUME IInv, Control, DataTypeOK, [SliceNext]_sliceVars
  PROVE  DataTypeOK'
<1> USE SliceCompressorAssumption DEF DataTypeOK, FrameInRange
<1>m. Main \in Threads
  BY DEF Threads
<1>1. CASE FillGOPBuffFromYUV
  <2>1. uiFrame < NumFrames => AllCells(Cell(uiFrame, "source")) \in Pictures
    BY DEF AllCells, Cell, Cells, Pictures
  <2> QED
    BY <1>1, <2>1 DEF FillGOPBuffFromYUV, fileVars
<1>2. CASE InitialToCompression
  <2>1. <<Header(uiFrame)>> \in Seq(Units)
    BY DEF Header, Cell, Cells, Units
  <2>2. stream' \in [Streams -> Seq(Units)]
    BY <1>2, <2>1 DEF InitialToCompression
  <2> QED
    BY <1>2, <2>2 DEF InitialToCompression, fileVars
<1>3. CASE PushTile \/ WaitQueueEmpty \/ WaitQueueEmptySleep
  BY <1>3 DEF PushTile, WaitQueueEmpty, WaitQueueEmptySleep, mainVars, fileVars
<1>4. CASE StartLastTile
  BY <1>4, <1>m DEF StartLastTile, fileVars
<1>5. CASE MainCompressCTU
  BY <1>5, <1>m, StreamOfTile, CompressCTUTypes DEF MainCompressCTU, mainVars, fileVars
<1>6. CASE LeaveWaitQueueEmpty
  <2>1. leftBehind' \in BOOLEAN
    BY <1>6 DEF LeaveWaitQueueEmpty
  <2>2. mainPc = "WaitQueueEmpty"
    BY <1>6 DEF LeaveWaitQueueEmpty, WaitQueueEmptyReturn, Control
  <2> QED
    BY <1>6, <2>1, <2>2 DEF LeaveWaitQueueEmpty, fileVars
<1>7. CASE GetTotalBytesWritten
  <2>1. \A t \in Tiles : Len(stream[t]) \in Nat
    BY StreamOfTile
  <2> QED
    BY <1>7, <2>1 DEF GetTotalBytesWritten
<1>8. CASE WriteTilesEntryPoint
  <2>1. \A k \in 1 .. (NumTiles - 1) : Len(stream[k - 1]) \in Nat
    BY StreamOfTile DEF Tiles
  <2>2. entryPoints' \in [1 .. (NumTiles - 1) -> Nat]
    BY <1>8, <2>1 DEF WriteTilesEntryPoint
  <2>3. entryPoints' \in Seq(Nat)
    BY <2>2, FiniteFunctionIsSeq
  <2> QED
    BY <1>8, <2>3 DEF WriteTilesEntryPoint
<1>9. CASE WriteBitstreamFile
  <2> DEFINE streams == [k \in 1 .. Len(SliceStreams) |-> stream[SliceStreams[k]]]
             written == [streams |-> streams, entries |-> entryPoints]
  <2>1. streams \in [1 .. Len(SliceStreams) -> Seq(Units)]
    BY LinkedStreams
  <2>2. streams \in Seq(Seq(Units))
    BY <2>1, LinkedStreams, FiniteFunctionIsSeq
  <2>3. written \in [streams : Seq(Seq(Units)), entries : Seq(Nat)]
    BY <2>2
  <2>4. bitstreamFile' = Append(bitstreamFile, written) /\ recFile' = Append(recFile, frameBuff)
    BY <1>9 DEF WriteBitstreamFile
  <2>5. /\ bitstreamFile' \in Seq([streams : Seq(Seq(Units)), entries : Seq(Nat)])
        /\ Len(bitstreamFile') = uiFrame + 1
    <3> HIDE DEF written
    <3> QED
      BY <2>3, <2>4
  <2>6. recFile' \in Seq(Pictures) /\ Len(recFile') = uiFrame + 1
    BY <2>4
  <2> QED
    BY <1>9, <2>5, <2>6 DEF WriteBitstreamFile
<1>10. ASSUME NEW w \in Workers, WorkerStep(w) PROVE DataTypeOK'
  BY <1>10, WorkerDataTypes
<1>11. CASE AnyWakeup \/ UNCHANGED sliceVars
  BY <1>11 DEF AnyWakeup, sliceVars, mainVars, fileVars
<1> QED
  BY <1>1, <1>2, <1>3, <1>4, <1>5, <1>6, <1>7, <1>8, <1>9, <1>10, <1>11
  DEF SliceNext, MainStep

LEMMA DataInvariant == SliceSpec => []DataTypeOK
BY DataInit, DataStep, ControlInvariant, UsesWorkQueue, Invariance, PTL
DEF SliceSpec, ImplementsWorkQueue

(***************************************************************************)
(* Type correctness: a thread compresses CTUs of its own tile only, every  *)
(* handler is one that exists, and exactly one picture is written per      *)
(* frame to each of the two files.                                         *)
(***************************************************************************)
THEOREM SliceTypeCorrectness == SliceSpec => []SliceTypeOK
<1>1. DataTypeOK /\ Control /\ TypeOK => SliceTypeOK
  BY DEF DataTypeOK, Control, SliceTypeOK, Tiles, LastTile
<1> QED
  BY <1>1, DataInvariant, ControlInvariant, UsesWorkQueue, TypeCorrectness, PTL
  DEF ImplementsWorkQueue

--------------------------------------------------------------------------------
(***************************************************************************)
(* What the main thread and the workers may rely on although no lock       *)
(* protects a tile: its exclusive use.                                     *)
(***************************************************************************)

(* The k-th oldest tile of the queue. *)
JobAt(k) == m_ppcWorkItemQueue[LiveSlot(k)]

QueuePositions == 0 .. (m_iCurrSize - 1)

(* All of these hold until a WaitQueueEmpty has left a job behind.         *)
(* Between two frames no worker has a tile; while tiles are pushed, only   *)
(* pushed tiles are in use; and a tile is in one place: one position of    *)
(* the queue or one worker.                                                *)
IdleBetweenFrames ==
  mainPc \in BetweenFrames => \A w \in Workers : pcWorkItem[w] = NoItem

OnlyPushedTiles ==
  mainPc = "AddToJob" =>
    /\ \A k \in QueuePositions : JobAt(k) < uiTile
    /\ \A w \in Workers : pcWorkItem[w] \in Items => pcWorkItem[w] < uiTile

OnePlace ==
  /\ \A i, j \in QueuePositions : JobAt(i) = JobAt(j) => i = j
  /\ \A v, w \in Workers :
       pcWorkItem[v] = pcWorkItem[w] /\ pcWorkItem[v] \in Items => v = w
  /\ \A k \in QueuePositions, w \in Workers : pcWorkItem[w] # JobAt(k)

Exclusive == ~leftBehind => IdleBetweenFrames /\ OnlyPushedTiles /\ OnePlace

--------------------------------------------------------------------------------
(* The queue after AddToJob and after GetNextJob. *)
LEMMA AddedJob ==
  ASSUME IInv, NEW item \in Items, AddToJob(item)
  PROVE  /\ m_iCurrSize \in Nat /\ m_iCurrSize' = m_iCurrSize + 1
         /\ \A k \in 0 .. m_iCurrSize :
              JobAt(k)' = IF k = m_iCurrSize THEN item ELSE JobAt(k)
<1> USE WorkQueueAssumption DEF IInv, TypeOK, JobPointersValid
<1>1. iSize > 0 /\ m_iCurrSize < iSize /\ m_iCurrSize \in Nat
  BY DEF AddToJob
<1>2. \A k \in 0 .. m_iCurrSize :
        /\ LiveSlot(k)' = LiveSlot(k)
        /\ LiveSlot(k) \in Slots
        /\ k < m_iCurrSize => LiveSlot(k) # m_iCurrWriteLoc
  BY <1>1 DEF AddToJob, LiveSlot, Slots
<1>3. m_iCurrWriteLoc = LiveSlot(m_iCurrSize)
  BY <1>1
<1>4. ASSUME NEW k \in 0 .. m_iCurrSize
      PROVE  JobAt(k)' = IF k = m_iCurrSize THEN item ELSE JobAt(k)
  <2>1. JobAt(k)' = m_ppcWorkItemQueue'[LiveSlot(k)]
    BY <1>2 DEF JobAt
  <2>2. /\ LiveSlot(k) \in Slots
        /\ k # m_iCurrSize => LiveSlot(k) # m_iCurrWriteLoc
    BY <1>1, <1>2
  <2> QED
    BY <1>3, <2>1, <2>2 DEF AddToJob, JobAt
<1> QED
  BY <1>1, <1>4 DEF AddToJob

LEMMA TakenJob ==
  ASSUME IInv, NEW w \in Workers, GetNextJob(w)
  PROVE  /\ m_iCurrSize \in Nat \ {0} /\ m_iCurrSize' = m_iCurrSize - 1
         /\ pcWorkItem' = [pcWorkItem EXCEPT ![w] = JobAt(0)]
         /\ \A k \in 0 .. (m_iCurrSize - 2) : JobAt(k)' = JobAt(k + 1)
<1> USE WorkQueueAssumption DEF IInv, TypeOK, JobPointersValid
<1>1. iSize > 0 /\ m_iCurrSize \in Nat \ {0}
  BY DEF GetNextJob
<1>2. \A k \in 0 .. (m_iCurrSize - 2) : LiveSlot(k)' = LiveSlot(k + 1)
  BY <1>1, Advance DEF GetNextJob, LiveSlot
<1>3. m_iCurrReadLoc = LiveSlot(0)
  BY <1>1 DEF LiveSlot
<1> QED
  BY <1>1, <1>2, <1>3 DEF GetNextJob, JobAt

LEMMA SameJobs ==
  ASSUME UNCHANGED buffer
  PROVE  QueuePositions' = QueuePositions /\ \A k : JobAt(k)' = JobAt(k)
BY DEF buffer, JobAt, QueuePositions, LiveSlot

LEMMA QueuedAreItems ==
  ASSUME IInv
  PROVE  /\ m_iCurrSize \in Nat
         /\ \A k \in QueuePositions : JobAt(k) \in Items
         /\ pcWorkItem \in [Workers -> Items \cup {NoItem}]
BY WorkQueueAssumption DEF IInv, TypeOK, JobPointersValid, JobAt, QueuePositions

--------------------------------------------------------------------------------
(* A step that leaves queue and work items alone, and neither starts the   *)
(* pushing nor ends the waiting, keeps the exclusive use.                  *)
LEMMA ExclusiveSame ==
  ASSUME Exclusive, UNCHANGED <<buffer, pcWorkItem, uiTile, leftBehind>>,
         mainPc' = mainPc \/ mainPc' \notin BetweenFrames \cup {"AddToJob"}
  PROVE  Exclusive'
<1>1. QueuePositions' = QueuePositions /\ \A k : JobAt(k)' = JobAt(k)
  BY SameJobs
<1> QED
  BY <1>1 DEF Exclusive, IdleBetweenFrames, OnlyPushedTiles, OnePlace, BetweenFrames

(* With nothing queued and every worker idle the use is exclusive. *)
LEMMA ExclusiveIdle ==
  ASSUME QueuePositions = {}, \A w \in Workers : pcWorkItem[w] = NoItem
  PROVE  Exclusive
BY WorkQueueAssumption DEF Exclusive, IdleBetweenFrames, OnlyPushedTiles, OnePlace

LEMMA ExclusiveIdleNext ==
  ASSUME QueuePositions' = {}, \A w \in Workers : pcWorkItem'[w] = NoItem
  PROVE  Exclusive'
BY WorkQueueAssumption DEF Exclusive, IdleBetweenFrames, OnlyPushedTiles, OnePlace

LEMMA ExclusivePushTile ==
  ASSUME IInv, Control, Exclusive, PushTile
  PROVE  Exclusive'
<1> SUFFICES ASSUME ~leftBehind
             PROVE  IdleBetweenFrames' /\ OnlyPushedTiles' /\ OnePlace'
  BY DEF PushTile, Exclusive
<1> USE TileNumbers, WorkQueueAssumption
<1>0. uiTile \in Items /\ uiTile \in Nat
  BY DEF PushTile, Control
<1>1. /\ m_iCurrSize \in Nat /\ m_iCurrSize' = m_iCurrSize + 1
      /\ \A k \in 0 .. m_iCurrSize :
           JobAt(k)' = IF k = m_iCurrSize THEN uiTile ELSE JobAt(k)
  BY <1>0, AddedJob DEF PushTile
<1>2. \A k \in QueuePositions : JobAt(k) \in Items
  BY QueuedAreItems
<1>3. \A k \in QueuePositions' :
        \/ k = m_iCurrSize /\ JobAt(k)' = uiTile
        \/ k \in QueuePositions /\ JobAt(k)' = JobAt(k)
  BY <1>1 DEF QueuePositions
<1>4. /\ \A k \in QueuePositions : JobAt(k) < uiTile
      /\ \A w \in Workers : pcWorkItem[w] \in Items => pcWorkItem[w] < uiTile
      /\ OnePlace
  BY DEF Exclusive, OnlyPushedTiles, PushTile
<1>5. /\ UNCHANGED <<pcWorkItem, mainPc>> /\ uiTile' = uiTile + 1
      /\ mainPc = "AddToJob"
  BY DEF PushTile, AddToJob
<1>6. IdleBetweenFrames'
  BY <1>5 DEF IdleBetweenFrames, BetweenFrames
<1>7. OnlyPushedTiles'
  <2>1. \A k \in QueuePositions' : JobAt(k)' < uiTile'
    BY <1>0, <1>2, <1>3, <1>4, <1>5, TileNumbers
  <2>2. \A w \in Workers : pcWorkItem'[w] \in Items => pcWorkItem'[w] < uiTile'
    BY <1>0, <1>4, <1>5
  <2> QED
    BY <2>1, <2>2 DEF OnlyPushedTiles
<1>8. OnePlace'
  <2>1. \A k \in QueuePositions : JobAt(k) # uiTile
    BY <1>0, <1>2, <1>4
  <2>2. \A w \in Workers : pcWorkItem[w] # uiTile
    BY <1>0, <1>4
  <2>3. \A i, j \in QueuePositions' : JobAt(i)' = JobAt(j)' => i = j
    BY <1>3, <1>4, <2>1 DEF OnePlace
  <2>4. \A k \in QueuePositions', w \in Workers : pcWorkItem'[w] # JobAt(k)'
    BY <1>3, <1>4, <1>5, <2>2 DEF OnePlace
  <2> QED
    BY <1>4, <1>5, <2>3, <2>4 DEF OnePlace
<1> QED
  BY <1>6, <1>7, <1>8

LEMMA ExclusiveGetNextJob ==
  ASSUME IInv, QueueWithinTiles, Exclusive, NEW w \in Workers, GetNextJob(w),
         UNCHANGED <<mainVars, leftBehind>>
  PROVE  Exclusive'
<1> SUFFICES ASSUME ~leftBehind
             PROVE  IdleBetweenFrames' /\ OnlyPushedTiles' /\ OnePlace'
  BY DEF Exclusive
<1>1. /\ m_iCurrSize \in Nat \ {0} /\ m_iCurrSize' = m_iCurrSize - 1
      /\ pcWorkItem' = [pcWorkItem EXCEPT ![w] = JobAt(0)]
      /\ \A k \in 0 .. (m_iCurrSize - 2) : JobAt(k)' = JobAt(k + 1)
  BY TakenJob
<1>2. /\ \A k \in QueuePositions : JobAt(k) \in Items
      /\ pcWorkItem \in [Workers -> Items \cup {NoItem}]
  BY QueuedAreItems
<1>3. /\ 0 \in QueuePositions
      /\ \A k \in QueuePositions' : /\ JobAt(k)' = JobAt(k + 1)
                                     /\ k + 1 \in QueuePositions
                                     /\ k + 1 # 0
  BY <1>1 DEF QueuePositions
<1>4. OnePlace /\ OnlyPushedTiles /\ UNCHANGED <<mainPc, uiTile>>
  BY DEF Exclusive, mainVars
<1>5. \A v \in Workers : pcWorkItem'[v] = IF v = w THEN JobAt(0) ELSE pcWorkItem[v]
  BY <1>1, <1>2
<1>6. IdleBetweenFrames'
  BY <1>1, <1>4 DEF IdleBetweenFrames, QueueWithinTiles
<1>7. OnlyPushedTiles'
  BY <1>3, <1>4, <1>5 DEF OnlyPushedTiles
<1>8. OnePlace'
  <2>1. \A i, j \in QueuePositions' : JobAt(i)' = JobAt(j)' => i = j
    <3> SUFFICES ASSUME NEW i \in QueuePositions', NEW j \in QueuePositions',
                        JobAt(i)' = JobAt(j)'
                 PROVE  i = j
      OBVIOUS
    <3>1. i + 1 = j + 1
      BY <1>3, <1>4 DEF OnePlace
    <3> QED
      BY <1>1, <3>1 DEF QueuePositions
  <2>2. \A u, v \in Workers :
          pcWorkItem'[u] = pcWorkItem'[v] /\ pcWorkItem'[u] \in Items => u = v
    BY <1>2, <1>3, <1>4, <1>5 DEF OnePlace
  <2>3. \A k \in QueuePositions', v \in Workers : pcWorkItem'[v] # JobAt(k)'
    BY <1>3, <1>4, <1>5 DEF OnePlace
  <2> QED
    BY <2>1, <2>2, <2>3 DEF OnePlace
<1> QED
  BY <1>6, <1>7, <1>8

LEMMA ExclusiveJobDone ==
  ASSUME IInv, Exclusive, NEW w \in Workers, JobDone(w),
         UNCHANGED <<mainVars, leftBehind>>
  PROVE  Exclusive'
<1>1. QueuePositions' = QueuePositions /\ \A k : JobAt(k)' = JobAt(k)
  BY SameJobs DEF JobDone
<1>2. /\ pcWorkItem \in [Workers -> Items \cup {NoItem}]
      /\ \A k \in QueuePositions : JobAt(k) \in Items
  BY QueuedAreItems
<1>3. \A v \in Workers : pcWorkItem'[v] = IF v = w THEN NoItem ELSE pcWorkItem[v]
  BY <1>2 DEF JobDone
<1> QED
  BY <1>1, <1>2, <1>3, WorkQueueAssumption
  DEF Exclusive, IdleBetweenFrames, OnlyPushedTiles, OnePlace, mainVars

LEMMA ExclusiveStep ==
  ASSUME IInv, Control, QueueWithinTiles, Exclusive, [SliceNext]_sliceVars
  PROVE  Exclusive'
<1>1. CASE FillGOPBuffFromYUV \/ InitialToCompression \/ GetTotalBytesWritten
           \/ WriteTilesEntryPoint \/ WriteBitstreamFile
  <2>1. UNCHANGED <<buffer, pcWorkItem, leftBehind>> /\ mainPc \in BetweenFrames
    BY <1>1 DEF FillGOPBuffFromYUV, InitialToCompression, GetTotalBytesWritten,
                WriteTilesEntryPoint, WriteBitstreamFile, vars, buffer, BetweenFrames
  <2>2. QueuePositions = {}
    BY <2>1 DEF QueueWithinTiles, QueuePositions
  <2>3. CASE leftBehind
    BY <2>1, <2>3 DEF Exclusive
  <2>4. CASE ~leftBehind
    <3>1. \A w \in Workers : pcWorkItem'[w] = NoItem
      BY <2>1, <2>4 DEF Exclusive, IdleBetweenFrames
    <3>2. QueuePositions' = {}
      BY <2>1, <2>2, SameJobs
    <3> QED
      BY <3>1, <3>2, ExclusiveIdleNext
  <2> QED
    BY <2>3, <2>4
<1>2. CASE StartLastTile \/ MainCompressCTU \/ WaitQueueEmpty \/ WaitQueueEmptySleep
  BY <1>2, ExclusiveSame
  DEF StartLastTile, MainCompressCTU, WaitQueueEmpty, CallWaitQueueEmpty,
      WaitQueueEmptySleep, WaitQueueEmptyWait, BetweenFrames, vars, mainVars, buffer
<1>3. CASE PushTile
  BY <1>3, ExclusivePushTile
<1>4. CASE LeaveWaitQueueEmpty
  <2>1. CASE leftBehind'
    BY <2>1 DEF Exclusive
  <2>2. CASE ~leftBehind'
    <3>1. \A w \in Workers : pcWorkItem'[w] = NoItem
      BY <1>4, <2>2 DEF LeaveWaitQueueEmpty, WaitQueueEmptyReturn
    <3>2. m_iCurrSize' = 0
      BY <1>4, QueuedAreItems DEF LeaveWaitQueueEmpty, WaitQueueEmptyReturn, buffer
    <3>3. QueuePositions' = {}
      BY <3>2 DEF QueuePositions
    <3> QED
      BY <3>1, <3>3, ExclusiveIdleNext
  <2> QED
    BY <2>1, <2>2
<1>5. ASSUME NEW w \in Workers, WorkerQueueStep(w) PROVE Exclusive'
  <2>1. CASE GetNextJobWait(w)
    BY <1>5, <2>1, ExclusiveSame DEF WorkerQueueStep, GetNextJobWait, mainVars
  <2> QED
    BY <1>5, <2>1, ExclusiveGetNextJob, ExclusiveJobDone DEF WorkerQueueStep
<1>6. ASSUME NEW w \in Workers,
             WorkerStartTile(w) \/ WorkerCompressCTU(w) \/ WorkerTileReturns(w)
      PROVE  Exclusive'
  BY <1>6, ExclusiveSame
  DEF WorkerStartTile, IncNumJobsUnderProcess, WorkerCompressCTU, WorkerTileReturns,
      JobReturns, vars, mainVars, buffer
<1>7. CASE AnyWakeup
  BY <1>7, ExclusiveSame DEF AnyWakeup, CallerSpuriousWakeup, SpuriousWakeup, mainVars
<1>8. CASE UNCHANGED sliceVars
  BY <1>8, ExclusiveSame DEF sliceVars, vars, mainVars, buffer
<1> QED
  BY <1>1, <1>2, <1>3, <1>4, <1>5, <1>6, <1>7, <1>8
  DEF SliceNext, MainStep, WorkerStep

LEMMA ExclusiveInvariant == SliceSpec => []Exclusive
<1>1. SliceInit => Exclusive
  <2> SUFFICES ASSUME SliceInit PROVE Exclusive
    OBVIOUS
  <2>1. QueuePositions = {}
    BY DEF SliceInit, Init, QueuePositions
  <2> QED
    BY <2>1, ExclusiveIdle DEF SliceInit, Init
<1> QED
  BY <1>1, ExclusiveStep, ControlInvariant, QueueWithinTilesInvariant, UsesWorkQueue,
     Invariance, PTL DEF SliceSpec, ImplementsWorkQueue

LEMMA SmallSets == Cardinality({}) = 0 /\ \A x : Cardinality({x}) = 1
<1>1. IsFiniteSet({}) /\ Cardinality({}) = 0
  BY FS_EmptySet
<1> QED
  BY <1>1, FS_Singleton

(***************************************************************************)
(* No lock protects a tile, and none is needed: until a WaitQueueEmpty has *)
(* left a job behind, a tile is in the queue at most once, with at most    *)
(* one thread, and never both.                                             *)
(***************************************************************************)
THEOREM TilesExclusive == SliceSpec => []TileExclusive
<1>1. ASSUME IInv, Exclusive, ~leftBehind, NEW t \in Tiles
      PROVE  Cardinality(Queued(t)) + Cardinality(Holders(t)) <= 1
  <2>0. /\ \A k \in QueuePositions : JobAt(k) \in Items
        /\ pcWorkItem \in [Workers -> Items \cup {NoItem}]
        /\ OnePlace
    BY <1>1, QueuedAreItems DEF Exclusive
  <2>1. Queued(t) = {k \in QueuePositions : JobAt(k) = t}
    BY DEF Queued, QueuePositions, JobAt
  <2> DEFINE M == IF mainPc = "CompressTile" /\ t = LastTile THEN {Main} ELSE {}
             H == {w \in Workers : pcWorkItem[w] = t}
  <2>2. CASE t = LastTile
    <3>1. LastTile \notin Items /\ NoItem # LastTile
      BY TileNumbers, SliceCompressorAssumption DEF LastTile
    <3>2. Queued(t) = {} /\ H = {}
      BY <2>0, <2>1, <2>2, <3>1
    <3>3. Holders(t) = {} \/ Holders(t) = {Main}
      BY <3>2 DEF Holders
    <3> HIDE DEF M, H
    <3>4. Cardinality(Queued(t)) = 0 /\ Cardinality(Holders(t)) \in {0, 1}
      BY <3>2, <3>3, SmallSets
    <3> QED
      BY <3>4
  <2>3. CASE t # LastTile
    <3>1. t \in Items
      BY <2>3, TileNumbers DEF Tiles, LastTile
    <3>2. Holders(t) = H
      BY <2>3 DEF Holders
    <3>3. \/ Queued(t) = {} /\ H = {}
          \/ Queued(t) = {} /\ \E w \in Workers : H = {w}
          \/ H = {} /\ \E k \in QueuePositions : Queued(t) = {k}
      BY <2>0, <2>1, <3>1 DEF OnePlace
    <3> HIDE DEF M, H
    <3>4. \/ Cardinality(Queued(t)) = 0 /\ Cardinality(Holders(t)) \in {0, 1}
          \/ Cardinality(Queued(t)) = 1 /\ Cardinality(Holders(t)) = 0
      BY <3>2, <3>3, SmallSets
    <3> QED
      BY <3>4
  <2> QED
    BY <2>2, <2>3
<1>2. IInv /\ Exclusive => TileExclusive
  BY <1>1 DEF TileExclusive
<1> QED
  BY <1>2, ExclusiveInvariant, UsesWorkQueue, Invariance, PTL DEF ImplementsWorkQueue

--------------------------------------------------------------------------------
(* What the program writes: whatever the interleaving of the tile threads, *)
(* the files hold what encoding tile after tile on one thread would have   *)
(* written.                                                                *)

(* Between InitialToCompression and the end of the frame. *)
InFrame == {"AddToJob", "CompressTile", "WaitQueueEmpty", "GetTotalBytesWritten",
            "WriteTilesEntryPoint", "WriteBitstreamFile"}

(* The first CTU of a stream comes behind the slice header, if it has one. *)
Offset(t) == IF t = HeaderStream THEN 1 ELSE 0

(* Tile t of frame f after d of its CTUs: what its handler holds, and what *)
(* is left of the source picture.                                          *)
Prefix(f, t, d) ==
  [k \in 1 .. (Offset(t) + d) |->
     IF k <= Offset(t) THEN Header(f)
     ELSE Coded(k - 1 - Offset(t), Cell(f, "source"))]

HalfCoded(f, d) == [c \in Ctus |-> Cell(f, IF c < d THEN "rec" ELSE "source")]

TileAt(t, d) ==
  stream[t] = Prefix(uiFrame, t, d) /\ frameBuff[t] = HalfCoded(uiFrame, d)

(* Where a tile can be: not begun (not pushed, queued, or taken by a       *)
(* worker that has not counted it yet), or with a thread that compresses.  *)
Waiting(t) ==
  \/ mainPc = "AddToJob" /\ t >= uiTile
  \/ \E k \in QueuePositions : JobAt(k) = t
  \/ \E w \in Workers : pcWorkItem[w] = t /\ pc[w] = "IncNumJobsUnderProcess"

RunningOn(t, th) ==
  \/ th \in Workers /\ pcWorkItem[th] = t /\ pc[th] = "m_pfPtrToFunc"
  \/ th = Main /\ mainPc = "CompressTile" /\ t = LastTile

TileProgress(t) ==
  /\ Waiting(t) => TileAt(t, 0)
  /\ \A th \in Threads : RunningOn(t, th) => TileAt(t, iCtu[th])
  /\ ~Waiting(t) /\ (\A th \in Threads : ~RunningOn(t, th)) => TileAt(t, CtusPerTile)

TilesProgress == mainPc \in InFrame => \A t \in Tiles : TileProgress(t)

(* What the main thread has read, written and collected so far. *)
SourceRead ==
  mainPc = "InitialToCompression" => frameBuff = AllCells(Cell(uiFrame, "source"))

HeaderWritten ==
  mainPc \in InFrame /\ HeaderStream \notin Tiles =>
    stream[HeaderStream] = <<Header(uiFrame)>>

TotalsCollected ==
  \/ mainPc \in {"WriteTilesEntryPoint", "WriteBitstreamFile"}
  \/ mainPc = "FillGOPBuffFromYUV" /\ uiFrame > 0
  => totalBytes = [t \in Tiles |-> Offset(t) + CtusPerTile]

EntryPointsCoded ==
  mainPc = "WriteBitstreamFile" =>
    entryPoints = [k \in 1 .. (NumTiles - 1) |-> CtusPerTile]

FilesSequential ==
  /\ bitstreamFile = [k \in 1 .. uiFrame |-> SequentialFrame(k - 1)]
  /\ recFile = [k \in 1 .. uiFrame |-> AllCells(Cell(k - 1, "rec"))]

MainData ==
  SourceRead /\ HeaderWritten /\ TotalsCollected /\ EntryPointsCoded /\ FilesSequential

(* All of these hold until a WaitQueueEmpty has left a job behind. *)
DataInv == ~leftBehind => TilesProgress /\ MainData

--------------------------------------------------------------------------------
(* The contents of streams. *)

LEMMA SameSeq ==
  ASSUME NEW S, NEW n \in Nat, NEW r \in Seq(S), NEW s \in Seq(S),
         Len(r) = n, Len(s) = n, \A i \in 1 .. n : r[i] = s[i]
  PROVE  r = s
<1>1. r \in [1 .. n -> S] /\ s \in [1 .. n -> S]
  OBVIOUS
<1> QED
  BY <1>1

LEMMA UnitsOfFrame ==
  ASSUME NEW f \in 0 .. NumFrames
  PROVE  /\ Header(f) \in Units
         /\ \A c \in Nat : Coded(c, Cell(f, "source")) \in Units
BY SliceCompressorAssumption DEF Header, Coded, Cell, Cells, Units

LEMMA PrefixFacts ==
  ASSUME NEW f \in 0 .. NumFrames, NEW t, NEW d \in Nat
  PROVE  /\ Prefix(f, t, d) \in Seq(Units)
         /\ Len(Prefix(f, t, d)) = Offset(t) + d
         /\ \A k \in 1 .. (Offset(t) + d) :
              Prefix(f, t, d)[k] = IF k <= Offset(t) THEN Header(f)
                                   ELSE Coded(k - 1 - Offset(t), Cell(f, "source"))
<1>1. Offset(t) \in {0, 1} /\ Offset(t) + d \in Nat
  BY DEF Offset
<1>2. ASSUME NEW k \in 1 .. (Offset(t) + d)
      PROVE  (IF k <= Offset(t) THEN Header(f)
              ELSE Coded(k - 1 - Offset(t), Cell(f, "source"))) \in Units
  <2>1. ~(k <= Offset(t)) => k - 1 - Offset(t) \in Nat
    BY <1>1
  <2> QED
    BY <2>1, UnitsOfFrame
<1>3. Prefix(f, t, d) \in [1 .. (Offset(t) + d) -> Units]
  BY <1>2 DEF Prefix
<1>4. Prefix(f, t, d) \in Seq(Units) /\ Len(Prefix(f, t, d)) = Offset(t) + d
  BY <1>1, <1>3, FiniteFunctionIsSeq
<1> QED
  BY <1>4 DEF Prefix

(* Coding the next CTU from the source makes the prefix one longer. *)
LEMMA PrefixAppend ==
  ASSUME NEW f \in 0 .. NumFrames, NEW t, NEW d \in Nat
  PROVE  Append(Prefix(f, t, d), Coded(d, Cell(f, "source"))) = Prefix(f, t, d + 1)
<1> DEFINE p == Prefix(f, t, d)
           q == Prefix(f, t, d + 1)
           u == Coded(d, Cell(f, "source"))
           n == Offset(t) + d + 1
<1>1. Offset(t) \in {0, 1} /\ n \in Nat /\ d + 1 \in Nat
  BY DEF Offset
<1>2. p \in Seq(Units) /\ Len(p) = n - 1
  BY <1>1, PrefixFacts
<1>3. q \in Seq(Units) /\ Len(q) = n
  BY <1>1, PrefixFacts
<1>4. u \in Units
  BY UnitsOfFrame
<1>5. \A k \in 1 .. (n - 1) : p[k] = q[k]
  BY <1>1, PrefixFacts
<1>6. q[n] = u
  <2>1. n \in 1 .. (Offset(t) + (d + 1)) /\ ~(n <= Offset(t)) /\ n - 1 - Offset(t) = d
    BY <1>1
  <2> HIDE DEF n
  <2> QED
    BY <1>1, <2>1, PrefixFacts
<1> HIDE DEF p, q, u, n
<1>7. /\ Append(p, u) \in Seq(Units) /\ Len(Append(p, u)) = n
      /\ \A k \in 1 .. n : Append(p, u)[k] = IF k = n THEN u ELSE p[k]
  BY <1>1, <1>2, <1>4
<1>8. \A k \in 1 .. n : Append(p, u)[k] = q[k]
  BY <1>1, <1>5, <1>6, <1>7
<1>9. Append(p, u) = q
  BY <1>1, <1>3, <1>7, <1>8, SameSeq
<1> QED
  BY <1>9 DEF p, q, u

(* A whole tile's stream is what encoding it sequentially writes. *)
LEMMA SequentialTile ==
  ASSUME NEW f \in 0 .. NumFrames, NEW t \in Tiles
  PROVE  SequentialStream(f, t) = Prefix(f, t, CtusPerTile)
<1> USE SliceCompressorAssumption
<1> DEFINE ctus == [k \in 1 .. CtusPerTile |-> Coded(k - 1, Cell(f, "source"))]
           head == IF t = HeaderStream THEN <<Header(f)>> ELSE << >>
           n    == Offset(t) + CtusPerTile
           q    == Prefix(f, t, CtusPerTile)
<1>1. \A k \in 1 .. CtusPerTile : Coded(k - 1, Cell(f, "source")) \in Units
  <2> TAKE k \in 1 .. CtusPerTile
  <2>1. k - 1 \in Nat
    OBVIOUS
  <2> QED
    BY <2>1, UnitsOfFrame
<1>2. ctus \in [1 .. CtusPerTile -> Units]
  BY <1>1
<1>3. ctus \in Seq(Units) /\ Len(ctus) = CtusPerTile
  <2> HIDE DEF ctus
  <2> QED
    BY <1>2, FiniteFunctionIsSeq
<1>4. /\ head \in Seq(Units) /\ Len(head) = Offset(t)
      /\ \A k \in 1 .. Offset(t) : head[k] = Header(f)
  BY UnitsOfFrame DEF Offset
<1>5. Offset(t) \in {0, 1} /\ n \in Nat
  BY DEF Offset
<1>6. \A k \in 1 .. CtusPerTile : ctus[k] = Coded(k - 1, Cell(f, "source"))
  OBVIOUS
<1>7. q \in Seq(Units) /\ Len(q) = n
      /\ \A k \in 1 .. n : q[k] = IF k <= Offset(t) THEN Header(f)
                                   ELSE Coded(k - 1 - Offset(t), Cell(f, "source"))
  BY PrefixFacts
<1>8. SequentialStream(f, t) = head \o ctus
  BY DEF SequentialStream
<1> HIDE DEF ctus, head, q
<1>9. /\ head \o ctus \in Seq(Units) /\ Len(head \o ctus) = n
      /\ \A k \in 1 .. n : (head \o ctus)[k] = IF k <= Offset(t) THEN head[k]
                                                 ELSE ctus[k - Offset(t)]
  BY <1>3, <1>4, <1>5
<1>10. ASSUME NEW k \in 1 .. n PROVE (head \o ctus)[k] = q[k]
  <2>1. CASE k <= Offset(t)
    BY <1>4, <1>5, <1>7, <1>9, <2>1
  <2>2. CASE ~(k <= Offset(t))
    <3>1. k - Offset(t) \in 1 .. CtusPerTile
          /\ (k - Offset(t)) - 1 = k - 1 - Offset(t)
      BY <1>5, <2>2
    <3>2. ctus[k - Offset(t)] = Coded((k - Offset(t)) - 1, Cell(f, "source"))
      BY <1>6, <3>1
    <3> QED
      BY <1>7, <1>9, <2>2, <3>1, <3>2
  <2> QED
    BY <2>1, <2>2
<1>11. head \o ctus = q
  <2> HIDE DEF n
  <2> QED
    BY <1>5, <1>7, <1>9, <1>10, SameSeq
<1> QED
  BY <1>8, <1>11 DEF q

(* With several tiles the slice header's stream holds nothing else. *)
LEMMA SequentialHeader ==
  ASSUME NEW f \in 0 .. NumFrames, HeaderStream \notin Tiles
  PROVE  SequentialStream(f, HeaderStream) = <<Header(f)>>
<1>1. <<Header(f)>> \in Seq(Units) /\ << >> \in Seq(Units)
  BY UnitsOfFrame
<1>2. <<Header(f)>> \o << >> = <<Header(f)>>
  <2> DEFINE r == <<Header(f)>>
  <2>1. r \in Seq(Units) /\ Len(r) = 1
    BY <1>1
  <2> HIDE DEF r
  <2>2. r \o << >> \in Seq(Units) /\ Len(r \o << >>) = 1 /\ (r \o << >>)[1] = r[1]
    BY <2>1
  <2>3. r \o << >> = r
    BY <2>1, <2>2, SameSeq
  <2> QED
    BY <2>3 DEF r
<1> QED
  BY <1>2 DEF SequentialStream

--------------------------------------------------------------------------------
(* The progress of one tile. *)

(* A step that does not touch a tile, nor where it is, keeps its progress. *)
LEMMA ProgressSame ==
  ASSUME NEW t, TileProgress(t),
         stream'[t] = stream[t], frameBuff'[t] = frameBuff[t], uiFrame' = uiFrame,
         Waiting(t)' <=> Waiting(t),
         \A th \in Threads :
           /\ RunningOn(t, th)' <=> RunningOn(t, th)
           /\ RunningOn(t, th) => iCtu'[th] = iCtu[th]
  PROVE  TileProgress(t)'
<1>1. \A d : TileAt(t, d) => stream'[t] = Prefix(uiFrame', t, d)
                           /\ frameBuff'[t] = HalfCoded(uiFrame', d)
  BY DEF TileAt
<1>2. Waiting(t)' => TileAt(t, 0)'
  BY <1>1 DEF TileProgress, TileAt
<1>3. ASSUME NEW th \in Threads, RunningOn(t, th)' PROVE TileAt(t, iCtu[th])'
  BY <1>1, <1>3 DEF TileProgress, TileAt
<1>4. ~Waiting(t)' /\ (\A th \in Threads : ~RunningOn(t, th)')
      => TileAt(t, CtusPerTile)'
  BY <1>1 DEF TileProgress, TileAt
<1> QED
  BY <1>2, <1>3, <1>4 DEF TileProgress

(* A tile being compressed is nowhere else. *)
LEMMA RunningAlone ==
  ASSUME IInv, Control, Exclusive, ~leftBehind, NEW t \in Tiles, NEW th \in Threads,
         RunningOn(t, th)
  PROVE  ~Waiting(t) /\ \A v \in Threads : RunningOn(t, v) => v = th
<1> USE SliceCompressorAssumption, TileNumbers
<1>1. /\ \A k \in QueuePositions : JobAt(k) \in Items
      /\ pcWorkItem \in [Workers -> Items \cup {NoItem}]
  BY QueuedAreItems
<1>2. OnePlace /\ OnlyPushedTiles
  BY DEF Exclusive
<1>3. CASE th = Main
  <2>1. mainPc = "CompressTile" /\ t = LastTile
    BY <1>3 DEF RunningOn
  <2>2. t \notin Items /\ t # NoItem
    BY <2>1 DEF LastTile
  <2> QED
    BY <1>1, <1>3, <2>1, <2>2 DEF RunningOn, Waiting, Threads
<1>4. CASE th \in Workers
  <2>1. pcWorkItem[th] = t /\ pc[th] = "m_pfPtrToFunc"
    BY <1>4 DEF RunningOn
  <2>2. t \in Items
    BY <1>4, <2>1 DEF IInv, JobPointersValid
  <2>3. t # LastTile
    BY <2>2
  <2>4. ~(mainPc = "AddToJob" /\ t >= uiTile)
    <3>1. CASE mainPc = "AddToJob"
      <4>1. t < uiTile
        BY <1>2, <1>4, <2>1, <2>2, <3>1 DEF OnlyPushedTiles
      <4> QED
        BY <2>2, <4>1 DEF Control
    <3> QED
      BY <3>1
  <2> QED
    BY <1>2, <1>4, <2>1, <2>2, <2>3, <2>4 DEF OnePlace, RunningOn, Waiting, Threads
<1> QED
  BY <1>3, <1>4 DEF Threads

(* Coding one CTU. *)
LEMMA CompressAdvances ==
  ASSUME DataTypeOK, NEW th \in Threads, NEW t \in Tiles, CompressCTU(th, t),
         TileAt(t, iCtu[th]), uiFrame' = uiFrame
  PROVE  /\ TileAt(t, iCtu[th])'
         /\ \A u \in Tiles \ {t} : stream'[u] = stream[u] /\ frameBuff'[u] = frameBuff[u]
         /\ \A s \in Streams \ {t} : stream'[s] = stream[s]
         /\ \A v \in Threads \ {th} : iCtu'[v] = iCtu[v]
<1> USE SliceCompressorAssumption
<1> DEFINE d == iCtu[th]
           f == uiFrame
<1>1. d \in Ctus /\ d \in Nat /\ d < CtusPerTile /\ f \in 0 .. NumFrames /\ t \in Streams
  BY StreamOfTile DEF CompressCTU, DataTypeOK, Ctus
<1>2. iCtu' = [iCtu EXCEPT ![th] = d + 1] /\ iCtu'[th] = d + 1
  BY <1>1 DEF CompressCTU, DataTypeOK
<1>3. frameBuff[t][d] = Cell(f, "source")
  BY <1>1 DEF TileAt, HalfCoded
<1>4. stream'[t] = Prefix(f, t, d + 1)
  <2>1. stream'[t] = Append(Prefix(f, t, d), Coded(d, Cell(f, "source")))
    BY <1>1, <1>3 DEF CompressCTU, DataTypeOK, TileAt
  <2> QED
    BY <1>1, <2>1, PrefixAppend
<1>5. frameBuff'[t] = HalfCoded(f, d + 1)
  <2>1. [Cell(f, "source") EXCEPT !.kind = "rec"] = Cell(f, "rec")
    BY DEF Cell
  <2>2. frameBuff'[t] = [HalfCoded(f, d) EXCEPT ![d] = Cell(f, "rec")]
    <3>1. frameBuff'[t] = [frameBuff[t] EXCEPT ![d] =
                             [frameBuff[t][d] EXCEPT !.kind = "rec"]]
      BY DEF CompressCTU, DataTypeOK, Pictures
    <3> QED
      BY <1>3, <2>1, <3>1 DEF TileAt
  <2>3. \A c \in Ctus : c < d + 1 <=> c < d \/ c = d
    BY <1>1 DEF Ctus
  <2> QED
    BY <1>1, <2>2, <2>3 DEF HalfCoded
<1>6. \A u \in Tiles \ {t} : stream'[u] = stream[u] /\ frameBuff'[u] = frameBuff[u]
  BY StreamOfTile DEF CompressCTU, DataTypeOK, Pictures
<1>7. \A s \in Streams \ {t} : stream'[s] = stream[s]
  BY DEF CompressCTU, DataTypeOK
<1>8. \A v \in Threads \ {th} : iCtu'[v] = iCtu[v]
  BY DEF CompressCTU, DataTypeOK
<1> QED
  BY <1>2, <1>4, <1>5, <1>6, <1>7, <1>8 DEF TileAt

--------------------------------------------------------------------------------
(* The progress of all tiles, step by step. *)

(* Where the workers are, for those steps that leave the buffer alone. *)
LEMMA WaitingSame ==
  ASSUME NEW t, UNCHANGED buffer,
         mainPc' = "AddToJob" /\ t >= uiTile' <=> mainPc = "AddToJob" /\ t >= uiTile,
         \A w \in Workers :
           pcWorkItem'[w] = t /\ pc'[w] = "IncNumJobsUnderProcess"
             <=> pcWorkItem[w] = t /\ pc[w] = "IncNumJobsUnderProcess"
  PROVE  Waiting(t)' <=> Waiting(t)
<1>1. QueuePositions' = QueuePositions /\ \A k : JobAt(k)' = JobAt(k)
  BY SameJobs
<1> QED
  BY <1>1 DEF Waiting

(* Steps in which no tile is moved or coded. *)
Busy == {"IncNumJobsUnderProcess", "m_pfPtrToFunc"}

LEMMA ProgressQuiet ==
  ASSUME TilesProgress, mainPc' \in InFrame => mainPc \in InFrame,
         UNCHANGED <<buffer, uiFrame, uiTile, iCtu, frameBuff, stream>>,
         \/ mainPc' = mainPc
         \/ /\ mainPc \notin {"AddToJob", "CompressTile"}
            /\ mainPc' \notin {"AddToJob", "CompressTile"},
         \A w \in Workers :
           \/ pc'[w] = pc[w] /\ pcWorkItem'[w] = pcWorkItem[w]
           \/ pc[w] \notin Busy /\ pc'[w] \notin Busy
  PROVE  TilesProgress'
<1> SUFFICES ASSUME mainPc' \in InFrame, NEW t \in Tiles
             PROVE  TileProgress(t)'
  BY DEF TilesProgress
<1>1. TileProgress(t)
  BY DEF TilesProgress
<1>2. Waiting(t)' <=> Waiting(t)
  BY WaitingSame DEF Busy
<1>3. \A th \in Threads : RunningOn(t, th)' <=> RunningOn(t, th)
  BY DEF RunningOn, Busy
<1> QED
  BY <1>1, <1>2, <1>3, ProgressSame

(* All tiles are still to be pushed; their handlers are empty but for the  *)
(* slice header of a single tile.                                          *)
LEMMA ProgressInitial ==
  ASSUME DataTypeOK, Exclusive, ~leftBehind, SourceRead, InitialToCompression
  PROVE  TilesProgress'
<1> USE SliceCompressorAssumption, WorkQueueAssumption
<1>1. /\ mainPc = "InitialToCompression" /\ mainPc' = "AddToJob" /\ uiTile' = 0
      /\ UNCHANGED <<pc, pcWorkItem, uiFrame, frameBuff>>
      /\ stream' = [s \in Streams |-> IF s = HeaderStream THEN <<Header(uiFrame)>>
                                      ELSE << >>]
  BY DEF InitialToCompression, vars
<1> SUFFICES ASSUME NEW t \in Tiles PROVE TileProgress(t)'
  BY DEF TilesProgress
<1>2. t >= uiTile'
  BY <1>1 DEF Tiles
<1>3. TileAt(t, 0)'
  <2>1. stream'[t] = IF t = HeaderStream THEN <<Header(uiFrame)>> ELSE << >>
    BY <1>1, StreamOfTile
  <2>2. stream'[t] = Prefix(uiFrame, t, 0)
    <3> DEFINE f == uiFrame
    <3>1. f \in 0 .. NumFrames /\ Header(f) \in Units
      BY UnitsOfFrame DEF DataTypeOK
    <3>2. /\ Prefix(f, t, 0) \in Seq(Units)
          /\ Len(Prefix(f, t, 0)) = Offset(t) + 0
          /\ \A k \in 1 .. (Offset(t) + 0) :
               Prefix(f, t, 0)[k] = IF k <= Offset(t) THEN Header(f)
                                    ELSE Coded(k - 1 - Offset(t), Cell(f, "source"))
      BY <3>1, PrefixFacts
    <3>3. CASE t = HeaderStream
      <4> DEFINE r == <<Header(f)>>
      <4>1. r \in Seq(Units) /\ Len(r) = 1 /\ r[1] = Header(f)
        BY <3>1
      <4>2. Len(Prefix(f, t, 0)) = 1 /\ Prefix(f, t, 0)[1] = Header(f)
        BY <3>2, <3>3 DEF Offset
      <4> HIDE DEF r
      <4>3. r = Prefix(f, t, 0)
        BY <3>2, <4>1, <4>2, SameSeq
      <4> QED
        BY <2>1, <3>3, <4>3 DEF r
    <3>4. CASE t # HeaderStream
      <4>1. Len(Prefix(f, t, 0)) = 0
        BY <3>2, <3>4 DEF Offset
      <4> QED
        BY <2>1, <3>2, <3>4, <4>1
    <3> QED
      BY <3>3, <3>4
  <2>3. frameBuff'[t] = HalfCoded(uiFrame, 0)
    <3>1. \A c \in Ctus : ~(c < 0)
      BY DEF Ctus
    <3> QED
      BY <1>1, <3>1 DEF SourceRead, AllCells, HalfCoded
  <2> QED
    BY <1>1, <2>2, <2>3 DEF TileAt
<1>4. \A th \in Threads : ~RunningOn(t, th)'
  <2>1. \A w \in Workers : pcWorkItem'[w] = NoItem
    BY <1>1 DEF Exclusive, IdleBetweenFrames, BetweenFrames
  <2>2. t # NoItem
    BY TileNumbers DEF Tiles, LastTile
  <2> QED
    BY <1>1, <2>1, <2>2 DEF RunningOn
<1> QED
  BY <1>1, <1>2, <1>3, <1>4 DEF TileProgress, Waiting

LEMMA ProgressPushTile ==
  ASSUME IInv, Control, TilesProgress, PushTile
  PROVE  TilesProgress'
<1> USE TileNumbers
<1>1. uiTile \in Items /\ uiTile \in Nat
  BY DEF PushTile, Control
<1>2. /\ m_iCurrSize \in Nat /\ m_iCurrSize' = m_iCurrSize + 1
      /\ \A k \in 0 .. m_iCurrSize :
           JobAt(k)' = IF k = m_iCurrSize THEN uiTile ELSE JobAt(k)
  BY <1>1, AddedJob DEF PushTile
<1>3. /\ mainPc = "AddToJob" /\ mainPc' = "AddToJob" /\ uiTile' = uiTile + 1
      /\ UNCHANGED <<pcWorkItem, uiFrame, iCtu, frameBuff, stream>>
      /\ SignalJobAvail
  BY DEF PushTile, AddToJob
<1>4. \A w \in Workers : \A l \in Busy : pc'[w] = l <=> pc[w] = l
  BY <1>3, SignalMoves DEF IInv, TypeOK, Busy
<1> SUFFICES ASSUME NEW t \in Tiles PROVE TileProgress(t)'
  BY DEF TilesProgress
<1>5. t >= uiTile <=> t = uiTile \/ t >= uiTile'
  BY <1>1, <1>3, SliceCompressorAssumption DEF Tiles
<1>6. (\E k \in QueuePositions' : JobAt(k)' = t)
      <=> t = uiTile \/ \E k \in QueuePositions : JobAt(k) = t
  <2>1. \E k \in QueuePositions' : JobAt(k)' = uiTile
    <3>1. m_iCurrSize \in QueuePositions'
      BY <1>2 DEF QueuePositions
    <3>2. \E k \in 0 .. m_iCurrSize : k = m_iCurrSize
      BY <1>2
    <3> QED
      BY <1>2, <3>1, <3>2
  <2>2. \A k \in QueuePositions : k \in QueuePositions' /\ JobAt(k)' = JobAt(k)
    BY <1>2 DEF QueuePositions
  <2>3. \A k \in QueuePositions' :
          \/ JobAt(k)' = uiTile
          \/ k \in QueuePositions /\ JobAt(k)' = JobAt(k)
    BY <1>2 DEF QueuePositions
  <2> QED
    BY <2>1, <2>2, <2>3
<1>7. Waiting(t)' <=> Waiting(t)
  BY <1>3, <1>4, <1>5, <1>6 DEF Waiting, Busy
<1>8. \A th \in Threads : RunningOn(t, th)' <=> RunningOn(t, th)
  BY <1>3, <1>4 DEF RunningOn, Busy
<1>9. TileProgress(t)
  BY <1>3 DEF TilesProgress, InFrame
<1> QED
  BY <1>3, <1>7, <1>8, <1>9, ProgressSame

(* The main thread takes the last tile: until now it was never begun.      *)
LEMMA ProgressStartLastTile ==
  ASSUME Control, DataTypeOK, TilesProgress, StartLastTile
  PROVE  TilesProgress'
<1> USE TileNumbers
<1>1. /\ mainPc = "AddToJob" /\ mainPc' = "CompressTile" /\ uiTile = LastTile
      /\ UNCHANGED <<buffer, pc, pcWorkItem, uiFrame, uiTile, frameBuff, stream>>
      /\ iCtu' = [iCtu EXCEPT ![Main] = 0]
  BY DEF StartLastTile, vars, buffer
<1>2. iCtu'[Main] = 0 /\ \A th \in Threads : th # Main => iCtu'[th] = iCtu[th]
  BY <1>1 DEF DataTypeOK, Threads
<1> SUFFICES ASSUME NEW t \in Tiles PROVE TileProgress(t)'
  BY DEF TilesProgress
<1>3. TileProgress(t)
  BY <1>1 DEF TilesProgress, InFrame
<1>4. t >= uiTile <=> t = LastTile
  BY <1>1 DEF Tiles, LastTile
<1>5. CASE t = LastTile
  <2>1. TileAt(t, 0)
    BY <1>1, <1>3, <1>4, <1>5 DEF TileProgress, Waiting
  <2>2. TileAt(t, 0)'
    BY <1>1, <2>1 DEF TileAt
  <2>3. RunningOn(t, Main)' /\ Main \in Threads
    BY <1>1, <1>5 DEF RunningOn, Threads
  <2>4. ASSUME NEW th \in Threads, RunningOn(t, th)' PROVE TileAt(t, iCtu[th])'
    <3>1. CASE th = Main
      BY <1>2, <2>2, <3>1 DEF TileAt
    <3>2. CASE th # Main
      <4>1. RunningOn(t, th)
        BY <1>1, <2>4, <3>2 DEF RunningOn
      <4> QED
        BY <1>1, <1>2, <1>3, <3>2, <4>1 DEF TileProgress, TileAt
    <3> QED
      BY <3>1, <3>2
  <2> QED
    BY <2>2, <2>3, <2>4 DEF TileProgress
<1>6. CASE t # LastTile
  <2>1. Waiting(t)' <=> Waiting(t)
    BY <1>1, <1>4, <1>6, WaitingSame
  <2>2. \A th \in Threads : RunningOn(t, th)' <=> RunningOn(t, th)
    BY <1>1, <1>6 DEF RunningOn
  <2>3. \A th \in Threads : RunningOn(t, th) => iCtu'[th] = iCtu[th]
    BY <1>1, <1>2, <1>6, SliceCompressorAssumption DEF RunningOn
  <2> QED
    BY <1>1, <1>3, <2>1, <2>2, <2>3, ProgressSame
<1> QED
  BY <1>5, <1>6

(* The main thread has coded all CTUs of the last tile. *)
LEMMA ProgressWaitQueueEmpty ==
  ASSUME TilesProgress, WaitQueueEmpty
  PROVE  TilesProgress'
<1>1. /\ mainPc = "CompressTile" /\ mainPc' = "WaitQueueEmpty"
      /\ iCtu[Main] = CtusPerTile
      /\ UNCHANGED <<buffer, pc, pcWorkItem, uiFrame, uiTile, iCtu, frameBuff, stream>>
  BY DEF WaitQueueEmpty, CallWaitQueueEmpty, buffer
<1> SUFFICES ASSUME NEW t \in Tiles PROVE TileProgress(t)'
  BY DEF TilesProgress
<1>2. TileProgress(t)
  BY <1>1 DEF TilesProgress, InFrame
<1>3. Waiting(t)' <=> Waiting(t)
  BY <1>1, WaitingSame
<1>4. CASE t = LastTile
  <2>1. TileAt(t, CtusPerTile)
    BY <1>1, <1>2, <1>4 DEF TileProgress, RunningOn, Threads
  <2>2. TileAt(t, CtusPerTile)' /\ (TileAt(t, 0) => TileAt(t, 0)')
    BY <1>1, <2>1 DEF TileAt
  <2>3. ASSUME NEW th \in Threads, RunningOn(t, th)' PROVE TileAt(t, iCtu[th])'
    <3>1. RunningOn(t, th)
      BY <1>1, <2>3 DEF RunningOn
    <3> QED
      BY <1>1, <1>2, <3>1 DEF TileProgress, TileAt
  <2> QED
    BY <1>2, <1>3, <2>2, <2>3 DEF TileProgress
<1>5. CASE t # LastTile
  <2>1. \A th \in Threads : RunningOn(t, th)' <=> RunningOn(t, th)
    BY <1>1, <1>5 DEF RunningOn
  <2> QED
    BY <1>1, <1>2, <1>3, <2>1, ProgressSame
<1> QED
  BY <1>4, <1>5

(* A job moves from the queue to a worker: its tile is not begun before    *)
(* and after.                                                              *)
LEMMA ProgressGetNextJob ==
  ASSUME IInv, TilesProgress, NEW w \in Workers, GetNextJob(w),
         UNCHANGED <<mainVars, iCtu, frameBuff, stream>>
  PROVE  TilesProgress'
<1>1. /\ m_iCurrSize \in Nat \ {0} /\ m_iCurrSize' = m_iCurrSize - 1
      /\ pcWorkItem' = [pcWorkItem EXCEPT ![w] = JobAt(0)]
      /\ \A k \in 0 .. (m_iCurrSize - 2) : JobAt(k)' = JobAt(k + 1)
  BY TakenJob
<1>2. /\ pc[w] = "GetNextJob" /\ pc' = [pc EXCEPT ![w] = "IncNumJobsUnderProcess"]
      /\ pc \in [Workers -> WorkerPcs]
      /\ pcWorkItem \in [Workers -> Items \cup {NoItem}]
  BY DEF GetNextJob, IInv, TypeOK
<1>3. \A v \in Workers :
        /\ pc'[v] = IF v = w THEN "IncNumJobsUnderProcess" ELSE pc[v]
        /\ pcWorkItem'[v] = IF v = w THEN JobAt(0) ELSE pcWorkItem[v]
  BY <1>1, <1>2
<1> SUFFICES ASSUME mainPc' \in InFrame, NEW t \in Tiles PROVE TileProgress(t)'
  BY DEF TilesProgress
<1>4. TileProgress(t)
  BY DEF TilesProgress, mainVars
<1>5. (\E k \in QueuePositions : JobAt(k) = t)
      <=> JobAt(0) = t \/ \E k \in QueuePositions' : JobAt(k)' = t
  <2>1. 0 \in QueuePositions
    BY <1>1 DEF QueuePositions
  <2>2. \A k \in QueuePositions' : k + 1 \in QueuePositions /\ JobAt(k)' = JobAt(k + 1)
    BY <1>1 DEF QueuePositions
  <2>3. ASSUME NEW k \in QueuePositions, k # 0
        PROVE  \E j \in QueuePositions' : JobAt(j)' = JobAt(k)
    <3>1. k - 1 \in QueuePositions' /\ (k - 1) + 1 = k
      BY <1>1, <2>3 DEF QueuePositions
    <3>2. \E j \in QueuePositions' : j + 1 = k
      BY <3>1
    <3> QED
      BY <2>2, <3>2
  <2>4. ASSUME NEW k \in QueuePositions, JobAt(k) = t, k # 0
        PROVE  \E j \in QueuePositions' : JobAt(j)' = t
    BY <2>3, <2>4
  <2> QED
    BY <2>1, <2>2, <2>4
<1>6. Waiting(t)' <=> Waiting(t)
  BY <1>2, <1>3, <1>5 DEF Waiting, mainVars
<1>7. \A th \in Threads : RunningOn(t, th)' <=> RunningOn(t, th)
  BY <1>2, <1>3 DEF RunningOn, mainVars
<1> QED
  BY <1>4, <1>6, <1>7, ProgressSame DEF mainVars

LEMMA ProgressStartTile ==
  ASSUME IInv, DataTypeOK, TilesProgress, NEW w \in Workers, WorkerStartTile(w)
  PROVE  TilesProgress'
<1>1. /\ pc[w] = "IncNumJobsUnderProcess" /\ pc' = [pc EXCEPT ![w] = "m_pfPtrToFunc"]
      /\ pc \in [Workers -> WorkerPcs] /\ w \in Threads
      /\ iCtu' = [iCtu EXCEPT ![w] = 0] /\ iCtu \in [Threads -> 0 .. CtusPerTile]
      /\ UNCHANGED <<buffer, pcWorkItem, mainPc, uiFrame, uiTile, frameBuff, stream>>
  BY DEF WorkerStartTile, IncNumJobsUnderProcess, IInv, TypeOK, DataTypeOK, Threads,
         mainVars
<1>2. /\ iCtu'[w] = 0 /\ \A th \in Threads : th # w => iCtu'[th] = iCtu[th]
      /\ pc'[w] = "m_pfPtrToFunc" /\ \A v \in Workers : v # w => pc'[v] = pc[v]
  BY <1>1
<1> SUFFICES ASSUME mainPc' \in InFrame, NEW t \in Tiles PROVE TileProgress(t)'
  BY DEF TilesProgress
<1>3. TileProgress(t)
  BY <1>1 DEF TilesProgress
<1>4. CASE pcWorkItem[w] = t
  <2>1. TileAt(t, 0)
    BY <1>1, <1>3, <1>4 DEF TileProgress, Waiting
  <2>2. TileAt(t, 0)'
    BY <1>1, <2>1 DEF TileAt
  <2>3. RunningOn(t, w)'
    BY <1>1, <1>2, <1>4 DEF RunningOn
  <2>4. ASSUME NEW th \in Threads, RunningOn(t, th)' PROVE TileAt(t, iCtu[th])'
    <3>1. CASE th = w
      BY <1>2, <2>2, <3>1 DEF TileAt
    <3>2. CASE th # w
      <4>1. RunningOn(t, th)
        BY <1>1, <1>2, <2>4, <3>2 DEF RunningOn
      <4> QED
        BY <1>1, <1>2, <1>3, <3>2, <4>1 DEF TileProgress, TileAt
    <3> QED
      BY <3>1, <3>2
  <2> QED
    BY <1>1, <2>2, <2>3, <2>4 DEF TileProgress
<1>5. CASE pcWorkItem[w] # t
  <2>1. Waiting(t)' <=> Waiting(t)
    BY <1>1, <1>2, <1>5, WaitingSame
  <2>2. \A th \in Threads : RunningOn(t, th)' <=> RunningOn(t, th)
    BY <1>1, <1>2, <1>5 DEF RunningOn
  <2>3. \A th \in Threads : RunningOn(t, th) => iCtu'[th] = iCtu[th]
    BY <1>1, <1>2, <1>5, SliceCompressorAssumption DEF RunningOn
  <2> QED
    BY <1>1, <1>3, <2>1, <2>2, <2>3, ProgressSame
<1> QED
  BY <1>4, <1>5

(* A thread codes one CTU of its tile, which no other thread has and which *)
(* is not in the queue.                                                    *)
LEMMA ProgressCompress ==
  ASSUME IInv, Control, DataTypeOK, Exclusive, ~leftBehind, TilesProgress,
         NEW th \in Threads, NEW t \in Tiles, RunningOn(t, th), CompressCTU(th, t),
         UNCHANGED <<vars, mainVars>>
  PROVE  TilesProgress'
<1>1. UNCHANGED <<buffer, pc, pcWorkItem, mainPc, uiFrame, uiTile>>
  BY DEF vars, mainVars, buffer
<1>2. \A v, u : RunningOn(u, v)' <=> RunningOn(u, v)
  BY <1>1 DEF RunningOn
<1>3. \A u : Waiting(u)' <=> Waiting(u)
  BY <1>1, WaitingSame
<1> SUFFICES ASSUME mainPc \in InFrame, NEW u \in Tiles PROVE TileProgress(u)'
  BY <1>1 DEF TilesProgress
<1>4. TileProgress(t) /\ TileProgress(u)
  BY DEF TilesProgress
<1>5. /\ TileAt(t, iCtu[th])'
      /\ \A x \in Tiles \ {t} : stream'[x] = stream[x] /\ frameBuff'[x] = frameBuff[x]
      /\ \A v \in Threads \ {th} : iCtu'[v] = iCtu[v]
  BY <1>1, <1>4, CompressAdvances DEF TileProgress
<1>6. CASE u = t
  <2>1. ~Waiting(t) /\ \A v \in Threads : RunningOn(t, v) => v = th
    BY RunningAlone
  <2>2. ~Waiting(t)' /\ RunningOn(t, th)'
    BY <1>2, <1>3, <2>1
  <2>3. ASSUME NEW v \in Threads, RunningOn(t, v)' PROVE TileAt(t, iCtu[v])'
    <3>1. v = th
      BY <1>2, <2>1, <2>3
    <3> QED
      BY <1>5, <3>1
  <2> QED
    BY <1>6, <2>2, <2>3 DEF TileProgress
<1>7. CASE u # t
  <2>1. ~RunningOn(u, th)
    BY <1>7, SliceCompressorAssumption DEF RunningOn
  <2>2. \A v \in Threads : RunningOn(u, v) => iCtu'[v] = iCtu[v]
    BY <1>5, <2>1
  <2> QED
    BY <1>1, <1>2, <1>3, <1>4, <1>5, <1>7, <2>2, ProgressSame
<1> QED
  BY <1>6, <1>7

(* A worker has coded all CTUs of its tile. *)
LEMMA ProgressTileReturns ==
  ASSUME IInv, TilesProgress, NEW w \in Workers, WorkerTileReturns(w)
  PROVE  TilesProgress'
<1>1. /\ pc[w] = "m_pfPtrToFunc" /\ pc' = [pc EXCEPT ![w] = "JobDone"]
      /\ pc \in [Workers -> WorkerPcs] /\ w \in Threads
      /\ iCtu[w] = CtusPerTile
      /\ UNCHANGED <<buffer, pcWorkItem, mainPc, uiFrame, uiTile, iCtu, frameBuff, stream>>
  BY DEF WorkerTileReturns, JobReturns, IInv, TypeOK, Threads, mainVars
<1>2. pc'[w] = "JobDone" /\ \A v \in Workers : v # w => pc'[v] = pc[v]
  BY <1>1
<1> SUFFICES ASSUME mainPc' \in InFrame, NEW t \in Tiles PROVE TileProgress(t)'
  BY DEF TilesProgress
<1>3. TileProgress(t)
  BY <1>1 DEF TilesProgress
<1>4. Waiting(t)' <=> Waiting(t)
  BY <1>1, <1>2, WaitingSame
<1>5. CASE pcWorkItem[w] = t
  <2>1. TileAt(t, CtusPerTile)
    BY <1>1, <1>3, <1>5 DEF TileProgress, RunningOn
  <2>2. TileAt(t, CtusPerTile)' /\ (TileAt(t, 0) => TileAt(t, 0)')
    BY <1>1, <2>1 DEF TileAt
  <2>3. ASSUME NEW th \in Threads, RunningOn(t, th)' PROVE TileAt(t, iCtu[th])'
    <3>1. RunningOn(t, th)
      BY <1>1, <1>2, <2>3 DEF RunningOn
    <3> QED
      BY <1>1, <1>3, <3>1 DEF TileProgress, TileAt
  <2> QED
    BY <1>3, <1>4, <2>2, <2>3 DEF TileProgress
<1>6. CASE pcWorkItem[w] # t
  <2>1. \A th \in Threads : RunningOn(t, th)' <=> RunningOn(t, th)
    BY <1>1, <1>2, <1>6 DEF RunningOn
  <2> QED
    BY <1>1, <1>3, <1>4, <2>1, ProgressSame
<1> QED
  BY <1>5, <1>6

LEMMA ProgressStep ==
  ASSUME IInv, Control, DataTypeOK, Exclusive, ~leftBehind, TilesProgress, SourceRead,
         [SliceNext]_sliceVars
  PROVE  TilesProgress'
<1>1. CASE FillGOPBuffFromYUV \/ WriteBitstreamFile
  BY <1>1 DEF FillGOPBuffFromYUV, WriteBitstreamFile, TilesProgress, InFrame
<1>2. CASE InitialToCompression
  BY <1>2, ProgressInitial
<1>3. CASE PushTile
  BY <1>3, ProgressPushTile
<1>4. CASE StartLastTile
  BY <1>4, ProgressStartLastTile
<1>5. CASE MainCompressCTU
  <2>1. Main \in Threads /\ LastTile \in Tiles /\ RunningOn(LastTile, Main)
    BY <1>5, StreamOfTile DEF MainCompressCTU, RunningOn, Threads
  <2> QED
    BY <1>5, <2>1, ProgressCompress DEF MainCompressCTU
<1>6. CASE WaitQueueEmpty
  BY <1>6, ProgressWaitQueueEmpty
<1>7. CASE WaitQueueEmptySleep \/ LeaveWaitQueueEmpty
  <2>1. mainPc = "WaitQueueEmpty" /\ mainPc' \in {"WaitQueueEmpty", "GetTotalBytesWritten"}
    BY <1>7 DEF WaitQueueEmptySleep, WaitQueueEmptyWait, LeaveWaitQueueEmpty,
                WaitQueueEmptyReturn, Control, mainVars
  <2> QED
    BY <1>7, <2>1, ProgressQuiet
    DEF WaitQueueEmptySleep, WaitQueueEmptyWait, LeaveWaitQueueEmpty,
        WaitQueueEmptyReturn, InFrame, mainVars, buffer
<1>8. CASE GetTotalBytesWritten \/ WriteTilesEntryPoint
  BY <1>8, ProgressQuiet
  DEF GetTotalBytesWritten, WriteTilesEntryPoint, InFrame, vars, buffer
<1>9. ASSUME NEW w \in Workers, WorkerStep(w) PROVE TilesProgress'
  <2>0. w \in Threads
    BY DEF Threads
  <2>1. CASE WorkerQueueStep(w)
    <3>1. CASE GetNextJob(w)
      BY <2>1, <3>1, ProgressGetNextJob DEF WorkerQueueStep
    <3>2. CASE GetNextJobWait(w) \/ JobDone(w)
      <4>1. /\ pc[w] \notin Busy /\ pc'[w] \notin Busy
            /\ \A v \in Workers : v # w => /\ pc'[v] = pc[v]
                                          /\ pcWorkItem'[v] = pcWorkItem[v]
        BY <3>2 DEF GetNextJobWait, JobDone, IInv, TypeOK, Busy
      <4> QED
        BY <2>1, <3>2, <4>1, ProgressQuiet
        DEF WorkerQueueStep, GetNextJobWait, JobDone, mainVars
    <3> QED
      BY <2>1, <3>1, <3>2 DEF WorkerQueueStep
  <2>2. CASE WorkerStartTile(w)
    BY <2>2, ProgressStartTile
  <2>3. CASE WorkerCompressCTU(w)
    <3>1. pcWorkItem[w] \in Tiles /\ RunningOn(pcWorkItem[w], w)
      BY <2>3, StreamOfTile DEF WorkerCompressCTU, IInv, JobPointersValid, RunningOn
    <3> QED
      BY <2>0, <2>3, <3>1, ProgressCompress DEF WorkerCompressCTU
  <2>4. CASE WorkerTileReturns(w)
    BY <2>4, ProgressTileReturns
  <2> QED
    BY <1>9, <2>1, <2>2, <2>3, <2>4 DEF WorkerStep
<1>10. CASE AnyWakeup
  <2>1. \A w \in Workers : \/ pc'[w] = pc[w] /\ pcWorkItem'[w] = pcWorkItem[w]
                           \/ pc[w] \notin Busy /\ pc'[w] \notin Busy
    BY <1>10 DEF AnyWakeup, CallerSpuriousWakeup, SpuriousWakeup, IInv, TypeOK, Busy
  <2> QED
    BY <1>10, <2>1, ProgressQuiet DEF AnyWakeup, CallerSpuriousWakeup, SpuriousWakeup, mainVars
<1>11. CASE UNCHANGED sliceVars
  BY <1>11, ProgressQuiet DEF sliceVars, vars, mainVars, buffer
<1> QED
  BY <1>1, <1>2, <1>3, <1>4, <1>5, <1>6, <1>7, <1>8, <1>9, <1>10, <1>11
  DEF SliceNext, MainStep

--------------------------------------------------------------------------------
(* The main thread's data. *)

(* After the wait nothing is queued and no worker has a tile: every tile   *)
(* is coded to its end when the main thread reads the handlers.            *)
LEMMA AllTilesCoded ==
  ASSUME Exclusive, ~leftBehind, QueueWithinTiles, TilesProgress,
         mainPc \in {"GetTotalBytesWritten", "WriteTilesEntryPoint", "WriteBitstreamFile"}
  PROVE  \A t \in Tiles : TileAt(t, CtusPerTile)
<1> TAKE t \in Tiles
<1>1. t # NoItem
  BY SliceCompressorAssumption, WorkQueueAssumption DEF Tiles
<1>2. QueuePositions = {} /\ \A w \in Workers : pcWorkItem[w] = NoItem
  BY DEF QueueWithinTiles, QueuePositions, Exclusive, IdleBetweenFrames, BetweenFrames
<1>3. ~Waiting(t) /\ \A th \in Threads : ~RunningOn(t, th)
  BY <1>1, <1>2 DEF Waiting, RunningOn
<1> QED
  BY <1>3 DEF TilesProgress, TileProgress, InFrame

LEMMA CodedLengths ==
  ASSUME DataTypeOK, \A t \in Tiles : TileAt(t, CtusPerTile)
  PROVE  \A t \in Tiles : Len(stream[t]) = Offset(t) + CtusPerTile
<1> TAKE t \in Tiles
<1> QED
  BY PrefixFacts, SliceCompressorAssumption DEF DataTypeOK, TileAt

(* Appending to a function on 1 .. n. *)
LEMMA AppendAsFunction ==
  ASSUME NEW S, NEW n \in Nat, NEW s \in Seq(S), Len(s) = n, NEW x \in S
  PROVE  /\ Append(s, x) \in [1 .. (n + 1) -> S]
         /\ \A k \in 1 .. (n + 1) : Append(s, x)[k] = IF k = n + 1 THEN x ELSE s[k]
<1> DEFINE a == Append(s, x)
           m == n + 1
<1>1. m \in Nat
  OBVIOUS
<1>2. a \in Seq(S) /\ Len(a) = m
  OBVIOUS
<1>3. \A k \in 1 .. m : a[k] = IF k = m THEN x ELSE s[k]
  OBVIOUS
<1>4. a \in [1 .. m -> S]
  <2> HIDE DEF a, m
  <2> QED
    BY <1>1, <1>2
<1> QED
  BY <1>3, <1>4

(* The files after the frame: one more sequentially encoded frame.         *)
LEMMA FilesGrow ==
  ASSUME DataTypeOK, Exclusive, ~leftBehind, QueueWithinTiles, TilesProgress,
         HeaderWritten, EntryPointsCoded, FilesSequential, WriteBitstreamFile
  PROVE  FilesSequential'
<1> DEFINE f       == uiFrame
           streams == [k \in 1 .. Len(SliceStreams) |-> stream[SliceStreams[k]]]
           written == [streams |-> streams, entries |-> entryPoints]
<1>1. /\ mainPc = "WriteBitstreamFile" /\ uiFrame' = f + 1
      /\ bitstreamFile' = Append(bitstreamFile, written)
      /\ recFile' = Append(recFile, frameBuff)
      /\ f \in 0 .. NumFrames /\ f \in Nat
  BY SliceCompressorAssumption DEF WriteBitstreamFile, DataTypeOK
<1>2. \A t \in Tiles : TileAt(t, CtusPerTile)
  BY <1>1, AllTilesCoded
<1>3. \A s \in Streams : stream[s] = SequentialStream(f, s)
  <2> TAKE s \in Streams
  <2>1. CASE s \in Tiles
    BY <1>1, <1>2, <2>1, SequentialTile DEF TileAt
  <2>2. CASE s \notin Tiles
    <3>1. s = HeaderStream /\ stream[s] = <<Header(f)>>
      BY <1>1, <2>2 DEF Streams, HeaderWritten, InFrame
    <3> QED
      BY <1>1, <2>2, <3>1, SequentialHeader
  <2> QED
    BY <2>1, <2>2
<1>4. streams = [k \in 1 .. Len(SliceStreams) |-> SequentialStream(f, SliceStreams[k])]
  BY <1>3, LinkedStreams
<1>5. written = SequentialFrame(f)
  BY <1>1, <1>4 DEF EntryPointsCoded, SequentialFrame
<1>6. frameBuff = AllCells(Cell(f, "rec"))
  <2>1. \A c \in Ctus : c < CtusPerTile
    BY SliceCompressorAssumption DEF Ctus
  <2>2. \A t \in Tiles : frameBuff[t] = [c \in Ctus |-> Cell(f, "rec")]
    BY <1>2, <2>1 DEF TileAt, HalfCoded
  <2> QED
    BY <2>2 DEF AllCells, DataTypeOK, Pictures
<1> DEFINE FileRecords == [streams : Seq(Seq(Units)), entries : Seq(Nat)]
<1>7. written \in FileRecords
  <2>1. streams \in [1 .. Len(SliceStreams) -> Seq(Units)]
    BY LinkedStreams DEF DataTypeOK
  <2>2. streams \in Seq(Seq(Units))
    BY <2>1, LinkedStreams, FiniteFunctionIsSeq
  <2> QED
    BY <2>2 DEF DataTypeOK
<1>8. bitstreamFile' = [k \in 1 .. (f + 1) |-> SequentialFrame(k - 1)]
  <2>1. bitstreamFile \in Seq(FileRecords) /\ Len(bitstreamFile) = f
    BY DEF DataTypeOK
  <2> HIDE DEF FileRecords, written
  <2>2. /\ bitstreamFile' \in [1 .. (f + 1) -> FileRecords]
        /\ \A k \in 1 .. (f + 1) :
             bitstreamFile'[k] = IF k = f + 1 THEN written ELSE bitstreamFile[k]
    BY <1>1, <1>7, <2>1, AppendAsFunction
  <2>3. \A k \in 1 .. (f + 1) : bitstreamFile'[k] = SequentialFrame(k - 1)
    <3> TAKE k \in 1 .. (f + 1)
    <3>1. CASE k = f + 1
      <4>1. k - 1 = f
        BY <1>1, <3>1
      <4> QED
        BY <1>5, <2>2, <3>1, <4>1
    <3>2. CASE k # f + 1
      BY <1>1, <2>2, <3>2 DEF FilesSequential
    <3> QED
      BY <3>1, <3>2
  <2> QED
    BY <2>2, <2>3
<1>9. recFile' = [k \in 1 .. (f + 1) |-> AllCells(Cell(k - 1, "rec"))]
  <2>1. recFile \in Seq(Pictures) /\ Len(recFile) = f /\ frameBuff \in Pictures
    BY DEF DataTypeOK
  <2>2. /\ recFile' \in [1 .. (f + 1) -> Pictures]
        /\ \A k \in 1 .. (f + 1) : recFile'[k] = IF k = f + 1 THEN frameBuff ELSE recFile[k]
    BY <1>1, <2>1, AppendAsFunction
  <2>3. \A k \in 1 .. (f + 1) : recFile'[k] = AllCells(Cell(k - 1, "rec"))
    <3> TAKE k \in 1 .. (f + 1)
    <3>1. CASE k = f + 1
      <4>1. k - 1 = f
        BY <1>1, <3>1
      <4> QED
        BY <1>6, <2>2, <3>1, <4>1
    <3>2. CASE k # f + 1
      BY <1>1, <2>2, <3>2 DEF FilesSequential
    <3> QED
      BY <3>1, <3>2
  <2> QED
    BY <2>2, <2>3
<1> QED
  BY <1>1, <1>8, <1>9 DEF FilesSequential

LEMMA MainDataCompress ==
  ASSUME DataTypeOK, MainData, NEW th \in Threads, NEW t \in Tiles, CompressCTU(th, t),
         mainPc # "InitialToCompression", UNCHANGED <<mainVars, fileVars>>
  PROVE  MainData'
<1>1. HeaderStream \notin Tiles => stream'[HeaderStream] = stream[HeaderStream]
  BY StreamOfTile DEF CompressCTU, DataTypeOK
<1> QED
  BY <1>1 DEF MainData, SourceRead, HeaderWritten, TotalsCollected, EntryPointsCoded,
              FilesSequential, mainVars, fileVars

(* Steps that read and write none of the main thread's data.               *)
LEMMA MainDataSame ==
  ASSUME MainData, UNCHANGED <<uiFrame, frameBuff, stream, fileVars>>,
         \/ mainPc' = mainPc
         \/ /\ mainPc \in InFrame
            /\ mainPc' \in {"AddToJob", "CompressTile", "WaitQueueEmpty",
                            "GetTotalBytesWritten"}
  PROVE  MainData'
BY DEF MainData, SourceRead, HeaderWritten, TotalsCollected, EntryPointsCoded,
       FilesSequential, InFrame, fileVars

LEMMA MainDataStep ==
  ASSUME IInv, Control, QueueWithinTiles, DataTypeOK, Exclusive, ~leftBehind,
         TilesProgress, MainData, [SliceNext]_sliceVars
  PROVE  MainData'
<1> USE SliceCompressorAssumption
<1>1. CASE FillGOPBuffFromYUV
  BY <1>1 DEF FillGOPBuffFromYUV, fileVars, MainData, SourceRead, HeaderWritten,
              TotalsCollected, EntryPointsCoded, FilesSequential, InFrame
<1>2. CASE InitialToCompression
  <2>1. HeaderStream \notin Tiles => stream'[HeaderStream] = <<Header(uiFrame)>>
    BY <1>2, StreamOfTile DEF InitialToCompression
  <2> QED
    BY <1>2, <2>1 DEF InitialToCompression, fileVars, MainData, SourceRead,
       HeaderWritten, TotalsCollected, EntryPointsCoded, FilesSequential
<1>3. CASE PushTile \/ StartLastTile \/ WaitQueueEmpty \/ WaitQueueEmptySleep
           \/ LeaveWaitQueueEmpty
  <2>1. LeaveWaitQueueEmpty => mainPc = "WaitQueueEmpty"
    BY DEF LeaveWaitQueueEmpty, WaitQueueEmptyReturn, Control
  <2> QED
    BY <1>3, <2>1, MainDataSame
    DEF PushTile, StartLastTile, WaitQueueEmpty, WaitQueueEmptySleep,
        LeaveWaitQueueEmpty, InFrame, mainVars
<1>4. CASE MainCompressCTU
  <2>1. Main \in Threads /\ LastTile \in Tiles
    BY StreamOfTile DEF Threads
  <2> QED
    BY <1>4, <2>1, MainDataCompress DEF MainCompressCTU
<1>5. CASE GetTotalBytesWritten
  <2>1. \A t \in Tiles : Len(stream[t]) = Offset(t) + CtusPerTile
    BY <1>5, AllTilesCoded, CodedLengths DEF GetTotalBytesWritten
  <2>2. totalBytes' = [t \in Tiles |-> Offset(t) + CtusPerTile]
    BY <1>5, <2>1 DEF GetTotalBytesWritten
  <2> QED
    BY <1>5, <2>2 DEF GetTotalBytesWritten, MainData, SourceRead, HeaderWritten,
       TotalsCollected, EntryPointsCoded, FilesSequential, InFrame
<1>6. CASE WriteTilesEntryPoint
  <2>1. \A t \in Tiles : Len(stream[t]) = Offset(t) + CtusPerTile
    BY <1>6, AllTilesCoded, CodedLengths DEF WriteTilesEntryPoint
  <2>2. ASSUME NEW k \in 1 .. (NumTiles - 1) PROVE Len(stream[k - 1]) = CtusPerTile
    <3>1. k - 1 \in Tiles /\ Offset(k - 1) = 0
      BY DEF Tiles, Offset, HeaderStream
    <3> QED
      BY <2>1, <3>1
  <2>3. entryPoints' = [k \in 1 .. (NumTiles - 1) |-> CtusPerTile]
    BY <1>6, <2>2 DEF WriteTilesEntryPoint
  <2> QED
    BY <1>6, <2>3 DEF WriteTilesEntryPoint, MainData, SourceRead, HeaderWritten,
       TotalsCollected, EntryPointsCoded, FilesSequential, InFrame
<1>7. CASE WriteBitstreamFile
  <2>1. FilesSequential'
    BY <1>7, FilesGrow DEF MainData
  <2> QED
    BY <1>7, <2>1 DEF WriteBitstreamFile, MainData, SourceRead, HeaderWritten,
       TotalsCollected, EntryPointsCoded, InFrame
<1>8. ASSUME NEW w \in Workers, WorkerStep(w) PROVE MainData'
  <2>1. CASE WorkerCompressCTU(w)
    <3>1. w \in Threads /\ pcWorkItem[w] \in Tiles /\ pcWorkItem[w] # NoItem
      BY <2>1, StreamOfTile, WorkQueueAssumption
      DEF WorkerCompressCTU, IInv, JobPointersValid, Threads
    <3>2. mainPc # "InitialToCompression"
      BY <3>1 DEF Exclusive, IdleBetweenFrames, BetweenFrames
    <3> QED
      BY <2>1, <3>1, <3>2, MainDataCompress DEF WorkerCompressCTU
  <2>2. CASE WorkerQueueStep(w) \/ WorkerStartTile(w) \/ WorkerTileReturns(w)
    BY <2>2, MainDataSame
    DEF WorkerQueueStep, WorkerStartTile, WorkerTileReturns, mainVars
  <2> QED
    BY <1>8, <2>1, <2>2 DEF WorkerStep
<1>9. CASE AnyWakeup \/ UNCHANGED sliceVars
  BY <1>9, MainDataSame DEF AnyWakeup, sliceVars, mainVars
<1> QED
  BY <1>1, <1>2, <1>3, <1>4, <1>5, <1>6, <1>7, <1>8, <1>9 DEF SliceNext, MainStep

LEMMA DataInvInitial == SliceInit => DataInv
<1> SUFFICES ASSUME SliceInit PROVE TilesProgress /\ MainData
  BY DEF DataInv
<1>1. uiFrame = 0 /\ mainPc = "FillGOPBuffFromYUV" /\ bitstreamFile = << >> /\ recFile = << >>
  BY DEF SliceInit
<1>2. FilesSequential
  BY <1>1 DEF FilesSequential
<1> QED
  BY <1>1, <1>2 DEF TilesProgress, MainData, SourceRead, HeaderWritten,
                    TotalsCollected, EntryPointsCoded, InFrame

LEMMA DataInvStep ==
  ASSUME IInv, Control, QueueWithinTiles, DataTypeOK, Exclusive, DataInv,
         [SliceNext]_sliceVars
  PROVE  DataInv'
<1> SUFFICES ASSUME ~leftBehind' PROVE TilesProgress' /\ MainData'
  BY DEF DataInv
<1>1. ~leftBehind
  BY DEF SliceNext, MainStep, FillGOPBuffFromYUV, InitialToCompression, PushTile,
         StartLastTile, MainCompressCTU, WaitQueueEmpty, WaitQueueEmptySleep,
         LeaveWaitQueueEmpty, GetTotalBytesWritten, WriteTilesEntryPoint,
         WriteBitstreamFile, WorkerStep, WorkerQueueStep, WorkerStartTile,
         WorkerCompressCTU, WorkerTileReturns, AnyWakeup, sliceVars
<1>2. TilesProgress /\ MainData
  BY <1>1 DEF DataInv
<1> QED
  BY <1>1, <1>2, ProgressStep, MainDataStep DEF MainData

LEMMA DataInvInvariant == SliceSpec => []DataInv
BY DataInvInitial, DataInvStep, ControlInvariant, QueueWithinTilesInvariant,
   DataInvariant, ExclusiveInvariant, UsesWorkQueue, Invariance, PTL
DEF SliceSpec, ImplementsWorkQueue

(***************************************************************************)
(* The tile threads change nothing in the output: until a WaitQueueEmpty   *)
(* has left a job behind, both files are what encoding every frame tile    *)
(* after tile on one thread would have written, for any number of threads, *)
(* tiles, CTUs and frames.                                                 *)
(***************************************************************************)
THEOREM OutputIsSequential == SliceSpec => []OutputSequential
<1>1. DataInv => OutputSequential
  BY DEF DataInv, MainData, FilesSequential, OutputSequential
<1> QED
  BY <1>1, DataInvInvariant, PTL

LEMMA Behind ==
  ASSUME NEW S, NEW n \in Nat, NEW x \in S, NEW s \in Seq(S), Len(s) = n
  PROVE  /\ Len(<<x>> \o s) = n + 1
         /\ \A k \in 2 .. (n + 1) : (<<x>> \o s)[k] = s[k - 1]
OBVIOUS

(* Tile t's handler is the (t + 1)-last of those that Encode writes.       *)
LEMMA LinkOfTile ==
  ASSUME NEW t \in Tiles
  PROVE  LET k == Len(SliceStreams) - LastTile + t
         IN  k \in 1 .. Len(SliceStreams) /\ SliceStreams[k] = t
<1> USE SliceCompressorAssumption DEF Tiles, LastTile
<1>1. CASE NumTiles > 1
  <2> DEFINE tiles == [i \in 1 .. NumTiles |-> i - 1]
  <2>1. /\ tiles \in Seq(Nat) /\ Len(tiles) = NumTiles
        /\ \A i \in 1 .. NumTiles : tiles[i] = i - 1
    OBVIOUS
  <2>2. HeaderStream \in Nat /\ NumTiles \in Nat
    BY DEF HeaderStream
  <2>3. SliceStreams = <<HeaderStream>> \o tiles
    BY <1>1 DEF SliceStreams
  <2> HIDE DEF tiles
  <2>4. /\ Len(SliceStreams) = NumTiles + 1
        /\ \A k \in 2 .. (NumTiles + 1) : SliceStreams[k] = tiles[k - 1]
    BY <2>1, <2>2, <2>3, Behind
  <2>5. t + 2 \in 2 .. (NumTiles + 1) /\ (t + 2) - 1 \in 1 .. NumTiles
        /\ ((t + 2) - 1) - 1 = t
    OBVIOUS
  <2>6. SliceStreams[t + 2] = t
    <3>1. SliceStreams[t + 2] = tiles[(t + 2) - 1]
      BY <2>4, <2>5
    <3>2. tiles[(t + 2) - 1] = ((t + 2) - 1) - 1
      BY <2>1, <2>5
    <3> QED
      BY <2>5, <3>1, <3>2
  <2>7. Len(SliceStreams) - LastTile + t = t + 2
    BY <2>4
  <2> QED
    BY <2>4, <2>5, <2>6, <2>7
<1>2. CASE ~(NumTiles > 1)
  <2>1. SliceStreams = <<0>> /\ t = 0 /\ LastTile = 0
    BY <1>2 DEF SliceStreams
  <2>2. Len(SliceStreams) = 1 /\ SliceStreams[1] = 0
    BY <2>1
  <2> QED
    BY <2>1, <2>2
<1> QED
  BY <1>1, <1>2

(***************************************************************************)
(* The statistics of a slice are of the tiles that were written, for any   *)
(* number of threads, tiles, CTUs and frames.                              *)
(***************************************************************************)
THEOREM StatsAreOfFile == SliceSpec => []StatsMatchFile
<1>1. ASSUME DataInv, DataTypeOK, ~leftBehind, mainPc = "FillGOPBuffFromYUV", uiFrame > 0,
             NEW t \in Tiles
      PROVE  LET written == bitstreamFile[uiFrame].streams
             IN  totalBytes[t] = Len(written[Len(written) - LastTile + t])
  <2> DEFINE f       == uiFrame - 1
             written == bitstreamFile[uiFrame].streams
             k       == Len(SliceStreams) - LastTile + t
  <2>1. totalBytes[t] = Offset(t) + CtusPerTile
    BY <1>1 DEF DataInv, MainData, TotalsCollected
  <2>2. uiFrame \in 1 .. uiFrame /\ f \in 0 .. NumFrames
    BY <1>1, SliceCompressorAssumption DEF DataTypeOK
  <2>3. bitstreamFile[uiFrame] = SequentialFrame(f)
    BY <1>1, <2>2 DEF DataInv, MainData, FilesSequential
  <2>4. written = [i \in 1 .. Len(SliceStreams) |-> SequentialStream(f, SliceStreams[i])]
    BY <2>3 DEF SequentialFrame
  <2>5. Len(written) = Len(SliceStreams)
    BY <2>4, LinkedStreams
  <2>6. k \in 1 .. Len(SliceStreams) /\ SliceStreams[k] = t
    BY LinkOfTile
  <2>7. written[k] = SequentialStream(f, t)
    BY <2>4, <2>6
  <2>8. Len(SequentialStream(f, t)) = Offset(t) + CtusPerTile
    BY <2>2, SequentialTile, PrefixFacts, SliceCompressorAssumption
  <2> QED
    BY <2>1, <2>5, <2>7, <2>8
<1>2. DataInv /\ DataTypeOK => StatsMatchFile
  BY <1>1 DEF StatsMatchFile
<1> QED
  BY <1>2, DataInvInvariant, DataInvariant, PTL
================================================================================
