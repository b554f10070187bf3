--------------------------- MODULE BitStreamHandler ---------------------------
(***************************************************************************)
(* The bit writer: a cache of one 32-bit word in front of a byte buffer.   *)
(* Codes are sequences of bits (uiCode in iLength bits, the highest first) *)
(* and the cache is a sequence of 32 bits, so every width is the code's.   *)
(*                                                                         *)
(* A shift by the whole width of the word, which the code makes with a     *)
(* code of no bits, is taken to give zero for the value zero, the only one *)
(* it is made with.                                                        *)
(***************************************************************************)
EXTENDS Integers, Sequences, SequencesExt

BYTE == 8
WORD == 32

Bit == {0, 1}
Zeros(n) == [i \in 1..n |-> 0]

(* The number v in n bits; v is below 2^31. *)
BitsOf(v, n) == [i \in 1..n |-> IF n - i > 30 THEN 0 ELSE (v \div 2^(n - i)) % 2]

(* The number that bits from+1 .. from+n of a sequence stand for. *)
NumberAt(bits, from, n) ==
  LET num[i \in 0..n] == IF i = 0 THEN 0 ELSE 2 * num[i-1] + bits[from + i]
  IN  num[n]

--------------------------------------------------------------------------------
(* A handler: the cached word m_uiCurrWord and its free bits m_iBitLocPtr, *)
(* the bytes of the buffer up to the write pointer, m_u64AllocBytes, and   *)
(* whether every MAKE_SURE it met so far held: the one on the buffer's     *)
(* size (room) and those on the use of the handler (sure).                 *)
NewHandler(bytes) ==
  [uiCurrWord |-> Zeros(WORD), iBitLocPtr |-> WORD, buffer |-> <<>>,
   allocBytes |-> bytes, room |-> TRUE, sure |-> TRUE]

HandlerOK(h) ==
  /\ h.uiCurrWord \in [1..WORD -> Bit]
  /\ h.iBitLocPtr \in 1..WORD
  /\ \A i \in DOMAIN h.buffer : h.buffer[i] \in 0..255
  /\ h.allocBytes \in Nat
  /\ h.room \in BOOLEAN /\ h.sure \in BOOLEAN

(* Faulty variant: the buffer is emptied, the cache is not. *)
InitBufferOnly(h) == [h EXCEPT !.buffer = <<>>]

InitBitStreamWordLevel(h) ==
  [NewHandler(h.allocBytes) EXCEPT !.room = h.room, !.sure = h.sure]

GetTotalBytesWritten(h) == Len(h.buffer)

(* The bytes are in the memory allocated, which has the guard bytes first. *)
GuardBytes  == 2
InBuffer(h) == GuardBytes + Len(h.buffer) <= h.allocBytes

(* The k-th byte before the write pointer; the guard bytes of 0xFF stand   *)
(* in front of the buffer.                                                 *)
Before(buffer, k) == IF Len(buffer) >= k THEN buffer[Len(buffer) + 1 - k] ELSE 255

(* Faulty variant: 0x03 itself is not escaped. *)
NeedsEscapeBelow3(buffer, byte) ==
  Before(buffer, 2) = 0 /\ Before(buffer, 1) = 0 /\ byte < 3

(* Faulty variant: an escape behind every zero. *)
NeedsEscapeAfterOne(buffer, byte) == Before(buffer, 1) = 0 /\ byte <= 3

NeedsEscape(buffer, byte) ==
  Before(buffer, 2) = 0 /\ Before(buffer, 1) = 0 /\ byte <= 3

(* FLUSH_BITS: the first whole bytes of a word go to the buffer. *)
FlushBits(buffer, word, numbits, emuprev) ==
  LET flushed[k \in 0..(numbits \div BYTE)] ==
        IF k = 0 THEN buffer
        ELSE LET buf  == flushed[k-1]
                 byte == NumberAt(word, BYTE * (k-1), BYTE)
             IN  IF emuprev /\ NeedsEscape(buf, byte) THEN buf \o <<3, byte>>
                                                      ELSE Append(buf, byte)
  IN  flushed[numbits \div BYTE]

--------------------------------------------------------------------------------
(* uiCurrWord | (code moved behind the first "at" bits); what does not fit *)
(* in the word is cut off.                                                 *)
OrInto(word, code, at) ==
  [i \in 1..WORD |->
     IF i - at \in DOMAIN code /\ code[i - at] = 1 THEN 1 ELSE word[i]]

(* What is left of a code whose first bits filled the word, as a new word. *)
RestOf(code, free) == OrInto(Zeros(WORD), code, -free)

(* Faulty variant: the ">=" the code's comment asks about. *)
WordNotFullAtZero(left) == left >= 0

(* The word is not completed yet. *)
WordNotFull(left) == left > 0

PutCodeInBitstream(h, code, emuprev) ==
  LET free == h.iBitLocPtr
      left == free - Len(code)
      word == OrInto(h.uiCurrWord, code, WORD - free)
      full == FlushBits(h.buffer, word, WORD, emuprev)
  IN  IF WordNotFull(left)
      THEN [h EXCEPT !.uiCurrWord = word, !.iBitLocPtr = left]
      ELSE [h EXCEPT !.uiCurrWord = RestOf(code, free),
                     !.iBitLocPtr = left + WORD,
                     !.buffer     = full,
                     !.room       = @ /\ Len(full) < h.allocBytes]

PutStartCodeWordLevel(h) ==
  PutCodeInBitstream([h EXCEPT !.sure = @ /\ h.iBitLocPtr = WORD], BitsOf(1, WORD), FALSE)

PutUNInBitstream(h, uiCode, iLength) ==
  PutCodeInBitstream([h EXCEPT !.sure = @ /\ iLength > 0], BitsOf(uiCode, iLength), TRUE)

(* LOG2, which is one more than the logarithm. *)
LOG2(n) == IF n = 0 THEN 0 ELSE 1 + CHOOSE k \in 0..30 : 2^k <= n /\ n \div 2 < 2^k

PutUVInBitstream(h, uiCode) ==
  LET iLength == LOG2(uiCode + 1) - 1
  IN  PutCodeInBitstream(PutCodeInBitstream(h, Zeros(iLength), TRUE),
                         BitsOf(uiCode + 1, iLength + 1), TRUE)

(* The number PutSVInBitstream hands to PutUVInBitstream. *)
SignedCode(iCode) == IF iCode > 0 THEN 2 * iCode - 1 ELSE -2 * iCode

PutSVInBitstream(h, iCode) == PutUVInBitstream(h, SignedCode(iCode))

(* The bytes of a partial word go to the buffer; the number of free bits   *)
(* stays what it was.                                                      *)
FlushRemBytes(h) ==
  [h EXCEPT !.uiCurrWord = Zeros(WORD),
            !.buffer = FlushBits(@, h.uiCurrWord, WORD - h.iBitLocPtr, TRUE),
            !.sure   = @ /\ h.iBitLocPtr % BYTE = 0]

WriteAlignZeroBits(h) ==
  PutCodeInBitstream(h, Zeros((BYTE - (WORD - h.iBitLocPtr)) % BYTE), TRUE)

(* Faulty variant: the stop bit is forgotten. *)
AlignOnly(h) == WriteAlignZeroBits(h)

WriteRBSPTrailingBits(h) == WriteAlignZeroBits(PutCodeInBitstream(h, <<1>>, TRUE))

(* FLUSH_BITS takes the first byte of a word, which is 0 in the word 0x03. *)
FixZeroTermination(h) ==
  IF Before(h.buffer, 1) = 0
  THEN [h EXCEPT !.buffer = FlushBits(@, BitsOf(3, WORD), BYTE, FALSE)] ELSE h
================================================================================
