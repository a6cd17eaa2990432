------------------------ MODULE ChunkedDecoderProofs ------------------------
(***************************************************************************)
(* What ChunkedDecoder.cs keeps for every sequence of bytes, every chunk   *)
(* size and every IntMax.                                                  *)
(***************************************************************************)
EXTENDS ChunkedDecoder, TLAPS

DecoderInv == DecoderOK /\ DataOnlyInChunk

(* ProcessByte is called while no data is available, and returns a decoder. *)
LEMMA ProcessByteOK ==
    ASSUME NEW d \in Decoder, NEW b \in Byte,
           DataAvailable(d) = 0,
           d.dataAvail = -1 <=> d.state = "End"
    PROVE  /\ ProcessByte(d, b) \in Decoder
           /\ ProcessByte(d, b).dataAvail > 0 =>
                /\ ProcessByte(d, b).state = "InData"
                /\ ProcessByte(d, b).dataAvail <= ProcessByte(d, b).nextAvail
           /\ ProcessByte(d, b).dataAvail = -1 <=> ProcessByte(d, b).state = "End"
<1>1. d.dataAvail = 0 /\ d.state \in State \ {"End"} /\ d.nextAvail \in Nat
  BY IntMaxAssumption DEF DataAvailable, Decoder
<1>2. d = [state |-> d.state, dataAvail |-> d.dataAvail, nextAvail |-> d.nextAvail]
  BY DEF Decoder
<1>3. CASE d.state = "InHex" /\ b \in Digit
  <2>1. d.nextAvail * 16 + b \in Nat
    BY <1>1, <1>3 DEF Digit
  <2>2. ProcessByte(d, b) = SizeDigit(d, b)
    BY <1>3 DEF ProcessByte
  <2> QED
    BY <1>1, <1>2, <1>3, <2>1, <2>2 DEF SizeDigit, Decoder, State
<1> DEFINE Kept(e) == /\ e \in Decoder /\ e.dataAvail = 0 /\ e.state # "End"
<1>4. ASSUME NEW s \in State \ {"End"} PROVE Kept(Goto(d, s))
  <2>1. Goto(d, s) = [state |-> s, dataAvail |-> 0, nextAvail |-> d.nextAvail]
    BY <1>1, <1>2 DEF Goto
  <2> QED
    BY <1>1, <2>1 DEF Decoder
<1>5. CASE (d.state = "InHex" /\ b \notin Digit) \/ d.state = "AfterHex"
  <2>1. ProcessByte(d, b) = SkipExtension(d, b)
    BY <1>5 DEF ProcessByte
  <2>2. Kept(SkipExtension(d, b))
    <3>1. CASE b = CR
      BY <1>4, <3>1 DEF SkipExtension, State
    <3>2. CASE b # CR
      BY <1>4, <3>2 DEF SkipExtension, State
    <3> QED
      BY <3>1, <3>2
  <2> QED
    BY <2>1, <2>2
<1>6. CASE d.state = "AfterCR" /\ b = LF
  <2>1. ProcessByte(d, b) = [state |-> "InData", dataAvail |-> d.nextAvail, nextAvail |-> d.nextAvail]
    BY <1>1, <1>2, <1>6 DEF ProcessByte, StartData
  <2> QED
    BY <1>1, <2>1 DEF Decoder, State
<1>7. CASE \/ d.state = "AfterCR" /\ b # LF
           \/ d.state \in {"InData", "AfterLF2", "InTrailer", "AfterTrailerCR"}
  <2>1. PICK s \in State \ {"End"} : ProcessByte(d, b) = Goto(d, s)
    BY <1>7 DEF ProcessByte, State
  <2> QED
    BY <1>4, <2>1
<1>8. CASE d.state = "AfterCR2" /\ d.nextAvail # 0
  <2>1. ProcessByte(d, b) = [state |-> "InHex", dataAvail |-> 0, nextAvail |-> 0]
    BY <1>1, <1>2, <1>8 DEF ProcessByte, EndChunk
  <2> QED
    BY <2>1 DEF Decoder, State
<1>9. CASE (d.state = "AfterCR2" /\ d.nextAvail = 0) \/ d.state = "AfterCR3"
  <2>1. ProcessByte(d, b) = [state |-> "End", dataAvail |-> -1, nextAvail |-> d.nextAvail]
    BY <1>1, <1>2, <1>9 DEF ProcessByte, EndChunk, Finish
  <2> QED
    BY <1>1, <2>1 DEF Decoder, State
<1> QED
  BY <1>1, <1>3, <1>5, <1>6, <1>7, <1>8, <1>9 DEF State

(* DataEatten takes off at most what DataAvailable reported.                *)
LEMMA DataEattenOK ==
    ASSUME NEW d \in Decoder, NEW n \in 1..DataAvailable(d),
           d.dataAvail > 0 => d.state = "InData" /\ d.dataAvail <= d.nextAvail
    PROVE  /\ DataEatten(d, n) \in Decoder
           /\ DataEatten(d, n).state = "InData" /\ d.state = "InData"
           /\ DataEatten(d, n).nextAvail = d.nextAvail
           /\ DataEatten(d, n).dataAvail \in 0..(d.dataAvail - 1)
           /\ DataEatten(d, n).dataAvail <= d.nextAvail
<1>1. d.dataAvail \in Nat \cup {-1} /\ d.nextAvail \in Nat /\ d.state \in State
  BY DEF Decoder
<1>2. d.dataAvail > 0 /\ n \in Nat /\ n >= 1 /\ n <= d.dataAvail
  BY <1>1, IntMaxAssumption DEF DataAvailable
<1>3. DataEatten(d, n) = [state |-> d.state, dataAvail |-> d.dataAvail - n, nextAvail |-> d.nextAvail]
  BY DEF Decoder, DataEatten
<1>4. d.dataAvail - n \in Nat /\ d.dataAvail - n <= d.dataAvail - 1
  BY <1>1, <1>2
<1> QED
  BY <1>1, <1>2, <1>3, <1>4 DEF Decoder

LEMMA DecoderInvInit == DecoderInit => DecoderInv
  BY DEF DecoderInit, DecoderInv, DecoderOK, DataOnlyInChunk, Reset, Decoder, State

LEMMA DecoderInvStep == DecoderInv /\ [DecoderNext]_decoder => DecoderInv'
<1> SUFFICES ASSUME DecoderInv, [DecoderNext]_decoder PROVE DecoderInv'
  OBVIOUS
<1> USE DEF DecoderInv, DecoderOK, DataOnlyInChunk
<1>1. ASSUME NEW b \in Byte, Frame(b) PROVE DecoderInv'
  BY <1>1, ProcessByteOK DEF Frame
<1>2. ASSUME NEW n \in 1..DataAvailable(decoder), Eat(n) PROVE DecoderInv'
  <2>1. decoder' = DataEatten(decoder, n)
    BY <1>2 DEF Eat
  <2>2. /\ DataEatten(decoder, n) \in Decoder
        /\ DataEatten(decoder, n).state = "InData"
        /\ DataEatten(decoder, n).nextAvail = decoder.nextAvail
        /\ DataEatten(decoder, n).dataAvail \in 0..(decoder.dataAvail - 1)
        /\ DataEatten(decoder, n).dataAvail <= decoder.nextAvail
    BY DataEattenOK
  <2>3. DataEatten(decoder, n).dataAvail # -1
    BY <2>2
  <2> QED
    BY <2>1, <2>2, <2>3
<1>3. CASE UNCHANGED decoder
  BY <1>3
<1> QED
  BY <1>1, <1>2, <1>3 DEF DecoderNext

(* The decoder only ever has one of its states, whatever bytes come: it     *)
(* reports data only inside a chunk and the end only at the end.            *)
THEOREM DecoderIsOK == DecoderSpec => [](DecoderOK /\ DataOnlyInChunk)
<1>1. DecoderInv => DecoderOK /\ DataOnlyInChunk
  BY DEF DecoderInv
<1> QED
  BY <1>1, DecoderInvInit, DecoderInvStep, PTL DEF DecoderSpec

(* The data of a chunk are delimited by its size alone (ChunkedDecoder.cs   *)
(* 32-39, 113-116): no byte of it is taken for framing.                     *)
THEOREM ChunksAreDelimited == DecoderSpec => ChunkDelimited
<1>1. DecoderInv /\ [DecoderNext]_decoder =>
        [decoder.dataAvail > 0 => /\ decoder'.state = "InData"
                                  /\ decoder'.nextAvail = decoder.nextAvail
                                  /\ decoder'.dataAvail \in 0..(decoder.dataAvail - 1)]_decoder
  <2> SUFFICES ASSUME DecoderInv, DecoderNext, decoder.dataAvail > 0
               PROVE  /\ decoder'.state = "InData"
                      /\ decoder'.nextAvail = decoder.nextAvail
                      /\ decoder'.dataAvail \in 0..(decoder.dataAvail - 1)
    OBVIOUS
  <2>1. DataAvailable(decoder) # 0
    BY IntMaxAssumption DEF DataAvailable, DecoderInv, DecoderOK, Decoder
  <2>2. PICK n \in 1..DataAvailable(decoder) : Eat(n)
    BY <2>1 DEF DecoderNext, Frame
  <2> QED
    BY <2>2, DataEattenOK DEF Eat, DecoderInv, DecoderOK, DataOnlyInChunk
<1> QED
  BY <1>1, DecoderInvInit, DecoderInvStep, PTL DEF DecoderSpec, ChunkDelimited
=============================================================================
