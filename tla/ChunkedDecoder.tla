--------------------------- MODULE ChunkedDecoder ---------------------------
(***************************************************************************)
(* ChunkedDecoder.cs: the decoder of a chunked request body, one byte of   *)
(* framing at a time.  Of a byte it tells apart the sixteen hexadecimal    *)
(* digits, CR, LF and the rest.  Between framing, DataAvailable says how   *)
(* many bytes may be copied past it, which DataEatten then takes off.      *)
(***************************************************************************)
EXTENDS Integers

CONSTANT IntMax     \* int.MaxValue, the most that DataAvailable reports

ASSUME IntMaxAssumption == IntMax \in Nat \ {0}

VARIABLE decoder

Digit == 0..15
CR == 16
LF == 17
Other == 18
Byte == Digit \cup {CR, LF, Other}

State == {"InHex", "AfterHex", "AfterCR", "InData", "AfterCR2", "AfterLF2",
          "AfterCR3", "End", "InTrailer", "AfterTrailerCR"}

(* _dataAvail is what is left of the chunk, _nextAvail the size being read. *)
Decoder == [state : State, dataAvail : Nat \cup {-1}, nextAvail : Nat]

Reset == [state |-> "InHex", dataAvail |-> 0, nextAvail |-> 0]

DataAvailable(d) == IF d.dataAvail > IntMax THEN IntMax ELSE d.dataAvail

Goto(d, state) == [d EXCEPT !.state = state]
Finish(d) == [d EXCEPT !.state = "End", !.dataAvail = -1]

(* case AfterHex, which InHex falls into at the first byte that is no digit *)
SkipExtension(d, b) == Goto(d, IF b = CR THEN "AfterCR" ELSE "AfterHex")

SizeDigit(d, b) == [d EXCEPT !.nextAvail = @ * 16 + b]

StartData(d) == [d EXCEPT !.state = "InData", !.dataAvail = d.nextAvail]

(* Mutation: the next size is added to the last.                            *)
EndChunkSizeKept(d) == IF d.nextAvail = 0 THEN Finish(d) ELSE Goto(d, "InHex")

(* After CR LF of a chunk the next size follows, unless it was the last.    *)
EndChunk(d) == IF d.nextAvail = 0 THEN Finish(d)
               ELSE [d EXCEPT !.state = "InHex", !.nextAvail = 0]

(* The decoder after ProcessByte(b); the end is reached when it returns     *)
(* true, that is in state End.                                              *)
ProcessByte(d, b) ==
    CASE d.state = "InHex" -> IF b \in Digit THEN SizeDigit(d, b) ELSE SkipExtension(d, b)
      [] d.state = "AfterHex" -> SkipExtension(d, b)
      [] d.state = "AfterCR" -> IF b = LF THEN StartData(d) ELSE Goto(d, "AfterHex")
      [] d.state = "InData" -> Goto(d, IF b = CR THEN "AfterCR2" ELSE "InTrailer")
      [] d.state = "AfterCR2" -> EndChunk(d)
      [] d.state = "AfterLF2" -> Goto(d, IF b = CR THEN "AfterCR3" ELSE "InTrailer")
      [] d.state = "InTrailer" -> Goto(d, IF b = CR THEN "AfterTrailerCR" ELSE "InTrailer")
      [] d.state = "AfterTrailerCR" -> Goto(d, "AfterLF2")
      [] d.state = "AfterCR3" -> Finish(d)

DataEatten(d, n) == [d EXCEPT !.dataAvail = @ - n]

----------------------------------------------------------------------------
(* The decoder as its user drives it: bytes of framing while no data is     *)
(* available and the end is not reached, data otherwise.                    *)
DecoderInit == decoder = Reset

Frame(b) ==
    /\ DataAvailable(decoder) = 0
    /\ decoder' = ProcessByte(decoder, b)

Eat(n) == decoder' = DataEatten(decoder, n)

DecoderNext ==
    \/ \E b \in Byte : Frame(b)
    \/ \E n \in 1..DataAvailable(decoder) : Eat(n)

DecoderSpec == DecoderInit /\ [][DecoderNext]_decoder

----------------------------------------------------------------------------
DecoderOK == decoder \in Decoder

(* Bytes may be copied only inside a chunk, never past its end, and the     *)
(* end of the body is reported by -1 and by nothing else.  So ProcessByte   *)
(* is never called at the end, where it would throw (108).                  *)
DataOnlyInChunk ==
    /\ decoder.dataAvail > 0 => decoder.state = "InData" /\ decoder.dataAvail <= decoder.nextAvail
    /\ decoder.dataAvail = -1 <=> decoder.state = "End"

(* The data of a chunk is delimited by its size alone: as long as some of   *)
(* it is left, the decoder neither moves on nor takes a byte as framing.    *)
ChunkDelimited ==
    [][decoder.dataAvail > 0 => /\ decoder'.state = "InData"
                                /\ decoder'.nextAvail = decoder.nextAvail
                                /\ decoder'.dataAvail \in 0..(decoder.dataAvail - 1)]_decoder
============================================================================
