--------------------------- MODULE MCRequestBody ----------------------------
EXTENDS RequestBody

(* The grammar of a body with a length and of a chunked one.  Data bytes    *)
(* are Other, or CR as the byte most easily taken for framing.  What the    *)
(* client pipelines behind the body begins with a digit.                    *)
Places(from, n) == [i \in 1..n |-> from + i]
Pipelined == <<1>>

Plain(n) == [chunked |-> FALSE, wire |-> [i \in 1..n |-> Other] \o Pipelined,
             data |-> Places(0, n), end |-> n]

CrLf == <<CR, LF>>
Add(b, bytes) == [b EXCEPT !.wire = @ \o bytes]
AddChunk(b, size, extension) ==
    LET head == b.wire \o <<size>> \o extension \o CrLf
    IN  [b EXCEPT !.wire = head \o [i \in 1..size |-> CR] \o CrLf,
                  !.data = @ \o Places(Len(head), size)]

(* Sizes of the chunks, an extension on each, and the trailer's lines.      *)
Chunked(sizes, extension, trailer) ==
    LET empty == [chunked |-> TRUE, wire |-> <<>>, data |-> <<>>, end |-> 0]
        chunks == FoldLeft(LAMBDA b, size : AddChunk(b, size, extension), empty, sizes)
        all == Add(chunks, <<0>> \o extension \o CrLf \o trailer \o CrLf)
    IN  [all EXCEPT !.wire = @ \o Pipelined, !.end = Len(all.wire)]

Line == <<Other>> \o CrLf

MCBodies == {Plain(3), Chunked(<<2, 1>>, <<>>, <<>>), Chunked(<<>>, <<Other>>, Line)}
=============================================================================
