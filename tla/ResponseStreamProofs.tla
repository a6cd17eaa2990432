------------------------ MODULE ResponseStreamProofs ------------------------
(***************************************************************************)
(* What holds of ResponseStream for every response, every size of the      *)
(* buffer and of the writes, and however sends end: what the client gets   *)
(* is well framed and in order, and a connection is reused only after a    *)
(* complete response.                                                      *)
(***************************************************************************)
EXTENDS ResponseStream, SequenceTheorems, TLAPS

----------------------------------------------------------------------------
(* The inductive invariant                                                 *)

InBuffer(items) ==
    \A i \in DOMAIN items : items[i].is = "cell" => items[i].n \in 1..BufferSize

(* The typing, with what bounds the body and the places in the buffer.      *)
Types ==
    /\ TypeOK
    /\ InBuffer(out) /\ InBuffer(next.items)
    /\ position + rest <= MaxLength
    /\ pc \in {"app", "wait"} => rest = 0

Waits == {"wait", "waitOverflow"}
Writing == {"app", "overflow", "overflowFlushed"}

(* Who waits for what.                                                      *)
Order ==
    /\ ~sending => out = <<>> /\ tcsSend = "none"
    /\ tcsSend = "none" /\ sending => lastPacket
    /\ tcsSend = "awaited" => pc \in Waits /\ next = NoNext
    /\ pc \in Waits => headersSent /\ (tcsSend = "awaited" \/ next.what = "flush")
    /\ pc \in Waits \cup {"overflowFlushed"} => localPos = 0 /\ headersSent
    /\ next.what = "nothing" => next = NoNext
    /\ next.what = "flush" => pc \in Waits
    /\ next.what \in {"last", "error"} => pc = "finished"
    /\ lastPacket => sending /\ tcsSend = "none" /\ pc = "finished" /\ next = NoNext
    /\ outcome = "reused" => pc = "finished" /\ ~sending /\ next = NoNext

(* What is in the buffer: the last bytes that were written.                 *)
Buffered ==
    /\ localPos <= position
    /\ \A i \in 1..localPos : buffer[i] = position - localPos + i

(* Nothing but interim responses have been sent.                            *)
Interim(items) == \A i \in DOMAIN items : items[i].is = "continue"
Early == Interim(wire) /\ Interim(out)

(* Before the head nothing else is sent, and behind it the application      *)
(* awaits what it sends.                                                    *)
Starting ==
    /\ ~headersSent /\ pc # "finished" => Early
    /\ headersSent /\ pc \in Writing => ~sending

(* What was handed over to the sends, and what the client has got when      *)
(* they do not fail.                                                        *)
HandedOver == IF kind.head THEN 0 ELSE position - localPos
Sent == wire \o Resolve(out)

WholeChunks(items) ==
    \A i \in DOMAIN items : items[i].is = "size" => i + items[i].n + 1 <= Len(items)

NotEnded(items) == \A i \in DOMAIN items : items[i].is \notin {"zero", "error"}

Framed(items) ==
    InOrder(items) /\ ChunksAsSized(items) /\ OneResponse(items) /\ WholeChunks(items)

Underway ==
    pc \in Waits \cup Writing /\ next.what # "flush" =>
        /\ NotEnded(Sent) /\ HasBody(Sent, HandedOver)
        /\ headersSent =>
              /\ \E i \in DOMAIN Sent : Sent[i] = Counted("head", kind.declared)
              /\ chunked = BecomesChunked
              /\ keepAlive => StaysAlive

(* What is chained at the end is the whole response, or an error.           *)
WholeBody == IF kind.head THEN <<>> ELSE Cells(localPos)
WholeLength == IF kind.head THEN kind.declared ELSE position
Chained ==
    /\ next.what \in {"last", "error"} => Early
    /\ next.what = "error" => next.items = <<Just("error")>>
    /\ next.what = "last" =>
          /\ next.items = OptimallyMerge(WholeBody, WholeLength)
          /\ HandedOver = 0
          /\ keepAlive /\ kind.head => ~(kind.declared = Unknown /\ kind.http10)

Ending ==
    /\ lastPacket /\ keepAlive => Complete(Sent)
    /\ outcome = "reused" => Complete(wire)

Response == Starting /\ Framed(wire) /\ Framed(Sent) /\ Underway /\ Chained /\ Ending

Inv == Types /\ Order /\ Buffered /\ (strays = {} => Response)

----------------------------------------------------------------------------
(* Sequences of items                                                      *)

(* u is s followed by t.                                                    *)
Joins(u, s, t) ==
    /\ Len(u) = Len(s) + Len(t)
    /\ \A i \in 1..Len(s) : u[i] = s[i]
    /\ \A i \in 1..Len(t) : u[Len(s) + i] = t[i]

LEMMA ConcatJoins ==
    ASSUME NEW S, NEW s \in Seq(S), NEW t \in Seq(S)
    PROVE  s \o t \in Seq(S) /\ Joins(s \o t, s, t)
<1>1. /\ s \o t \in Seq(S) /\ Len(s \o t) = Len(s) + Len(t)
      /\ \A i \in 1..(Len(s) + Len(t)) :
            (s \o t)[i] = IF i <= Len(s) THEN s[i] ELSE t[i - Len(s)]
  BY ConcatProperties
<1>2. ASSUME NEW i \in 1..Len(t) PROVE (s \o t)[Len(s) + i] = t[i]
  BY <1>1, <1>2
<1>3. ASSUME NEW i \in 1..Len(s) PROVE (s \o t)[i] = s[i]
  BY <1>1, <1>3
<1> QED
  BY <1>1, <1>2, <1>3 DEF Joins

(* Where a place of u comes from.                                           *)
LEMMA PlaceOf ==
    ASSUME NEW s \in Seq(Item), NEW t \in Seq(Item), NEW u \in Seq(Item), Joins(u, s, t),
           NEW j \in DOMAIN u
    PROVE  \/ j \in DOMAIN s /\ u[j] = s[j]
           \/ \E k \in DOMAIN t : j = Len(s) + k /\ u[j] = t[k]
<1>1. CASE j <= Len(s)
  BY <1>1 DEF Joins
<1>2. CASE j > Len(s)
  <2>1. j - Len(s) \in 1..Len(t) /\ j = Len(s) + (j - Len(s))
    BY <1>2 DEF Joins
  <2> QED
    BY <2>1 DEF Joins
<1> QED
  BY <1>1, <1>2

(* What follows a head: bytes from + 1 to to, chunked if the head says so.  *)
Piece(head, t, from, to) ==
    /\ \A j \in DOMAIN t : t[j].is = "byte" =>
          /\ from < t[j].n /\ t[j].n <= to
          /\ t[j].n = from + 1 \/ \E i \in 1..(j - 1) : IsByte(t[i], t[j].n - 1)
          /\ \A i \in 1..(j - 1) : t[i].is = "byte" => t[i].n < t[j].n
    /\ to > from => \E i \in DOMAIN t : IsByte(t[i], to)
    /\ ChunksAsSized(t) /\ WholeChunks(t)
    /\ \A j \in DOMAIN t :
          IF Chunked(head)
          THEN /\ t[j].is \in {"byte", "size", "crlf", "zero"}
               /\ t[j].is = "byte" => \E k \in DOMAIN t : InChunk(t, k, j)
               /\ t[j].is = "zero" => j = Len(t)
          ELSE t[j].is = "byte"

LEMMA ItemTyped ==
    ASSUME NEW s \in Seq(Item), NEW i \in DOMAIN s
    PROVE  s[i] \in Item /\ s[i].n \in Int /\ i \in Nat /\ i >= 1 /\ i <= Len(s) /\ Len(s) \in Nat
<1>1. s[i] \in Item
  BY ElementOfSeq
<1>2. s[i].n \in Nat \cup {-1}
  BY <1>1 DEF Item, Unknown
<1> QED
  BY <1>1, <1>2

LEMMA OrderJoins ==
    ASSUME NEW s \in Seq(Item), NEW t \in Seq(Item), NEW u \in Seq(Item), Joins(u, s, t),
           NEW head, NEW from \in Nat, NEW to \in Nat, from <= to,
           InOrder(s), HasBody(s, from), Piece(head, t, from, to)
    PROVE  InOrder(u) /\ HasBody(u, to)
<1>1. ASSUME NEW j \in DOMAIN u, u[j].is = "byte"
      PROVE  /\ u[j].n = 1 \/ \E i \in 1..(j - 1) : IsByte(u[i], u[j].n - 1)
             /\ \A i \in 1..(j - 1) : u[i].is = "byte" => u[i].n < u[j].n
             /\ u[j].n <= to
  <2>1. CASE j \in DOMAIN s /\ u[j] = s[j]
    <3>1. \A i \in 1..(j - 1) : i \in DOMAIN s /\ u[i] = s[i]
      BY <2>1, SMTT(30) DEF Joins
    <3>2. s[j].n <= from /\ s[j].n \in Int
      BY <1>1, <2>1, ItemTyped DEF HasBody
    <3> QED
      <4>1. /\ s[j].n = 1 \/ \E i \in 1..(j - 1) : IsByte(s[i], s[j].n - 1)
            /\ \A i \in 1..(j - 1) : s[i].is = "byte" => s[i].n < s[j].n
        BY <1>1, <2>1 DEF InOrder
      <4>2. s[j].n <= to
        BY <3>2
      <4> QED
        BY <2>1, <3>1, <4>1, <4>2
  <2>2. ASSUME NEW k \in DOMAIN t, j = Len(s) + k, u[j] = t[k]
        PROVE  /\ u[j].n = 1 \/ \E i \in 1..(j - 1) : IsByte(u[i], u[j].n - 1)
               /\ \A i \in 1..(j - 1) : u[i].is = "byte" => u[i].n < u[j].n
               /\ u[j].n <= to
    <3>1. /\ from < t[k].n /\ t[k].n <= to /\ t[k].n \in Int
          /\ t[k].n = from + 1 \/ \E i \in 1..(k - 1) : IsByte(t[i], t[k].n - 1)
          /\ \A i \in 1..(k - 1) : t[i].is = "byte" => t[i].n < t[k].n
      BY <1>1, <2>2, ItemTyped DEF Piece
    <3>2. u[j].n = 1 \/ \E i \in 1..(j - 1) : IsByte(u[i], u[j].n - 1)
      <4>1. CASE t[k].n = from + 1
        <5>1. CASE from = 0
          BY <2>2, <4>1, <5>1
        <5>2. CASE from > 0
          <6>1. PICK i \in DOMAIN s : IsByte(s[i], from)
            BY <5>2 DEF HasBody
          <6>2. i \in 1..(j - 1) /\ u[i] = s[i]
            <7>1. i \in 1..Len(s) /\ k >= 1 /\ j = Len(s) + k
              BY <2>2
            <7> QED
              BY <7>1 DEF Joins
          <6> QED
            BY <2>2, <4>1, <6>1, <6>2
        <5> QED
          BY <5>1, <5>2
      <4>2. ASSUME NEW i \in 1..(k - 1), IsByte(t[i], t[k].n - 1)
            PROVE  \E x \in 1..(j - 1) : IsByte(u[x], u[j].n - 1)
        <5>1. Len(s) + i \in 1..(j - 1) /\ u[Len(s) + i] = t[i]
          BY <2>2 DEF Joins
        <5> QED
          BY <2>2, <4>2, <5>1
      <4> QED
        BY <3>1, <4>1, <4>2
    <3>3. ASSUME NEW i \in 1..(j - 1), u[i].is = "byte" PROVE u[i].n < u[j].n
      <4>1. i \in DOMAIN u
        OBVIOUS
      <4>2. CASE i \in DOMAIN s /\ u[i] = s[i]
        <5>1. s[i].n <= from /\ s[i].n \in Int
          BY <3>3, <4>2, ItemTyped DEF HasBody
        <5> QED
          BY <2>2, <3>1, <4>2, <5>1
      <4>3. ASSUME NEW x \in DOMAIN t, i = Len(s) + x, u[i] = t[x] PROVE u[i].n < u[j].n
        <5>1. x \in 1..(k - 1)
          BY <2>2, <4>3
        <5> QED
          BY <2>2, <3>1, <3>3, <4>3, <5>1
      <4> QED
        BY <4>1, <4>2, <4>3, PlaceOf
    <3> QED
      BY <2>2, <3>1, <3>2, <3>3
  <2> QED
    BY <2>1, <2>2, PlaceOf
<1>2. InOrder(u)
  BY <1>1 DEF InOrder
<1>3. ASSUME to > 0 PROVE \E i \in DOMAIN u : IsByte(u[i], to)
  <2>1. CASE to > from
    <3>1. PICK i \in DOMAIN t : IsByte(t[i], to)
      BY <2>1 DEF Piece
    <3>2. Len(s) + i \in DOMAIN u /\ u[Len(s) + i] = t[i]
      BY DEF Joins
    <3> QED
      BY <3>1, <3>2
  <2>2. CASE to = from
    <3>1. PICK i \in DOMAIN s : IsByte(s[i], to)
      BY <1>3, <2>2 DEF HasBody
    <3>2. i \in DOMAIN u /\ u[i] = s[i]
      BY DEF Joins
    <3> QED
      BY <3>1, <3>2
  <2> QED
    BY <2>1, <2>2
<1> QED
  BY <1>1, <1>2, <1>3 DEF HasBody

LEMMA SizesAreNumbers ==
    ASSUME NEW s \in Seq(Item), ChunksAsSized(s), NEW i \in DOMAIN s, s[i].is = "size"
    PROVE  s[i].n \in Nat /\ i \in Nat
<1>1. s[i] \in Item /\ i \in Nat
  BY ElementOfSeq
<1>2. s[i].n \in Nat \cup {-1}
  BY <1>1 DEF Item, Unknown
<1>3. ASSUME s[i].n = -1 PROVE FALSE
  <2>1. i = i + s[i].n + 1
    BY <1>1, <1>3
  <2>2. s[i].is = "crlf"
    BY <2>1 DEF ChunksAsSized
  <2> QED
    BY <2>2
<1> QED
  BY <1>1, <1>2, <1>3

LEMMA ChunksJoin ==
    ASSUME NEW s \in Seq(Item), NEW t \in Seq(Item), NEW u \in Seq(Item), Joins(u, s, t),
           ChunksAsSized(s), WholeChunks(s), ChunksAsSized(t), WholeChunks(t)
    PROVE  ChunksAsSized(u) /\ WholeChunks(u)
<1>1. ASSUME NEW i \in DOMAIN u, u[i].is = "size"
      PROVE  /\ i + u[i].n + 1 <= Len(u)
             /\ \A j \in DOMAIN u :
                   /\ i < j /\ j <= i + u[i].n => u[j].is = "byte"
                   /\ j = i + u[i].n + 1 => u[j].is = "crlf"
  <2>1. CASE i \in DOMAIN s /\ u[i] = s[i]
    <3>1. i + s[i].n + 1 <= Len(s) /\ s[i].n \in Int /\ i \in Nat
      BY <1>1, <2>1, ItemTyped DEF WholeChunks
    <3>2. ASSUME NEW j \in DOMAIN u, i < j, j <= i + u[i].n + 1
          PROVE  j \in DOMAIN s /\ u[j] = s[j]
      BY <2>1, <3>1, <3>2 DEF Joins
    <3>3. Len(u) >= Len(s)
      BY DEF Joins
    <3>4. ASSUME NEW j \in DOMAIN u, i < j, j <= i + u[i].n PROVE u[j].is = "byte"
      <4>1. j \in DOMAIN s /\ u[j] = s[j] /\ j <= i + s[i].n
        BY <2>1, <3>1, <3>2, <3>4
      <4>2. InChunk(s, i, j)
        BY <1>1, <2>1, <3>4, <4>1 DEF InChunk
      <4> QED
        BY <2>1, <4>1, <4>2 DEF ChunksAsSized
    <3>5. ASSUME NEW j \in DOMAIN u, j = i + u[i].n + 1 PROVE u[j].is = "crlf"
      <4>1. i < j
        BY <1>1, <2>1, <3>5, SizesAreNumbers
      <4>2. j \in DOMAIN s /\ u[j] = s[j] /\ j = i + s[i].n + 1
        BY <2>1, <3>1, <3>2, <3>5, <4>1
      <4> QED
        BY <1>1, <2>1, <4>2 DEF ChunksAsSized
    <3> QED
      BY <2>1, <3>1, <3>3, <3>4, <3>5
  <2>2. ASSUME NEW k \in DOMAIN t, i = Len(s) + k, u[i] = t[k]
        PROVE  /\ i + u[i].n + 1 <= Len(u)
               /\ \A j \in DOMAIN u :
                     /\ i < j /\ j <= i + u[i].n => u[j].is = "byte"
                     /\ j = i + u[i].n + 1 => u[j].is = "crlf"
    <3>1. k + t[k].n + 1 <= Len(t) /\ t[k].n \in Int /\ k \in Nat
      BY <1>1, <2>2, ItemTyped DEF WholeChunks
    <3>2. i + u[i].n + 1 <= Len(u)
      BY <2>2, <3>1 DEF Joins
    <3>3. ASSUME NEW j \in DOMAIN u, j >= i
          PROVE  j - Len(s) \in DOMAIN t /\ u[j] = t[j - Len(s)] /\ j - Len(s) \in Nat
      <4>1. j - Len(s) \in 1..Len(t) /\ j = Len(s) + (j - Len(s))
        BY <2>2, <3>1, <3>3 DEF Joins
      <4> QED
        BY <4>1 DEF Joins
    <3>4. ASSUME NEW j \in DOMAIN u, i < j, j <= i + u[i].n PROVE u[j].is = "byte"
      <4> DEFINE m == j - Len(s)
      <4>1. m \in DOMAIN t /\ u[j] = t[m] /\ k < m /\ m <= k + t[k].n
        BY <2>2, <3>1, <3>3, <3>4, SMTT(30)
      <4> HIDE DEF m
      <4>2. InChunk(t, k, m)
        BY <1>1, <2>2, <4>1 DEF InChunk
      <4> QED
        BY <2>2, <4>1, <4>2 DEF ChunksAsSized
    <3>5. ASSUME NEW j \in DOMAIN u, j = i + u[i].n + 1 PROVE u[j].is = "crlf"
      <4> DEFINE m == j - Len(s)
      <4>0. t[k].n >= 0
        BY <1>1, <2>2, SizesAreNumbers
      <4>1. m \in DOMAIN t /\ u[j] = t[m] /\ m = k + t[k].n + 1
        BY <2>2, <3>1, <3>3, <3>5, <4>0, SMTT(30)
      <4> HIDE DEF m
      <4> QED
        BY <1>1, <2>2, <4>1 DEF ChunksAsSized
    <3> QED
      BY <2>2, <3>2, <3>4, <3>5
  <2> QED
    BY <2>1, <2>2, PlaceOf
<1> QED
  BY <1>1 DEF ChunksAsSized, WholeChunks, InChunk

LEMMA ResponseJoins ==
    ASSUME NEW s \in Seq(Item), NEW t \in Seq(Item), NEW u \in Seq(Item), Joins(u, s, t),
           OneResponse(s), NotEnded(s), NEW h \in DOMAIN s, s[h].is = "head",
           NEW from, NEW to, Piece(s[h], t, from, to)
    PROVE  OneResponse(u)
<1>1. h \in DOMAIN u /\ u[h] = s[h]
  BY DEF Joins
<1>2. ASSUME NEW k \in DOMAIN t
      PROVE  /\ t[k].is \in {"byte", "size", "crlf", "zero"}
             /\ t[k].is = "zero" => k = Len(t)
             /\ IF Chunked(s[h])
                THEN t[k].is = "byte" => \E x \in DOMAIN t : InChunk(t, x, k)
                ELSE t[k].is = "byte"
  BY DEF Piece
<1>3. ASSUME NEW i \in DOMAIN u, u[i].is \in {"head", "error"} PROVE i = h
  <2>1. \A k \in DOMAIN t : u[i] # t[k]
    BY <1>2, <1>3
  <2>2. i \in DOMAIN s /\ u[i] = s[i]
    BY <2>1, PlaceOf
  <2> QED
    <3>1. {s[i].is, s[h].is} \subseteq {"head", "error"}
      BY <1>3, <2>2
    <3> QED
      BY <2>2, <3>1 DEF OneResponse
<1>4. ASSUME NEW j \in DOMAIN u, j < h PROVE u[j].is = "continue"
  <2>1. j \in DOMAIN s /\ u[j] = s[j]
    <3>1. j \in 1..Len(s)
      BY <1>4
    <3> QED
      BY <3>1 DEF Joins
  <2> QED
    BY <1>4, <2>1 DEF OneResponse
<1>5. ASSUME NEW j \in DOMAIN u, h < j
      PROVE  IF Chunked(s[h])
             THEN /\ u[j].is \in {"byte", "size", "crlf", "zero"}
                  /\ u[j].is = "byte" => \E k \in DOMAIN u : InChunk(u, k, j)
             ELSE u[j].is = "byte"
  <2>1. CASE j \in DOMAIN s /\ u[j] = s[j]
    <3>1. IF Chunked(s[h])
          THEN /\ s[j].is \in {"byte", "size", "crlf", "zero"}
               /\ s[j].is = "byte" => \E k \in DOMAIN s : InChunk(s, k, j)
          ELSE s[j].is = "byte"
      BY <1>5, <2>1 DEF OneResponse
    <3>2. ASSUME NEW k \in DOMAIN s, InChunk(s, k, j) PROVE k \in DOMAIN u /\ InChunk(u, k, j)
      BY <3>2 DEF InChunk, Joins
    <3> QED
      BY <2>1, <3>1, <3>2
  <2>2. ASSUME NEW k \in DOMAIN t, j = Len(s) + k, u[j] = t[k]
        PROVE  IF Chunked(s[h])
               THEN /\ u[j].is \in {"byte", "size", "crlf", "zero"}
                    /\ u[j].is = "byte" => \E x \in DOMAIN u : InChunk(u, x, j)
               ELSE u[j].is = "byte"
    <3>1. ASSUME NEW x \in DOMAIN t, InChunk(t, x, k)
          PROVE  Len(s) + x \in DOMAIN u /\ InChunk(u, Len(s) + x, j)
      <4>1. Len(s) + x \in DOMAIN u /\ u[Len(s) + x] = t[x]
        <5>1. x \in 1..Len(t) /\ Len(s) \in Nat /\ Len(t) \in Nat /\ DOMAIN u = 1..Len(u)
          OBVIOUS
        <5>2. Len(u) = Len(s) + Len(t) /\ u[Len(s) + x] = t[x]
          BY <5>1 DEF Joins
        <5> QED
          BY <5>1, <5>2
      <4>2. t[x].n \in Int
        BY ItemTyped
      <4> QED
        <5>1. t[x].is = "size" /\ x < k /\ k <= x + t[x].n /\ x \in Nat /\ k \in Nat
          BY <3>1 DEF InChunk
        <5>2. Len(s) \in Nat /\ j = Len(s) + k
          BY <2>2
        <5>3. Len(s) + x < j /\ j <= (Len(s) + x) + t[x].n
          BY <4>2, <5>1, <5>2
        <5> QED
          BY <4>1, <5>1, <5>3 DEF InChunk
    <3> QED
      BY <1>2, <2>2, <3>1
  <2> QED
    BY <2>1, <2>2, PlaceOf
<1>6. ASSUME NEW i \in DOMAIN u, u[i].is \in {"zero", "error"}, NEW j \in DOMAIN u PROVE j <= i
  <2>1. ~(i \in DOMAIN s /\ u[i] = s[i])
    BY <1>6 DEF NotEnded
  <2>2. PICK k \in DOMAIN t : i = Len(s) + k /\ u[i] = t[k]
    BY <2>1, PlaceOf
  <2>3. k = Len(t)
    BY <1>2, <1>6, <2>2
  <2> QED
    BY <2>2, <2>3 DEF Joins
<1>7. ASSUME NEW i \in DOMAIN u, NEW j \in DOMAIN u
      PROVE  /\ {u[i].is, u[j].is} \subseteq {"head", "error"} => i = j
             /\ u[i].is = "head" /\ j < i => u[j].is = "continue"
             /\ u[i].is = "head" /\ i < j =>
                   IF Chunked(u[i])
                   THEN /\ u[j].is \in {"byte", "size", "crlf", "zero"}
                        /\ u[j].is = "byte" => \E k \in DOMAIN u : InChunk(u, k, j)
                   ELSE u[j].is = "byte"
             /\ u[i].is \in {"zero", "error"} => j <= i
  <2>1. {u[i].is, u[j].is} \subseteq {"head", "error"} => i = j
    BY <1>3
  <2>2. u[i].is = "head" => i = h /\ u[i] = s[h]
    BY <1>1, <1>3
  <2> QED
    BY <1>4, <1>5, <1>6, <2>1, <2>2
<1> QED
  BY <1>7 DEF OneResponse

LEMMA FramedJoins ==
    ASSUME NEW s \in Seq(Item), NEW t \in Seq(Item), NEW u \in Seq(Item), Joins(u, s, t),
           Framed(s), NotEnded(s), NEW h \in DOMAIN s, s[h].is = "head",
           NEW from \in Nat, NEW to \in Nat, from <= to, HasBody(s, from),
           Piece(s[h], t, from, to)
    PROVE  Framed(u) /\ HasBody(u, to) /\ h \in DOMAIN u /\ u[h] = s[h]
<1>1. InOrder(u) /\ HasBody(u, to)
  BY OrderJoins DEF Framed
<1>2. ChunksAsSized(u) /\ WholeChunks(u)
  BY ChunksJoin DEF Framed, Piece
<1>3. OneResponse(u)
  BY ResponseJoins DEF Framed
<1>4. h \in DOMAIN u /\ u[h] = s[h]
  BY DEF Joins
<1> QED
  BY <1>1, <1>2, <1>3, <1>4 DEF Framed

(* The first item that is not an interim response.                          *)
LEMMA FramedBegins ==
    ASSUME NEW s \in Seq(Item), NEW x \in Item, NEW u \in Seq(Item), Joins(u, s, <<x>>),
           Interim(s), x.is \in {"continue", "head", "error"}
    PROVE  /\ Framed(u) /\ HasBody(u, 0)
           /\ x.is # "error" => NotEnded(u)
           /\ x.is = "continue" => Interim(u)
           /\ Len(s) + 1 \in DOMAIN u /\ u[Len(s) + 1] = x
<1>1. Len(u) = Len(s) + 1 /\ u[Len(s) + 1] = x
  BY DEF Joins
<1>2. ASSUME NEW j \in DOMAIN u
      PROVE  /\ u[j].is \in {"continue", "head", "error"}
             /\ j < Len(u) => u[j].is = "continue"
             /\ u[j].is = "error" => x.is = "error"
             /\ x.is = "continue" => u[j].is = "continue"
  BY <1>1 DEF Joins, Interim
<1>3. InOrder(u) /\ ChunksAsSized(u) /\ WholeChunks(u) /\ HasBody(u, 0)
  BY <1>2 DEF InOrder, ChunksAsSized, InChunk, WholeChunks, HasBody
<1>4. OneResponse(u)
  BY <1>1, <1>2 DEF OneResponse
<1> QED
  BY <1>1, <1>2, <1>3, <1>4 DEF Framed, NotEnded, Interim

LEMMA FramedInterim ==
    ASSUME NEW s \in Seq(Item), Interim(s) PROVE Framed(s) /\ NotEnded(s) /\ HasBody(s, 0)
  BY DEF Interim, Framed, InOrder, ChunksAsSized, InChunk, WholeChunks, OneResponse, NotEnded,
         HasBody
----------------------------------------------------------------------------
(* What the operators of the response make                                 *)

BufferTyped == buffer \in [1..BufferSize -> 0..MaxLength]

LEMMA JustIsItem ==
    ASSUME NEW what \in {"byte", "cell", "continue", "head", "size", "crlf", "zero", "error"},
           NEW n \in Nat \cup {Unknown}
    PROVE  /\ Just(what) \in Item /\ Just(what).is = what
           /\ Counted(what, n) \in Item /\ Counted(what, n).is = what /\ Counted(what, n).n = n
  BY DEF Just, Counted, Item

(* Items leave as they are, cells as the bytes they hold.                   *)
LEMMA ResolveItems ==
    ASSUME BufferTyped, NEW items \in Seq(Item), InBuffer(items)
    PROVE  /\ Resolve(items) \in Seq(Item) /\ Len(Resolve(items)) = Len(items)
           /\ DOMAIN Resolve(items) = DOMAIN items
           /\ \A i \in DOMAIN items :
                 /\ items[i].is = "cell" => Resolve(items)[i] = Counted("byte", buffer[items[i].n])
                 /\ items[i].is # "cell" => Resolve(items)[i] = items[i]
                 /\ Resolve(items)[i].is # "cell"
<1>1. Resolve(items) = [i \in 1..Len(items) |->
          IF items[i].is = "cell" THEN Counted("byte", buffer[items[i].n]) ELSE items[i]]
  BY DEF Resolve
<1>2. ASSUME NEW i \in 1..Len(items), items[i].is = "cell"
      PROVE  Counted("byte", buffer[items[i].n]) \in Item
  <2>1. buffer[items[i].n] \in 0..MaxLength
    BY <1>2 DEF InBuffer, BufferTyped
  <2>2. buffer[items[i].n] \in Nat
    BY <2>1, ResponseAssumption
  <2> QED
    BY <2>2, JustIsItem
<1>3. \A i \in 1..Len(items) : items[i] \in Item
  BY ElementOfSeq
<1>4. Resolve(items) \in Seq(Item) /\ Len(Resolve(items)) = Len(items)
  BY <1>1, <1>2, <1>3
<1>5. \A i \in DOMAIN items : Counted("byte", buffer[items[i].n]).is # "cell"
  BY DEF Counted
<1> QED
  BY <1>1, <1>4, <1>5

LEMMA CellsAreItems ==
    ASSUME NEW n \in Nat
    PROVE  /\ Cells(n) \in Seq(Item) /\ Len(Cells(n)) = n /\ DOMAIN Cells(n) = 1..n
           /\ \A i \in 1..n : Cells(n)[i] = Counted("cell", i)
           /\ n <= BufferSize => InBuffer(Cells(n))
<1>1. \A i \in 1..n : Counted("cell", i) \in Item /\ Counted("cell", i).n = i
  BY JustIsItem
<1> QED
  BY <1>1, ResponseAssumption DEF Cells, InBuffer

LEMMA BytesAreItems ==
    ASSUME NEW from \in Nat, NEW n \in Nat
    PROVE  /\ Bytes(from, n) \in Seq(Item) /\ Len(Bytes(from, n)) = n
           /\ DOMAIN Bytes(from, n) = 1..n
           /\ \A i \in 1..n : Bytes(from, n)[i] = Counted("byte", from + i)
           /\ InBuffer(Bytes(from, n))
<1>1. \A i \in 1..n : Counted("byte", from + i) \in Item /\ Counted("byte", from + i).is = "byte"
  BY JustIsItem
<1> QED
  BY <1>1 DEF Bytes, InBuffer

LEMMA WrapIsItems ==
    ASSUME NEW items \in Seq(Item), InBuffer(items)
    PROVE  /\ WrapInChunk(items) \in Seq(Item) /\ Len(WrapInChunk(items)) = Len(items) + 2
           /\ WrapInChunk(items)[1] = Counted("size", Len(items))
           /\ \A i \in 1..Len(items) : WrapInChunk(items)[i + 1] = items[i]
           /\ WrapInChunk(items)[Len(items) + 2] = Just("crlf")
           /\ InBuffer(WrapInChunk(items))
<1> DEFINE a == Counted("size", Len(items))
           z == Just("crlf")
           w == (<<a>> \o items) \o <<z>>
<1>1. a \in Item /\ z \in Item /\ a.is = "size" /\ z.is = "crlf" /\ Len(items) \in Nat
  BY JustIsItem
<1>2. WrapInChunk(items) = w
  BY DEF WrapInChunk
<1> HIDE DEF a, z
<1>3. <<a>> \in Seq(Item) /\ <<z>> \in Seq(Item)
  BY <1>1
<1>4. <<a>> \o items \in Seq(Item) /\ Joins(<<a>> \o items, <<a>>, items)
  BY <1>3, ConcatJoins
<1>5. w \in Seq(Item) /\ Joins(w, <<a>> \o items, <<z>>)
  BY <1>3, <1>4, ConcatJoins
<1> HIDE DEF w
<1>6. /\ Len(w) = Len(items) + 2 /\ w[1] = a /\ w[Len(items) + 2] = z
      /\ \A i \in 1..Len(items) : w[i + 1] = items[i]
  <2>1. /\ Len(<<a>> \o items) = Len(items) + 1 /\ (<<a>> \o items)[1] = a
        /\ \A i \in 1..Len(items) : (<<a>> \o items)[i + 1] = items[i]
    BY <1>1, <1>4 DEF Joins
  <2>2. /\ Len(w) = Len(<<a>> \o items) + 1 /\ w[Len(<<a>> \o items) + 1] = z
        /\ \A i \in 1..Len(<<a>> \o items) : w[i] = (<<a>> \o items)[i]
    <3>1. Len(<<z>>) = 1 /\ <<z>>[1] = z
      OBVIOUS
    <3>2. /\ Len(w) = Len(<<a>> \o items) + Len(<<z>>)
          /\ \A i \in 1..Len(<<a>> \o items) : w[i] = (<<a>> \o items)[i]
          /\ \A i \in 1..Len(<<z>>) : w[Len(<<a>> \o items) + i] = <<z>>[i]
      BY <1>5 DEF Joins
    <3>3. w[Len(<<a>> \o items) + 1] = z
      BY <3>1, <3>2
    <3> HIDE DEF z
    <3> QED
      BY <3>1, <3>2, <3>3
  <2>3. ASSUME NEW i \in 1..Len(items) PROVE w[i + 1] = items[i]
    <3>1. i + 1 \in 1..Len(<<a>> \o items)
      BY <1>1, <2>1
    <3> QED
      BY <2>1, <2>2, <3>1
  <2>4. 1 \in 1..Len(<<a>> \o items)
    BY <1>1, <2>1
  <2> QED
    BY <1>1, <2>1, <2>2, <2>3, <2>4
<1>7. InBuffer(w)
  <2>1. ASSUME NEW j \in DOMAIN w, w[j].is = "cell" PROVE w[j].n \in 1..BufferSize
    <3>1. j # 1 /\ j # Len(items) + 2
      BY <1>1, <1>6, <2>1
    <3>2. j - 1 \in 1..Len(items) /\ j = (j - 1) + 1
      BY <1>1, <1>5, <1>6, <3>1
    <3>3. w[j] = items[j - 1]
      BY <1>6, <3>2
    <3> QED
      BY <2>1, <3>2, <3>3 DEF InBuffer
  <2> QED
    BY <2>1 DEF InBuffer
<1> QED
  BY <1>2, <1>5, <1>6, <1>7 DEF a, z

(* Bytes in a row, and in a chunk.                                          *)
Run(t, from, n) ==
    Len(t) = n /\ \A i \in 1..n : t[i] = Counted("byte", from + i)

ChunkOf(t, from, n) ==
    /\ Len(t) = n + 2
    /\ t[1] = Counted("size", n) /\ t[n + 2] = Just("crlf")
    /\ \A i \in 1..n : t[i + 1] = Counted("byte", from + i)

LEMMA RunIsPiece ==
    ASSUME NEW t \in Seq(Item), NEW from \in Nat, NEW n \in Nat, Run(t, from, n),
           NEW head, ~Chunked(head)
    PROVE  Piece(head, t, from, from + n) /\ NotEnded(t)
<1>1. \A i \in DOMAIN t : i \in 1..n /\ t[i].is = "byte" /\ t[i].n = from + i
  BY DEF Run, Counted
<1>2. ASSUME NEW j \in DOMAIN t
      PROVE  /\ from < t[j].n /\ t[j].n <= from + n
             /\ t[j].n = from + 1 \/ \E i \in 1..(j - 1) : IsByte(t[i], t[j].n - 1)
             /\ \A i \in 1..(j - 1) : t[i].n < t[j].n
  <2>1. \A i \in 1..(j - 1) : i \in DOMAIN t
    OBVIOUS
  <2>2. ASSUME j # 1 PROVE j - 1 \in 1..(j - 1) /\ IsByte(t[j - 1], t[j].n - 1)
    BY <1>1, <2>1, <2>2 DEF IsByte
  <2> QED
    BY <1>1, <2>1, <2>2, SMTT(30)
<1>3. ASSUME from + n > from PROVE n \in DOMAIN t /\ IsByte(t[n], from + n)
  BY <1>1, <1>3 DEF IsByte, Run
<1>4. ChunksAsSized(t) /\ WholeChunks(t) /\ NotEnded(t)
  BY <1>1 DEF ChunksAsSized, InChunk, WholeChunks, NotEnded
<1> QED
  BY <1>1, <1>2, <1>3, <1>4 DEF Piece

LEMMA ChunkIsPiece ==
    ASSUME NEW t \in Seq(Item), NEW from \in Nat, NEW n \in Nat, ChunkOf(t, from, n),
           NEW head, Chunked(head)
    PROVE  Piece(head, t, from, from + n) /\ NotEnded(t)
<1>1. /\ t[1].is = "size" /\ t[1].n = n /\ t[n + 2].is = "crlf" /\ Len(t) = n + 2
      /\ DOMAIN t = 1..(n + 2)
  BY DEF ChunkOf, Counted, Just
<1>2. ASSUME NEW j \in DOMAIN t, j # 1, j # n + 2
      PROVE  t[j].is = "byte" /\ t[j].n = from + (j - 1)
  <2>1. j - 1 \in 1..n /\ (j - 1) + 1 = j
    BY <1>1, <1>2
  <2>2. t[j] = Counted("byte", from + (j - 1))
    BY <2>1 DEF ChunkOf
  <2> QED
    BY <2>2 DEF Counted
<1>3. ASSUME NEW j \in DOMAIN t, t[j].is = "byte"
      PROVE  /\ j > 1 /\ j < n + 2
             /\ from < t[j].n /\ t[j].n <= from + n
             /\ t[j].n = from + 1 \/ \E i \in 1..(j - 1) : IsByte(t[i], t[j].n - 1)
             /\ \A i \in 1..(j - 1) : t[i].is = "byte" => t[i].n < t[j].n
  <2>1. j # 1 /\ j # n + 2 /\ j \in Nat /\ j > 1 /\ j < n + 2
    BY <1>1, <1>3
  <2>2. t[j].n = from + (j - 1)
    BY <1>2, <2>1
  <2>3. ASSUME j # 2 PROVE j - 1 \in 1..(j - 1) /\ IsByte(t[j - 1], t[j].n - 1)
    <3>1. j - 1 \in DOMAIN t /\ j - 1 # 1 /\ j - 1 # n + 2
      BY <1>1, <2>1, <2>3
    <3>2. t[j - 1].is = "byte" /\ t[j - 1].n = from + (j - 2)
      BY <1>2, <3>1
    <3> QED
      BY <2>1, <2>2, <3>2 DEF IsByte
  <2>4. ASSUME NEW i \in 1..(j - 1), t[i].is = "byte" PROVE t[i].n < t[j].n
    <3>1. i \in DOMAIN t /\ i # 1 /\ i # n + 2
      BY <1>1, <2>1, <2>4
    <3> QED
      BY <1>2, <2>2, <3>1
  <2> QED
    BY <2>1, <2>2, <2>3, <2>4, SMTT(30)
<1>4. ASSUME from + n > from PROVE n + 1 \in DOMAIN t /\ IsByte(t[n + 1], from + n)
  BY <1>1, <1>2, <1>4 DEF IsByte
<1>5. \A i \in DOMAIN t : t[i].is = "size" => i = 1
  BY <1>1, <1>2
<1>6. ChunksAsSized(t)
  <2>1. ASSUME NEW j \in DOMAIN t
        PROVE  /\ InChunk(t, 1, j) => t[j].is = "byte"
               /\ j = 1 + n + 1 => t[j].is = "crlf"
    BY <1>1, <1>2 DEF InChunk
  <2> QED
    BY <1>1, <1>5, <2>1 DEF ChunksAsSized, InChunk
<1>7. WholeChunks(t)
  BY <1>1, <1>5 DEF WholeChunks
<1>8. ASSUME NEW j \in DOMAIN t
      PROVE  /\ t[j].is \in {"byte", "size", "crlf"}
             /\ t[j].is = "byte" => InChunk(t, 1, j)
  BY <1>1, <1>2, <1>3 DEF InChunk
<1>9. 1 \in DOMAIN t
  BY <1>1
<1> QED
  BY <1>3, <1>4, <1>6, <1>7, <1>8, <1>9 DEF Piece, NotEnded

LEMMA EndIsPiece ==
    ASSUME NEW s \in Seq(Item), NEW t \in Seq(Item), Joins(t, s, <<Just("zero")>>),
           NEW from \in Nat, NEW to \in Nat, NEW head, Chunked(head),
           Piece(head, s, from, to), NotEnded(s)
    PROVE  Piece(head, t, from, to) /\ t[Len(t)].is = "zero"
<1>1. Len(t) = Len(s) + 1 /\ t[Len(t)].is = "zero" /\ \A i \in DOMAIN s : t[i] = s[i]
  BY DEF Joins, Just
<1>2. ASSUME NEW j \in DOMAIN t, j # Len(t)
      PROVE  j \in DOMAIN s /\ t[j] = s[j] /\ \A i \in 1..(j - 1) : i \in DOMAIN s /\ t[i] = s[i]
  BY <1>1, <1>2
<1>3. ASSUME NEW j \in DOMAIN t, t[j].is = "byte"
      PROVE  /\ from < t[j].n /\ t[j].n <= to
             /\ t[j].n = from + 1 \/ \E i \in 1..(j - 1) : IsByte(t[i], t[j].n - 1)
             /\ \A i \in 1..(j - 1) : t[i].is = "byte" => t[i].n < t[j].n
  <2>1. j # Len(t)
    BY <1>1, <1>3
  <2>2. /\ from < s[j].n /\ s[j].n <= to
        /\ s[j].n = from + 1 \/ \E i \in 1..(j - 1) : IsByte(s[i], s[j].n - 1)
        /\ \A i \in 1..(j - 1) : s[i].is = "byte" => s[i].n < s[j].n
    BY <1>2, <1>3, <2>1 DEF Piece
  <2> QED
    BY <1>2, <2>1, <2>2
<1>4. to > from => \E i \in DOMAIN t : IsByte(t[i], to)
  BY <1>1, SMTT(30) DEF Piece
<1>5. ASSUME NEW i \in DOMAIN t, t[i].is = "size"
      PROVE  /\ i + t[i].n + 1 <= Len(s) /\ i + t[i].n + 1 <= Len(t)
             /\ \A j \in DOMAIN t : /\ InChunk(t, i, j) => t[j].is = "byte"
                                    /\ j = i + t[i].n + 1 => t[j].is = "crlf"
  <2>1. i # Len(t)
    BY <1>1, <1>5
  <2>2. i \in DOMAIN s /\ t[i] = s[i]
    BY <1>2, <2>1
  <2>3. s[i].n \in Nat /\ i \in Nat /\ Len(s) \in Nat
    BY <1>5, <2>2, SizesAreNumbers DEF Piece
  <2>4. i + t[i].n + 1 <= Len(s)
    BY <1>5, <2>2 DEF Piece, WholeChunks
  <2>5. ASSUME NEW j \in DOMAIN t, j <= i + t[i].n + 1 PROVE j \in DOMAIN s /\ t[j] = s[j]
    BY <1>1, <1>2, <2>2, <2>3, <2>4, <2>5
  <2>6. ASSUME NEW j \in DOMAIN t, InChunk(t, i, j) PROVE t[j].is = "byte"
    <3>1. j \in DOMAIN s /\ t[j] = s[j]
      BY <2>2, <2>3, <2>5, <2>6 DEF InChunk
    <3>2. InChunk(s, i, j)
      BY <2>2, <2>6 DEF InChunk
    <3> QED
      BY <2>2, <3>1, <3>2 DEF Piece, ChunksAsSized
  <2>7. ASSUME NEW j \in DOMAIN t, j = i + t[i].n + 1 PROVE t[j].is = "crlf"
    <3>1. j \in DOMAIN s /\ t[j] = s[j]
      BY <2>2, <2>3, <2>5, <2>7
    <3> QED
      BY <1>5, <2>2, <2>7, <3>1 DEF Piece, ChunksAsSized
  <2> QED
    BY <1>1, <2>2, <2>3, <2>4, <2>6, <2>7
<1>6. ChunksAsSized(t) /\ WholeChunks(t)
  BY <1>5 DEF ChunksAsSized, WholeChunks, InChunk
<1>7. ASSUME NEW j \in DOMAIN t
      PROVE  /\ t[j].is \in {"byte", "size", "crlf", "zero"}
             /\ t[j].is = "byte" => \E k \in DOMAIN t : InChunk(t, k, j)
             /\ t[j].is = "zero" => j = Len(t)
  <2>1. CASE j = Len(t)
    BY <1>1, <2>1
  <2>2. CASE j # Len(t)
    <3>1. j \in DOMAIN s /\ t[j] = s[j]
      BY <1>2, <2>2
    <3>2. /\ s[j].is \in {"byte", "size", "crlf"}
          /\ s[j].is = "byte" => \E k \in DOMAIN s : InChunk(s, k, j)
      BY <3>1 DEF Piece, NotEnded
    <3>3. \A k \in DOMAIN s : InChunk(s, k, j) => k \in DOMAIN t /\ InChunk(t, k, j)
      BY <1>1 DEF InChunk
    <3> QED
      BY <3>1, <3>2, <3>3
  <2> QED
    BY <2>1, <2>2
<1> QED
  BY <1>1, <1>3, <1>4, <1>6, <1>7 DEF Piece

(* A head is sent in front of the rest, wherever that is.                   *)
LEMMA MergeIsItems ==
    ASSUME BufferTyped, NEW items \in Seq(Item), InBuffer(items),
           NEW length \in Nat \cup {Unknown}
    PROVE  /\ OptimallyMerge(items, length) \in Seq(Item) /\ InBuffer(OptimallyMerge(items, length))
           /\ Joins(Resolve(OptimallyMerge(items, length)), <<Counted("head", length)>>,
                    Resolve(items))
<1> DEFINE head == Counted("head", length)
           m == <<head>> \o items
           r == Resolve(items)
           q == <<head>> \o r
<1>1. head \in Item /\ head.is = "head"
  BY JustIsItem
<1>2. /\ r \in Seq(Item) /\ Len(r) = Len(items) /\ DOMAIN r = DOMAIN items
      /\ \A i \in DOMAIN items :
            /\ items[i].is = "cell" => r[i] = Counted("byte", buffer[items[i].n])
            /\ items[i].is # "cell" => r[i] = items[i]
            /\ r[i].is # "cell"
  BY ResolveItems
<1>3. OptimallyMerge(items, length) \in {m, q}
  BY DEF OptimallyMerge
<1> HIDE DEF head, r
<1>4. <<head>> \in Seq(Item) /\ Len(<<head>>) = 1 /\ <<head>>[1] = head
  BY <1>1
<1>5. m \in Seq(Item) /\ Joins(m, <<head>>, items) /\ q \in Seq(Item) /\ Joins(q, <<head>>, r)
  BY <1>2, <1>4, ConcatJoins
<1> HIDE DEF m, q
<1>6. ASSUME NEW x \in Seq(Item), NEW u \in Seq(Item), Joins(u, <<head>>, x), Len(x) = Len(items)
      PROVE  /\ Len(u) = Len(items) + 1 /\ u[1] = head
             /\ \A i \in 1..Len(items) : u[i + 1] = x[i]
             /\ \A j \in DOMAIN u : j = 1 \/ (j - 1 \in 1..Len(items) /\ u[j] = x[j - 1])
  <2>1. Len(u) = 1 + Len(items) /\ u[1] = head /\ \A i \in 1..Len(items) : u[1 + i] = x[i]
    BY <1>4, <1>6 DEF Joins
  <2>2. ASSUME NEW i \in 1..Len(items) PROVE u[i + 1] = x[i]
    <3>1. 1 + i = i + 1
      OBVIOUS
    <3> QED
      BY <2>1, <3>1
  <2>3. ASSUME NEW j \in DOMAIN u, j # 1 PROVE j - 1 \in 1..Len(items) /\ u[j] = x[j - 1]
    <3>1. j - 1 \in 1..Len(items) /\ 1 + (j - 1) = j
      BY <2>1, <2>3
    <3> QED
      BY <2>1, <3>1
  <2> QED
    BY <2>1, <2>2, <2>3
<1>7. ASSUME NEW x \in Seq(Item), NEW u \in Seq(Item), Joins(u, <<head>>, x), InBuffer(x),
             Len(x) = Len(items),
             \A i \in DOMAIN items : IF x[i].is = "cell" THEN r[i] = Counted("byte", buffer[x[i].n])
                                     ELSE r[i] = x[i]
      PROVE  InBuffer(u) /\ Joins(Resolve(u), <<head>>, r)
  <2>1. /\ Len(u) = Len(items) + 1 /\ u[1] = head
        /\ \A i \in 1..Len(items) : u[i + 1] = x[i]
        /\ \A j \in DOMAIN u : j = 1 \/ (j - 1 \in 1..Len(items) /\ u[j] = x[j - 1])
    BY <1>6, <1>7
  <2>2. InBuffer(u)
    <3>1. ASSUME NEW j \in DOMAIN u, u[j].is = "cell" PROVE u[j].n \in 1..BufferSize
      <4>1. j - 1 \in 1..Len(x) /\ u[j] = x[j - 1]
        BY <1>1, <1>7, <2>1, <3>1
      <4> QED
        BY <1>7, <3>1, <4>1 DEF InBuffer
    <3> QED
      BY <3>1 DEF InBuffer
  <2>3. /\ Len(Resolve(u)) = Len(u)
        /\ \A i \in DOMAIN u :
              /\ u[i].is = "cell" => Resolve(u)[i] = Counted("byte", buffer[u[i].n])
              /\ u[i].is # "cell" => Resolve(u)[i] = u[i]
    BY <2>2, ResolveItems
  <2>4. Resolve(u)[1] = head
    BY <1>1, <2>1, <2>3
  <2>5. ASSUME NEW i \in 1..Len(r) PROVE Resolve(u)[1 + i] = r[i]
    <3>1. i + 1 \in DOMAIN u /\ u[i + 1] = x[i] /\ i \in DOMAIN items /\ 1 + i = i + 1
      BY <1>2, <2>1
    <3> QED
      BY <1>7, <2>3, <3>1
  <2> QED
    BY <1>2, <1>4, <2>1, <2>2, <2>3, <2>4, <2>5 DEF Joins
<1>8. InBuffer(m) /\ Joins(Resolve(m), <<head>>, r)
  BY <1>2, <1>5, <1>7
<1>9. InBuffer(q) /\ Joins(Resolve(q), <<head>>, r)
  <2>1. InBuffer(r)
    BY <1>2 DEF InBuffer
  <2> QED
    BY <1>2, <1>5, <1>7, <2>1
<1> QED
  BY <1>3, <1>5, <1>8, <1>9 DEF head, r

----------------------------------------------------------------------------
(* Typing                                                                  *)

Points == {"app", "flush", "overflow", "overflowFlush", "overflowFlushed", "wait",
           "waitOverflow", "throwing", "finished", "lost"}

DataTypes ==
    /\ kind \in Kinds /\ BufferTyped
    /\ localPos \in 0..BufferSize
    /\ position \in 0..MaxLength /\ rest \in 0..MaxLength /\ position + rest <= MaxLength
    /\ pc \in {"app", "wait"} => rest = 0
FlagTypes ==
    /\ headersSent \in BOOLEAN /\ chunked \in BOOLEAN /\ keepAlive \in BOOLEAN
    /\ lastPacket \in BOOLEAN /\ sending \in BOOLEAN
Nexts == [what : {"nothing", "flush", "last", "error"}, items : Seq(Item)]
SendTypes ==
    /\ tcsSend \in {"none", "awaited", "unawaited"}
    /\ next \in Nexts /\ InBuffer(next.items)
    /\ out \in Seq(Item) /\ InBuffer(out)
WireItem == Item \ {i \in Item : i.is = "cell"}
PlaceTypes ==
    /\ pc \in Points
    /\ outcome \in {"open", "reused", "closed"}
    /\ strays \subseteq {"early", "interim"}

LEMMA TypesAre ==
    Types <=> DataTypes /\ FlagTypes /\ SendTypes /\ wire \in Seq(WireItem) /\ PlaceTypes
<1>1. {headersSent, chunked, keepAlive, lastPacket, sending} \subseteq BOOLEAN <=> FlagTypes
  BY DEF FlagTypes
<1> QED
  BY <1>1 DEF Types, TypeOK, DataTypes, BufferTyped, SendTypes, Nexts, WireItem, PlaceTypes, Points

LEMMA KindTyped ==
    ASSUME DataTypes
    PROVE  kind \in Kind /\ kind.declared \in Nat \cup {Unknown} /\ kind.headLen \in Nat
           /\ BufferSize \in Nat /\ BufferSize > 0 /\ MaxLength \in Nat
           /\ localPos \in Nat /\ position \in Nat /\ rest \in Nat
           /\ kind.http10 \in BOOLEAN /\ kind.head \in BOOLEAN /\ kind.async \in BOOLEAN
<1>1. kind \in Kind /\ BufferSize \in Nat \ {0} /\ MaxLength \in Nat
  BY ResponseAssumption DEF DataTypes
<1> QED
  BY <1>1 DEF DataTypes, Kind

LEMMA NoNextTyped == NoNext \in Nexts /\ InBuffer(NoNext.items) /\ NoNext.items = <<>>
  BY DEF NoNext, Nexts, InBuffer

LEMMA EmptyTyped == <<>> \in Seq(Item) /\ InBuffer(<<>>)
  BY DEF InBuffer

LEMMA JustTyped ==
    ASSUME NEW what \in {"continue", "error", "zero"}
    PROVE  <<Just(what)>> \in Seq(Item) /\ InBuffer(<<Just(what)>>)
<1>1. Just(what) \in Item /\ Just(what).is = what
  BY JustIsItem
<1> QED
  BY <1>1 DEF InBuffer

(* A send, now or when the one before it has ended.                         *)
LEMMA SendOrChainTyped ==
    ASSUME SendTypes, FlagTypes, NEW items \in Seq(Item), InBuffer(items), SendOrChain(items)
    PROVE  SendTypes' /\ sending' \in BOOLEAN
<1>1. CASE tcsSend # "none"
  <2> DEFINE n == [what |-> "flush", items |-> items]
  <2>1. n \in Nexts /\ n.items = items
    BY DEF Nexts
  <2>2. next' = n /\ UNCHANGED <<tcsSend, sending, out>>
    BY <1>1 DEF SendOrChain
  <2> HIDE DEF n
  <2> QED
    BY <2>1, <2>2 DEF SendTypes, FlagTypes, InBuffer
<1>2. CASE tcsSend = "none"
  BY <1>2 DEF SendOrChain, StartSend, SendTypes, InBuffer
<1> QED
  BY <1>1, <1>2

LEMMA SendLastTyped ==
    ASSUME SendTypes, FlagTypes, NEW items \in Seq(Item), InBuffer(items),
           NEW what \in {"last", "error"}, SendLast(what, items)
    PROVE  SendTypes' /\ sending' \in BOOLEAN /\ lastPacket' \in BOOLEAN
<1>1. CASE tcsSend # "none"
  <2> DEFINE n == [what |-> what, items |-> items]
  <2>1. n \in Nexts /\ n.items = items
    BY DEF Nexts
  <2>2. next' = n /\ UNCHANGED <<tcsSend, sending, out, lastPacket>>
    BY <1>1 DEF SendLast
  <2> HIDE DEF n
  <2> QED
    BY <2>1, <2>2 DEF SendTypes, FlagTypes, InBuffer
<1>2. CASE tcsSend = "none"
  BY <1>2 DEF SendLast, StartSend, SendTypes, InBuffer
<1> QED
  BY <1>1, <1>2

LEMMA WriteTyped ==
    ASSUME Types, NEW items \in Seq(Item), InBuffer(items), NEW to \in {"app", "overflowFlushed"},
           WriteAsync(items, to)
    PROVE  /\ FlagTypes' /\ SendTypes' /\ (wire \in Seq(WireItem))' /\ PlaceTypes'
           /\ UNCHANGED <<kind, buffer>> /\ pc' \in {"throwing", to, Waiting(to)}
<1>1. DataTypes /\ FlagTypes /\ SendTypes /\ wire \in Seq(WireItem) /\ PlaceTypes
  BY TypesAre
<1>2. UNCHANGED <<kind, buffer, lastPacket, wire, strays>>
  BY DEF WriteAsync
<1>3. kind.declared \in Nat \cup {Unknown} /\ kind.http10 \in BOOLEAN
  BY <1>1, KindTyped
<1>4. {"throwing", to, Waiting(to)} \subseteq Points
  BY DEF Waiting, Points
<1>5. UNCHANGED <<tcsSend, next, sending, out>> => SendTypes' /\ sending' \in BOOLEAN
  BY <1>1 DEF SendTypes, FlagTypes, InBuffer
<1>6. CASE WriteHead(items, to)
  <2> DEFINE body == IF kind.head THEN <<>> ELSE items
             framed == IF BecomesChunked /\ body # <<>> THEN WrapInChunk(body) ELSE body
             all == OptimallyMerge(framed, kind.declared)
  <2>1. body \in Seq(Item) /\ InBuffer(body)
    BY EmptyTyped
  <2>2. framed \in Seq(Item) /\ InBuffer(framed)
    <3> HIDE DEF body
    <3> QED
      BY <2>1, WrapIsItems
  <2>3. all \in Seq(Item) /\ InBuffer(all)
    <3> HIDE DEF framed
    <3> QED
      BY <1>1, <1>3, <2>2, MergeIsItems DEF DataTypes
  <2>4. \/ /\ UNCHANGED <<responseVars, keepAlive, tcsSend, next, sending, out, outcome>>
           /\ pc' = "throwing"
        \/ /\ headersSent' = TRUE /\ chunked' = BecomesChunked /\ keepAlive' = StaysAlive
           /\ \/ pc' = "throwing" /\ Close /\ UNCHANGED <<tcsSend, next, sending, out>>
              \/ SendOrChain(all) /\ pc' = Waiting(to) /\ UNCHANGED outcome
    <3> HIDE DEF framed
    <3> QED
      BY <1>6 DEF WriteHead, framed
  <2>5. BecomesChunked \in BOOLEAN /\ StaysAlive \in BOOLEAN
    BY <1>1 DEF BecomesChunked, StaysAlive, FlagTypes
  <2> HIDE DEF all
  <2>6. SendTypes' /\ sending' \in BOOLEAN /\ pc' \in {"throwing", Waiting(to)}
    BY <1>1, <1>5, <2>3, <2>4, SendOrChainTyped
  <2>7. headersSent' \in BOOLEAN /\ chunked' \in BOOLEAN /\ keepAlive' \in BOOLEAN
    BY <1>1, <2>4, <2>5 DEF FlagTypes, responseVars
  <2>8. outcome' \in {"open", "reused", "closed"}
    BY <1>1, <2>4 DEF PlaceTypes, Close
  <2> QED
    BY <1>1, <1>2, <1>4, <2>6, <2>7, <2>8 DEF FlagTypes, PlaceTypes
<1>7. CASE WriteBody(items, to)
  <2> DEFINE all == IF chunked THEN WrapInChunk(items) ELSE items
  <2>1. all \in Seq(Item) /\ InBuffer(all)
    BY WrapIsItems
  <2>2. /\ UNCHANGED <<responseVars, keepAlive>>
        /\ \/ /\ pc' \in {to, "throwing"} /\ outcome' \in {outcome, "closed"}
              /\ UNCHANGED <<tcsSend, next, sending, out>>
           \/ SendOrChain(all) /\ pc' = Waiting(to) /\ UNCHANGED outcome
    BY <1>7 DEF WriteBody, Close
  <2> HIDE DEF all
  <2>3. SendTypes' /\ sending' \in BOOLEAN /\ pc' \in {"throwing", to, Waiting(to)}
    BY <1>1, <1>5, <2>1, <2>2, SendOrChainTyped
  <2> QED
    BY <1>1, <1>2, <1>4, <2>2, <2>3 DEF FlagTypes, PlaceTypes, responseVars
<1> QED
  BY <1>6, <1>7 DEF WriteAsync

LEMMA FillTyped ==
    ASSUME DataTypes, NEW n \in Nat, n <= BufferSize - localPos, position + n <= MaxLength, Fill(n)
    PROVE  /\ buffer' \in [1..BufferSize -> 0..MaxLength]
           /\ localPos' \in 0..BufferSize /\ position' \in 0..MaxLength
           /\ localPos' = localPos + n /\ position' = position + n
<1>1. /\ localPos \in Nat /\ position \in Nat /\ BufferSize \in Nat /\ MaxLength \in Nat
      /\ buffer \in [1..BufferSize -> 0..MaxLength] /\ DOMAIN buffer = 1..BufferSize
  BY KindTyped DEF DataTypes, BufferTyped
<1>2. \A i \in 1..BufferSize :
         i \in (localPos + 1)..(localPos + n) => position + i - localPos \in 0..MaxLength
  BY <1>1
<1>3. buffer' = [i \in 1..BufferSize |->
                    IF i \in (localPos + 1)..(localPos + n) THEN position + i - localPos
                    ELSE buffer[i]]
  BY <1>1 DEF Fill
<1>4. localPos' = localPos + n /\ position' = position + n
  BY DEF Fill
<1>5. buffer' \in [1..BufferSize -> 0..MaxLength]
  BY <1>1, <1>2, <1>3
<1> QED
  BY <1>1, <1>4, <1>5

LEMMA TypesInit == Init => Types
<1> SUFFICES ASSUME Init PROVE Types
  OBVIOUS
<1>1. kind \in Kind /\ kind \in Kinds /\ BufferSize \in Nat /\ MaxLength \in Nat
  BY ResponseAssumption DEF Init
<1>2. DataTypes
  BY <1>1 DEF Init, DataTypes, BufferTyped
<1>5. FlagTypes
  BY DEF Init, FlagTypes
<1>6. PlaceTypes
  BY DEF Init, PlaceTypes, Points
<1>3. SendTypes
  BY NoNextTyped, EmptyTyped DEF Init, SendTypes
<1>4. wire \in Seq(WireItem)
  BY DEF Init
<1> QED
  BY <1>2, <1>5, <1>6, <1>3, <1>4, TypesAre

LEMMA Untouched ==
    ASSUME Types
    PROVE  /\ UNCHANGED <<headersSent, chunked, keepAlive, lastPacket, sending>> => FlagTypes'
           /\ UNCHANGED <<tcsSend, next, out>> => SendTypes'
           /\ UNCHANGED wire => (wire \in Seq(WireItem))'
           /\ UNCHANGED <<pc, outcome, strays>> => PlaceTypes'
           /\ UNCHANGED <<kind, streamVars>> /\ (pc' \in {"app", "wait"} => rest = 0) => DataTypes'
<1>1. DataTypes /\ FlagTypes /\ SendTypes /\ wire \in Seq(WireItem) /\ PlaceTypes
  BY TypesAre
<1> QED
  BY <1>1 DEF DataTypes, BufferTyped, FlagTypes, SendTypes, InBuffer, PlaceTypes, streamVars

LEMMA TypesAreNext ==
    ASSUME DataTypes', FlagTypes', SendTypes', (wire \in Seq(WireItem))', PlaceTypes'
    PROVE  Types'
  BY TypesAre, PTL

LEMMA AppTypes ==
    ASSUME Types
    PROVE  (\E n \in Writes : Write(n)) \/ Flush \/ OverflowFlush \/ DirectWrite \/ OverflowFill
           => Types'
<1>1. DataTypes /\ FlagTypes /\ SendTypes /\ wire \in Seq(WireItem) /\ PlaceTypes
  BY TypesAre
<1>2. /\ localPos \in Nat /\ position \in Nat /\ rest \in Nat /\ BufferSize \in Nat
      /\ MaxLength \in Nat /\ localPos <= BufferSize /\ position + rest <= MaxLength
      /\ pc \in {"app", "wait"} => rest = 0
  BY <1>1, KindTyped DEF DataTypes
<1>3. ASSUME UNCHANGED <<kind, responseVars, keepAlive, sendVars, wire, outcome, strays>>,
             \/ \E n \in Nat : n <= BufferSize - localPos /\ Fill(n)
             \/ UNCHANGED <<buffer, localPos, position>>,
             rest' \in 0..MaxLength, position' + rest' <= MaxLength, position' <= MaxLength,
             pc' \in {"app", "overflow"}, pc' = "app" => rest' = 0
      PROVE  Types'
  <2>1. FlagTypes' /\ SendTypes' /\ (wire \in Seq(WireItem))'
    BY <1>3, Untouched DEF responseVars, sendVars
  <2>2. PlaceTypes'
    BY <1>1, <1>3 DEF PlaceTypes, Points
  <2>3. DataTypes'
    <3>1. kind' \in Kinds /\ (pc' \in {"app", "wait"} => rest' = 0)
      BY <1>1, <1>3 DEF DataTypes
    <3>2. /\ buffer' \in [1..BufferSize -> 0..MaxLength]
          /\ localPos' \in 0..BufferSize /\ position' \in 0..MaxLength
      <4>1. ASSUME NEW n \in Nat, n <= BufferSize - localPos, Fill(n)
            PROVE  /\ buffer' \in [1..BufferSize -> 0..MaxLength]
                   /\ localPos' \in 0..BufferSize /\ position' \in 0..MaxLength
        <5>1. position + n <= MaxLength
          BY <1>3, <4>1 DEF Fill
        <5> QED
          BY <1>1, <4>1, <5>1, FillTyped
      <4>2. UNCHANGED <<buffer, localPos, position>> =>
              /\ buffer' \in [1..BufferSize -> 0..MaxLength]
              /\ localPos' \in 0..BufferSize /\ position' \in 0..MaxLength
        BY <1>1 DEF DataTypes, BufferTyped
      <4> QED
        BY <1>3, <4>1, <4>2
    <3> QED
      BY <1>3, <3>1, <3>2 DEF DataTypes, BufferTyped
  <2> QED
    BY <2>1, <2>2, <2>3, TypesAreNext
<1>4. ASSUME NEW n \in Writes, Write(n) PROVE Types'
  <2>1. n \in Nat /\ position + n <= MaxLength /\ pc = "app" /\ rest = 0
    BY <1>2, <1>4, ResponseAssumption DEF Write
  <2>2. UNCHANGED <<kind, responseVars, keepAlive, sendVars, wire, outcome, strays>>
    BY <1>4 DEF Write
  <2>3. CASE n <= BufferSize - localPos
    <3>1. Fill(n) /\ UNCHANGED <<rest, pc>> /\ position' = position + n
      BY <1>4, <2>3 DEF Write, Fill
    <3>2. /\ rest' \in 0..MaxLength /\ position' + rest' <= MaxLength /\ position' <= MaxLength
          /\ pc' = "app" /\ rest' = 0
      BY <1>2, <2>1, <3>1
    <3> QED
      BY <1>3, <2>1, <2>2, <2>3, <3>1, <3>2
  <2>4. CASE ~(n <= BufferSize - localPos)
    <3>1. rest' = n /\ pc' = "overflow" /\ UNCHANGED <<buffer, localPos, position>>
      BY <1>4, <2>4 DEF Write
    <3>2. rest' \in 0..MaxLength /\ position' + rest' <= MaxLength /\ position' <= MaxLength
      BY <1>2, <2>1, <3>1
    <3> QED
      BY <1>3, <2>2, <3>1, <3>2
  <2> QED
    BY <2>3, <2>4
<1>5. ASSUME OverflowFill PROVE Types'
  <2> DEFINE n == IF rest < BufferSize - localPos THEN rest ELSE BufferSize - localPos
  <2>1. n \in Nat /\ n <= rest /\ n <= BufferSize - localPos
    BY <1>2
  <2>2. /\ Fill(n) /\ rest' = rest - n
        /\ pc' = IF rest = n THEN "app" ELSE "overflow"
        /\ UNCHANGED <<kind, responseVars, keepAlive, sendVars, wire, outcome, strays>>
    BY <1>5 DEF OverflowFill
  <2> HIDE DEF n
  <2>3. position' = position + n
    BY <2>2 DEF Fill
  <2>4. /\ rest' \in 0..MaxLength /\ position' + rest' <= MaxLength /\ position' <= MaxLength
        /\ (pc' = "app" => rest' = 0)
    BY <1>2, <2>1, <2>2, <2>3
  <2> QED
    BY <1>3, <2>1, <2>2, <2>4
<1>6. ASSUME NEW items \in Seq(Item), InBuffer(items), NEW to \in {"app", "overflowFlushed"},
             WriteAsync(items, to), localPos' \in 0..BufferSize, position' \in 0..MaxLength,
             rest' \in 0..MaxLength, position' + rest' <= MaxLength, to = "app" => rest' = 0
      PROVE  Types'
  <2>1. /\ FlagTypes' /\ SendTypes' /\ (wire \in Seq(WireItem))' /\ PlaceTypes'
        /\ UNCHANGED <<kind, buffer>> /\ pc' \in {"throwing", to, Waiting(to)}
    BY <1>6, WriteTyped
  <2>2. pc' \in {"app", "wait"} => rest' = 0
    BY <1>6, <2>1 DEF Waiting
  <2>3. DataTypes'
    BY <1>1, <1>6, <2>1, <2>2 DEF DataTypes, BufferTyped
  <2> QED
    BY <2>1, <2>3, TypesAreNext
<1>7. Cells(localPos) \in Seq(Item) /\ InBuffer(Cells(localPos))
  BY <1>2, CellsAreItems
<1>8. ASSUME Flush \/ OverflowFlush PROVE Types'
  <2>1. PICK to \in {"app", "overflowFlushed"} : FlushAsyncCore(to) /\ (to = "app" => rest = 0)
    BY <1>2, <1>8 DEF Flush, OverflowFlush
  <2>2. localPos' = 0 /\ UNCHANGED <<position, rest>> /\ WriteAsync(Cells(localPos), to)
    BY <2>1 DEF FlushAsyncCore
  <2> QED
    BY <1>1, <1>2, <1>6, <1>7, <2>1, <2>2 DEF DataTypes
<1>9. ASSUME DirectWrite PROVE Types'
  <2>1. /\ position' = position + rest /\ rest' = 0 /\ localPos' = localPos
        /\ WriteAsync(Bytes(position, rest), "app")
    BY <1>9 DEF DirectWrite
  <2>2. Bytes(position, rest) \in Seq(Item) /\ InBuffer(Bytes(position, rest))
    BY <1>2, BytesAreItems
  <2> QED
    BY <1>1, <1>2, <1>6, <2>1, <2>2 DEF DataTypes
<1> QED
  BY <1>4, <1>5, <1>8, <1>9


(* The cells that are still in the buffer.                                  *)
LEMMA RemainderTyped ==
    ASSUME DataTypes, NEW body, body \in {<<>>, Cells(localPos)}
    PROVE  /\ body \in Seq(Item) /\ InBuffer(body)
           /\ WrapInChunk(body) \in Seq(Item) /\ InBuffer(WrapInChunk(body))
<1>1. localPos \in Nat /\ localPos <= BufferSize
  BY KindTyped DEF DataTypes
<1>2. body \in Seq(Item) /\ InBuffer(body)
  BY <1>1, CellsAreItems, EmptyTyped
<1> QED
  BY <1>2, WrapIsItems

LEMMA ZeroTyped ==
    ASSUME NEW items \in Seq(Item), InBuffer(items)
    PROVE  /\ AppendZeroChunk(items) \in Seq(Item) /\ InBuffer(AppendZeroChunk(items))
           /\ Joins(AppendZeroChunk(items), items, <<Just("zero")>>)
<1> DEFINE z == Just("zero")
<1>1. z \in Item /\ z.is # "cell"
  BY JustIsItem
<1>2. AppendZeroChunk(items) = Append(items, z)
  BY DEF AppendZeroChunk
<1> HIDE DEF z
<1>3. /\ Append(items, z) \in Seq(Item) /\ Len(Append(items, z)) = Len(items) + 1
      /\ \A i \in 1..Len(items) : Append(items, z)[i] = items[i]
      /\ Append(items, z)[Len(items) + 1] = z
  BY <1>1, AppendProperties
<1>4. Len(<<z>>) = 1 /\ <<z>>[1] = z
  OBVIOUS
<1>5. Joins(Append(items, z), items, <<z>>)
  BY <1>3, <1>4 DEF Joins
<1>6. InBuffer(Append(items, z))
  <2>1. ASSUME NEW j \in 1..(Len(items) + 1), Append(items, z)[j].is = "cell"
        PROVE  Append(items, z)[j].n \in 1..BufferSize
    <3>1. j # Len(items) + 1
      BY <1>1, <1>3, <2>1
    <3>2. j \in 1..Len(items) /\ Append(items, z)[j] = items[j]
      BY <1>3, <3>1
    <3> QED
      BY <2>1, <3>2 DEF InBuffer
  <2> QED
    BY <1>3, <2>1 DEF InBuffer
<1> QED
  BY <1>2, <1>3, <1>5, <1>6 DEF z

(* What the handler sends when the application has ended.                   *)
Ended(what, items) ==
    \/ SendLast(what, items)
    \/ UNCHANGED sendVars

LEMMA EndedTypes ==
    ASSUME Types, NEW items \in Seq(Item), InBuffer(items), NEW what \in {"last", "error"},
           Ended(what, items), headersSent' \in BOOLEAN, chunked' \in BOOLEAN,
           keepAlive' \in BOOLEAN, UNCHANGED <<kind, streamVars, wire, strays>>,
           outcome' \in {outcome, "closed"}, pc' \in {"finished", "throwing", "lost"}
    PROVE  Types'
<1>1. DataTypes /\ FlagTypes /\ SendTypes /\ wire \in Seq(WireItem) /\ PlaceTypes
  BY TypesAre
<1>2. SendTypes' /\ sending' \in BOOLEAN /\ lastPacket' \in BOOLEAN
  <2>1. CASE SendLast(what, items)
    BY <1>1, <2>1, SendLastTyped
  <2>2. CASE UNCHANGED sendVars
    BY <1>1, <2>2 DEF sendVars, SendTypes, FlagTypes, InBuffer
  <2> QED
    BY <2>1, <2>2 DEF Ended
<1>3. FlagTypes' /\ (wire \in Seq(WireItem))'
  BY <1>1, <1>2 DEF FlagTypes
<1>4. PlaceTypes'
  BY <1>1 DEF PlaceTypes, Points
<1>5. DataTypes'
  BY Untouched
<1> QED
  BY <1>2, <1>3, <1>4, <1>5, TypesAreNext

LEMMA EndTypes ==
    ASSUME Types
    PROVE  FinishWhole \/ FinishStarted \/ FaultedResponseFinished => Types'
<1>1. DataTypes /\ FlagTypes /\ SendTypes /\ wire \in Seq(WireItem) /\ PlaceTypes
  BY TypesAre
<1>2. /\ kind.declared \in Nat \cup {Unknown} /\ kind.http10 \in BOOLEAN
      /\ position \in Nat /\ headersSent \in BOOLEAN /\ chunked \in BOOLEAN
      /\ keepAlive \in BOOLEAN
  BY <1>1, KindTyped DEF FlagTypes
<1> DEFINE oops == <<Just("error")>>
<1>3. oops \in Seq(Item) /\ InBuffer(oops)
  BY JustTyped
<1>4. SendInternalServerError => Ended("error", oops) /\ keepAlive' \in BOOLEAN
  BY <1>2 DEF SendInternalServerError, Ended
<1> HIDE DEF oops
<1>5. ASSUME FinishWhole PROVE Types'
  <2> DEFINE body == IF kind.head THEN <<>> ELSE Cells(localPos)
             length == IF kind.head THEN kind.declared ELSE position
             all == OptimallyMerge(body, length)
  <2>1. body \in Seq(Item) /\ InBuffer(body)
    BY <1>1, RemainderTyped
  <2>2. length \in Nat \cup {Unknown}
    BY <1>2
  <2>3. all \in Seq(Item) /\ InBuffer(all)
    <3> HIDE DEF body, length
    <3> QED
      BY <1>1, <2>1, <2>2, MergeIsItems DEF DataTypes
  <2>4. SendWhole => /\ Ended("last", all) /\ headersSent' \in BOOLEAN
                     /\ chunked' \in BOOLEAN /\ keepAlive' \in BOOLEAN
    <3>1. SendWhole => SendLast("last", all) /\ headersSent' \in BOOLEAN
      BY DEF SendWhole
    <3>2. SendWhole => chunked' \in BOOLEAN /\ keepAlive' \in BOOLEAN
      BY <1>2 DEF SendWhole
    <3> QED
      BY <3>1, <3>2 DEF Ended
  <2> HIDE DEF all
  <2>5. /\ UNCHANGED <<kind, streamVars, wire, outcome, strays>>
        /\ pc' \in {"finished", "lost", "throwing"}
        /\ \/ SendWhole
           \/ SendInternalServerError /\ UNCHANGED responseVars
           \/ UNCHANGED <<responseVars, keepAlive, sendVars>>
    <3>1. kind.headers \in {"fit", "long", "throw"}
      BY <1>1, KindTyped DEF Kind
    <3> QED
      BY <1>5, <3>1 DEF FinishWhole
  <2>6. CASE SendWhole
    BY <2>3, <2>4, <2>5, <2>6, EndedTypes
  <2>7. CASE SendInternalServerError /\ UNCHANGED responseVars
    BY <1>2, <1>3, <1>4, <2>5, <2>7, EndedTypes DEF responseVars
  <2>8. CASE UNCHANGED <<responseVars, keepAlive, sendVars>>
    BY <1>2, <2>3, <2>5, <2>8, EndedTypes DEF responseVars, Ended
  <2> QED
    BY <2>5, <2>6, <2>7, <2>8
<1>6. ASSUME FinishStarted PROVE Types'
  <2> DEFINE body == IF kind.head THEN <<>> ELSE Cells(localPos)
             wrapped == IF body = <<>> THEN <<>> ELSE WrapInChunk(body)
             all == IF chunked THEN AppendZeroChunk(wrapped) ELSE body
  <2>1. /\ body \in Seq(Item) /\ InBuffer(body)
        /\ WrapInChunk(body) \in Seq(Item) /\ InBuffer(WrapInChunk(body))
    BY <1>1, RemainderTyped
  <2>2. wrapped \in Seq(Item) /\ InBuffer(wrapped)
    <3> HIDE DEF body
    <3> QED
      BY <2>1, EmptyTyped
  <2>3. all \in Seq(Item) /\ InBuffer(all)
    <3> HIDE DEF body, wrapped
    <3> QED
      BY <2>1, <2>2, ZeroTyped
  <2>4. /\ UNCHANGED <<kind, streamVars, responseVars, keepAlive, wire, strays>>
        /\ pc' = "finished" /\ Ended("last", all) /\ outcome' \in {outcome, "closed"}
    BY <1>6 DEF FinishStarted, Ended, Close
  <2> HIDE DEF all
  <2> QED
    BY <1>2, <2>3, <2>4, EndedTypes DEF responseVars
<1>7. ASSUME FaultedResponseFinished PROVE Types'
  <2>1. /\ UNCHANGED <<kind, streamVars, responseVars, wire, strays>>
        /\ pc' = "finished" /\ outcome' \in {outcome, "closed"}
        /\ Ended("error", oops) /\ keepAlive' \in BOOLEAN
    <3>1. CASE headersSent
      BY <1>7, <3>1 DEF FaultedResponseFinished, Ended, Close
    <3>2. CASE ~headersSent
      BY <1>4, <1>7, <3>2 DEF FaultedResponseFinished
    <3> QED
      BY <3>1, <3>2
  <2> QED
    BY <1>2, <1>3, <2>1, EndedTypes DEF responseVars
<1> QED
  BY <1>5, <1>6, <1>7

LEMMA AskTypes ==
    ASSUME Types PROVE Send100Continue \/ AppThrows => Types'
<1>1. DataTypes /\ FlagTypes /\ SendTypes /\ wire \in Seq(WireItem) /\ PlaceTypes
  BY TypesAre
<1> DEFINE interim == <<Just("continue")>>
<1>2. interim \in Seq(Item) /\ InBuffer(interim)
  BY JustTyped
<1>3. ASSUME Send100Continue PROVE Types'
  <2>1. /\ UNCHANGED <<kind, streamVars, responseVars, keepAlive, next, lastPacket, wire, outcome>>
        /\ tcsSend' = "unawaited" /\ strays' \in {strays, strays \cup {"interim"}}
        /\ \/ pc' = "throwing" /\ UNCHANGED <<sending, out>>
           \/ sending' = TRUE /\ out' = interim /\ pc' = pc
        /\ pc = "app"
    BY <1>3 DEF Send100Continue, StartSend
  <2> HIDE DEF interim
  <2>2. SendTypes' /\ sending' \in BOOLEAN
    BY <1>1, <1>2, <2>1 DEF SendTypes, FlagTypes, InBuffer
  <2>3. FlagTypes' /\ (wire \in Seq(WireItem))'
    BY <1>1, <2>1, <2>2 DEF FlagTypes, responseVars
  <2>4. PlaceTypes'
    BY <1>1, <2>1 DEF PlaceTypes, Points
  <2>5. DataTypes'
    <3>1. rest = 0
      BY <1>1, <2>1 DEF DataTypes
    <3> QED
      BY <2>1, <3>1, Untouched
  <2> QED
    BY <2>2, <2>3, <2>4, <2>5, TypesAreNext
<1>4. ASSUME AppThrows PROVE Types'
  <2>1. /\ UNCHANGED <<kind, streamVars, responseVars, keepAlive, sendVars, wire, outcome, strays>>
        /\ pc' = "throwing"
    BY <1>4 DEF AppThrows
  <2>2. PlaceTypes'
    BY <1>1, <2>1 DEF PlaceTypes, Points
  <2> QED
    BY <2>1, <2>2, Untouched, TypesAreNext DEF responseVars, sendVars
<1> QED
  BY <1>3, <1>4

(* Where what awaits a send goes on.                                        *)
LEMMA ResumedAt ==
    ASSUME NEW to, to \in {Resumed, Failed}, Resume(to)
    PROVE  \/ pc' = pc
           \/ tcsSend = "awaited" /\ pc \in Waits /\ to = Failed /\ pc' = "throwing"
           \/ tcsSend = "awaited" /\ pc = "wait" /\ to = Resumed /\ pc' = "app"
           \/ tcsSend = "awaited" /\ pc = "waitOverflow" /\ to = Resumed /\ pc' = "overflowFlushed"
  BY DEF Resume, Resumed, Failed, Waits

LEMMA ResolvedLeaves ==
    ASSUME BufferTyped, NEW items \in Seq(Item), InBuffer(items)
    PROVE  Resolve(items) \in Seq(WireItem)
<1>1. /\ Resolve(items) \in Seq(Item)
      /\ \A i \in DOMAIN Resolve(items) : Resolve(items)[i].is # "cell"
  BY ResolveItems
<1>2. \A i \in 1..Len(Resolve(items)) : Resolve(items)[i] \in WireItem
  BY <1>1, ElementOfSeq DEF WireItem
<1> QED
  BY <1>1, <1>2

LEMMA AnswerTypes ==
    ASSUME Types PROVE FinishSend \/ FinishSendFailed => Types'
<1>1. DataTypes /\ FlagTypes /\ SendTypes /\ wire \in Seq(WireItem) /\ PlaceTypes
  BY TypesAre
<1>2. ASSUME sending' = FALSE, out' = <<>>, tcsSend' = "none", keepAlive' \in BOOLEAN,
             NEW to, to \in {Resumed, Failed}, Resume(to), NEW alive, FinishLast(alive),
             UNCHANGED <<kind, streamVars, responseVars, next, strays>>
      PROVE  FlagTypes' /\ SendTypes' /\ PlaceTypes' /\ DataTypes'
  <2>1. lastPacket' \in BOOLEAN /\ outcome' \in {outcome, "reused", "closed"}
    BY <1>1, <1>2 DEF FinishLast, FlagTypes
  <2>2. FlagTypes'
    BY <1>1, <1>2, <2>1 DEF FlagTypes, responseVars
  <2>3. SendTypes'
    BY <1>1, <1>2, EmptyTyped DEF SendTypes, InBuffer
  <2>4. pc' \in {pc, "throwing", "overflowFlushed"} \/ (pc = "wait" /\ pc' = "app")
    BY <1>2, ResumedAt DEF Waits
  <2>5. PlaceTypes'
    BY <1>1, <1>2, <2>1, <2>4 DEF PlaceTypes, Points
  <2>6. pc' \in {"app", "wait"} => rest = 0
    BY <1>1, <2>4 DEF DataTypes
  <2>7. DataTypes'
    BY <1>2, <2>6, Untouched
  <2> QED
    BY <2>2, <2>3, <2>5, <2>7
<1>3. ASSUME FinishSend PROVE Types'
  <2>1. FlagTypes' /\ SendTypes' /\ PlaceTypes' /\ DataTypes'
    <3>1. Resume(Resumed) /\ FinishLast(keepAlive) /\ keepAlive' = keepAlive
      BY <1>3 DEF FinishSend
    <3>2. /\ sending' = FALSE /\ out' = <<>> /\ tcsSend' = "none"
          /\ UNCHANGED <<kind, streamVars, responseVars, next, strays>>
      BY <1>3 DEF FinishSend
    <3>3. keepAlive' \in BOOLEAN
      BY <1>1, <3>1 DEF FlagTypes
    <3> QED
      BY <1>2, <3>1, <3>2, <3>3
  <2>2. (wire \in Seq(WireItem))'
    <3>1. wire' = wire \o Resolve(out)
      BY <1>3 DEF FinishSend
    <3>2. Resolve(out) \in Seq(WireItem)
      BY <1>1, ResolvedLeaves DEF DataTypes, SendTypes
    <3> QED
      BY <1>1, <3>1, <3>2, ConcatProperties
  <2> QED
    BY <2>1, <2>2, TypesAreNext
<1>4. ASSUME FinishSendFailed PROVE Types'
  <2>1. FlagTypes' /\ SendTypes' /\ PlaceTypes' /\ DataTypes'
    <3>1. Resume(Failed) /\ FinishLast(FALSE) /\ keepAlive' = FALSE
      BY <1>4 DEF FinishSendFailed
    <3>2. /\ sending' = FALSE /\ out' = <<>> /\ tcsSend' = "none"
          /\ UNCHANGED <<kind, streamVars, responseVars, next, strays>>
      BY <1>4 DEF FinishSendFailed
    <3> QED
      BY <1>2, <3>1, <3>2
  <2>2. (wire \in Seq(WireItem))'
    BY <1>1, <1>4 DEF FinishSendFailed
  <2> QED
    BY <2>1, <2>2, TypesAreNext
<1> QED
  BY <1>3, <1>4

LEMMA ContinueTypes ==
    ASSUME Types PROVE ContinueFlush \/ ContinueLast => Types'
<1>1. DataTypes /\ FlagTypes /\ SendTypes /\ wire \in Seq(WireItem) /\ PlaceTypes
  BY TypesAre
<1>2. next.items \in Seq(Item) /\ InBuffer(next.items)
  BY <1>1 DEF SendTypes, Nexts
<1> DEFINE items == next.items
<1>3. ASSUME tcsSend' \in {"none", "awaited", "unawaited"}, sending' = TRUE, out' = items,
             next' = NoNext
      PROVE  SendTypes' /\ sending' \in BOOLEAN
  <2> HIDE DEF items
  <2>1. out' \in Seq(Item) /\ InBuffer(out)'
    BY <1>2, <1>3 DEF items, InBuffer
  <2>2. next' \in Nexts /\ InBuffer(next.items)'
    BY <1>3, NoNextTyped DEF InBuffer
  <2> QED
    BY <1>3, <2>1, <2>2 DEF SendTypes
<1>4. ASSUME ContinueFlush PROVE Types'
  <2>1. /\ UNCHANGED <<kind, streamVars, responseVars, keepAlive, lastPacket, wire, outcome>>
        /\ strays' = strays \cup {"early"}
        /\ \/ pc = "wait" /\ pc' = "app"
           \/ pc' = "overflowFlushed"
    BY <1>4 DEF ContinueFlush, Resumed
  <2>2. SendTypes' /\ sending' \in BOOLEAN
    BY <1>1, <1>3, <1>4 DEF ContinueFlush, StartSend, SendTypes
  <2>3. FlagTypes' /\ (wire \in Seq(WireItem))'
    BY <1>1, <2>1, <2>2 DEF FlagTypes, responseVars
  <2>4. PlaceTypes'
    BY <1>1, <2>1 DEF PlaceTypes, Points
  <2>5. pc' \in {"app", "wait"} => rest = 0
    BY <1>1, <2>1 DEF DataTypes
  <2> QED
    BY <2>1, <2>2, <2>3, <2>4, <2>5, Untouched, TypesAreNext
<1>5. ASSUME ContinueLast PROVE Types'
  <2>1. /\ UNCHANGED <<kind, streamVars, responseVars, tcsSend, wire, pc, outcome, strays>>
        /\ lastPacket' = TRUE /\ keepAlive' \in BOOLEAN
    BY <1>1, <1>5 DEF ContinueLast, FlagTypes
  <2>2. SendTypes' /\ sending' \in BOOLEAN
    BY <1>1, <1>3, <1>5 DEF ContinueLast, StartSend, SendTypes
  <2>3. FlagTypes'
    BY <1>1, <2>1, <2>2 DEF FlagTypes, responseVars
  <2>4. pc' \in {"app", "wait"} => rest = 0
    BY <1>1, <2>1 DEF DataTypes
  <2> QED
    BY <2>1, <2>2, <2>3, <2>4, Untouched, TypesAreNext
<1> QED
  BY <1>4, <1>5

LEMMA TypesNext ==
    ASSUME Types, [Next]_vars PROVE Types'
<1>1. CASE Next
  <2>1. (\E n \in Writes : Write(n)) \/ Flush \/ OverflowFlush \/ DirectWrite \/ OverflowFill
        => Types'
    BY AppTypes
  <2>2. /\ Send100Continue \/ AppThrows => Types'
        /\ FinishWhole \/ FinishStarted \/ FaultedResponseFinished => Types'
        /\ FinishSend \/ FinishSendFailed => Types'
        /\ ContinueFlush \/ ContinueLast => Types'
    BY AskTypes, EndTypes, AnswerTypes, ContinueTypes
  <2> QED
    BY <1>1, <2>1, <2>2 DEF Next, Application, Sends
<1>2. CASE UNCHANGED vars
  <2>1. DataTypes /\ FlagTypes /\ SendTypes /\ wire \in Seq(WireItem) /\ PlaceTypes
    BY TypesAre
  <2>2. pc' \in {"app", "wait"} => rest = 0
    BY <1>2, <2>1 DEF vars, DataTypes
  <2> QED
    BY <1>2, <2>2, Untouched, TypesAreNext DEF vars, responseVars, sendVars
<1> QED
  BY <1>1, <1>2

----------------------------------------------------------------------------
(* Who waits for what                                                      *)

(* An application that is not waiting has nothing chained.                  *)
LEMMA Calm ==
    ASSUME Types, Order, pc \notin Waits \cup {"finished"}
    PROVE  /\ next = NoNext /\ next.what = "nothing" /\ next.items = <<>>
           /\ tcsSend # "awaited" /\ ~lastPacket /\ outcome # "reused"
           /\ tcsSend = "none" <=> ~sending
           /\ ~sending => out = <<>>
<1>1. next.what \in {"nothing", "flush", "last", "error"}
  BY TypesAre DEF SendTypes, Nexts
<1>2. next.what = "nothing"
  BY <1>1 DEF Order
<1>3. next = NoNext /\ tcsSend # "awaited" /\ ~lastPacket /\ outcome # "reused"
  BY <1>2 DEF Order
<1>4. (tcsSend = "none" <=> ~sending) /\ (~sending => out = <<>>)
  BY <1>3 DEF Order
<1> QED
  BY <1>2, <1>3, <1>4, NoNextTyped

(* What leaves an application that is not waiting as it was.                *)
LEMMA OrderStays ==
    ASSUME Types, Order, pc \notin Waits \cup {"finished"},
           pc' \notin Waits \cup {"finished"}, UNCHANGED sendVars,
           pc' = "overflowFlushed" => headersSent' /\ localPos' = 0,
           outcome' \in {outcome, "closed"}
    PROVE  Order'
<1>1. /\ next = NoNext /\ tcsSend # "awaited" /\ ~lastPacket /\ outcome # "reused"
      /\ tcsSend = "none" <=> ~sending
      /\ ~sending => out = <<>>
  BY Calm
<1>2. /\ next' = next /\ tcsSend' = tcsSend /\ lastPacket' = lastPacket
      /\ sending' = sending /\ out' = out /\ outcome' # "reused"
  BY <1>1 DEF sendVars
<1>3. next'.what = "nothing"
  BY <1>1, <1>2 DEF NoNext
<1> QED
  BY <1>1, <1>2, <1>3 DEF Order

LEMMA OrderChains ==
    ASSUME Types, Order, pc \notin Waits \cup {"finished"}, NEW items, SendOrChain(items),
           pc' \in Waits, headersSent', localPos' = 0, UNCHANGED <<lastPacket, outcome>>
    PROVE  Order'
<1>1. /\ next = NoNext /\ next.what = "nothing"
      /\ tcsSend # "awaited" /\ ~lastPacket /\ outcome # "reused"
      /\ tcsSend = "none" <=> ~sending
      /\ ~sending => out = <<>>
  BY Calm
<1>2. pc' # "finished" /\ pc' # "overflowFlushed"
  BY DEF Waits
<1>3. CASE tcsSend # "none"
  <2> DEFINE n == [what |-> "flush", items |-> items]
  <2>1. next' = n /\ tcsSend' = tcsSend /\ sending' = sending /\ out' = out /\ n.what = "flush"
    BY <1>3 DEF SendOrChain
  <2> HIDE DEF n
  <2> QED
    BY <1>1, <1>2, <1>3, <2>1 DEF Order
<1>4. CASE tcsSend = "none"
  <2>1. next' = next /\ tcsSend' = "awaited" /\ sending' = TRUE
    BY <1>4 DEF SendOrChain, StartSend
  <2> QED
    BY <1>1, <1>2, <1>4, <2>1 DEF Order
<1> QED
  BY <1>3, <1>4

LEMMA OrderEnds ==
    ASSUME Types, Order, pc \notin Waits \cup {"finished"}, NEW items,
           NEW what \in {"last", "error"}, SendLast(what, items), pc' = "finished",
           outcome' \in {outcome, "closed"}
    PROVE  Order'
<1>1. /\ next = NoNext /\ next.what = "nothing"
      /\ tcsSend # "awaited" /\ ~lastPacket /\ outcome # "reused"
      /\ tcsSend = "none" <=> ~sending
      /\ ~sending => out = <<>>
  BY Calm
<1>2. pc' \notin Waits /\ outcome' # "reused"
  BY <1>1 DEF Waits
<1>3. CASE tcsSend # "none"
  <2> DEFINE n == [what |-> what, items |-> items]
  <2>1. /\ next' = n /\ tcsSend' = tcsSend /\ sending' = sending /\ out' = out /\ n.what = what
        /\ lastPacket' = lastPacket
    BY <1>3 DEF SendLast
  <2> HIDE DEF n
  <2> QED
    BY <1>1, <1>2, <1>3, <2>1 DEF Order
<1>4. CASE tcsSend = "none"
  <2>1. next' = next /\ tcsSend' = "none" /\ sending' = TRUE /\ lastPacket' = TRUE
    BY <1>4 DEF SendLast, StartSend
  <2> QED
    BY <1>1, <1>2, <1>4, <2>1 DEF Order
<1> QED
  BY <1>3, <1>4

LEMMA OrderWrites ==
    ASSUME Types, Order, pc \notin Waits \cup {"finished"}, NEW items,
           NEW to \in {"app", "overflowFlushed"}, WriteAsync(items, to), localPos' = 0
    PROVE  Order'
<1>1. UNCHANGED lastPacket /\ Waiting(to) \in Waits
  BY DEF WriteAsync, Waiting, Waits
<1>2. CASE WriteHead(items, to)
  <2> DEFINE body == IF kind.head THEN <<>> ELSE items
             framed == IF BecomesChunked /\ body # <<>> THEN WrapInChunk(body) ELSE body
             all == OptimallyMerge(framed, kind.declared)
  <2>1. \/ UNCHANGED sendVars /\ pc' = "throwing" /\ outcome' \in {outcome, "closed"}
        \/ /\ headersSent' /\ SendOrChain(all) /\ pc' = Waiting(to) /\ UNCHANGED outcome
    <3> HIDE DEF framed
    <3> QED
      BY <1>1, <1>2 DEF WriteHead, framed, sendVars, Close
  <2> HIDE DEF all
  <2>2. "throwing" \notin Waits \cup {"finished"}
    BY DEF Waits
  <2> QED
    BY <1>1, <2>1, <2>2, OrderStays, OrderChains
<1>3. CASE WriteBody(items, to)
  <2> DEFINE all == IF chunked THEN WrapInChunk(items) ELSE items
  <2>1. /\ headersSent'
        /\ \/ UNCHANGED sendVars /\ pc' \in {"throwing", to} /\ outcome' \in {outcome, "closed"}
           \/ SendOrChain(all) /\ pc' = Waiting(to) /\ UNCHANGED outcome
    BY <1>1, <1>3 DEF WriteBody, responseVars, sendVars, Close
  <2> HIDE DEF all
  <2>2. CASE UNCHANGED sendVars /\ pc' \in {"throwing", to} /\ outcome' \in {outcome, "closed"}
    <3>1. pc' \notin Waits \cup {"finished"}
      BY <2>2 DEF Waits
    <3> QED
      BY <2>1, <2>2, <3>1, OrderStays
  <2> QED
    BY <1>1, <2>1, <2>2, OrderChains
<1> QED
  BY <1>2, <1>3 DEF WriteAsync

LEMMA OrderInit == Init => Order
  BY DEF Init, Order, Waits, NoNext

LEMMA OrderNext ==
    ASSUME Types, Order, [Next]_vars PROVE Order'
<1> DEFINE Running == pc \notin Waits \cup {"finished"}
<1>1. next.what \in {"nothing", "flush", "last", "error"}
  BY TypesAre DEF SendTypes, Nexts
<1>2. pc \in {"app", "overflow", "overflowFlushed", "throwing"} => Running
  BY DEF Waits
<1>3. pc \in Waits \cup {"overflowFlushed"} => localPos = 0 /\ headersSent
  BY DEF Order
<1>4. ASSUME NEW n \in Writes, Write(n) PROVE Order'
  <2>1. /\ pc = "app" /\ UNCHANGED <<responseVars, sendVars, outcome>>
        /\ pc' \in {"app", "overflow"}
    BY <1>4 DEF Write
  <2> QED
    BY <1>2, <2>1, OrderStays DEF Waits
<1>5. ASSUME Flush \/ OverflowFlush PROVE Order'
  <2>1. PICK to \in {"app", "overflowFlushed"} : FlushAsyncCore(to)
    BY <1>5 DEF Flush, OverflowFlush
  <2>2. pc \in {"app", "overflow"}
    BY <1>5 DEF Flush, OverflowFlush
  <2> QED
    BY <1>2, <2>1, <2>2, OrderWrites DEF FlushAsyncCore
<1>6. ASSUME OverflowFill PROVE Order'
  <2>1. /\ pc \in {"overflow", "overflowFlushed"} /\ UNCHANGED <<responseVars, sendVars, outcome>>
        /\ pc' \in {"app", "overflow"}
    BY <1>6 DEF OverflowFill
  <2> QED
    BY <1>2, <2>1, OrderStays DEF Waits
<1>7. ASSUME DirectWrite PROVE Order'
  <2>1. pc = "overflowFlushed" /\ localPos' = localPos /\ WriteAsync(Bytes(position, rest), "app")
    BY <1>7 DEF DirectWrite
  <2>2. localPos' = 0
    BY <1>3, <2>1
  <2> QED
    BY <1>2, <2>1, <2>2, OrderWrites
<1>8. ASSUME Send100Continue PROVE Order'
  <2>1. pc = "app" /\ Running
    BY <1>2, <1>8 DEF Send100Continue
  <2>2. /\ next = NoNext /\ next.what = "nothing" /\ ~lastPacket /\ outcome # "reused"
        /\ tcsSend = "none" <=> ~sending
    BY <2>1, Calm
  <2>3. /\ tcsSend' = "unawaited" /\ UNCHANGED <<next, lastPacket, outcome>>
        /\ pc' \in {"app", "throwing"} /\ sending'
    BY <1>8, <2>1 DEF Send100Continue, StartSend
  <2> QED
    BY <2>2, <2>3 DEF Order, Waits
<1>9. ASSUME AppThrows PROVE Order'
  <2>1. pc = "app" /\ UNCHANGED <<sendVars, outcome>> /\ pc' = "throwing"
    BY <1>9 DEF AppThrows
  <2> QED
    BY <1>2, <2>1, OrderStays DEF Waits
<1> DEFINE oops == <<Just("error")>>
<1>10. SendInternalServerError => SendLast("error", oops)
  BY DEF SendInternalServerError
<1>11. ASSUME FinishWhole PROVE Order'
  <2> DEFINE body == IF kind.head THEN <<>> ELSE Cells(localPos)
             length == IF kind.head THEN kind.declared ELSE position
             all == OptimallyMerge(body, length)
  <2>1. SendWhole => SendLast("last", all)
    BY DEF SendWhole
  <2> HIDE DEF all, oops
  <2>2. kind.headers \in {"fit", "long", "throw"}
    BY TypesAre, KindTyped DEF Kind
  <2>3. /\ pc = "app" /\ UNCHANGED outcome
        /\ \/ SendWhole /\ pc' = "finished"
           \/ SendInternalServerError /\ pc' = "finished"
           \/ UNCHANGED sendVars /\ pc' \in {"lost", "throwing"}
    BY <1>11, <2>2 DEF FinishWhole
  <2>4. CASE pc' = "finished" /\ (SendLast("last", all) \/ SendLast("error", oops))
    BY <1>2, <2>3, <2>4, OrderEnds
  <2>5. CASE UNCHANGED sendVars /\ pc' \in {"lost", "throwing"}
    BY <1>2, <2>3, <2>5, OrderStays DEF Waits
  <2> QED
    BY <1>10, <2>1, <2>3, <2>4, <2>5
<1>12. ASSUME NEW items, NEW what \in {"last", "error"}, Running, pc' = "finished",
              SendLast(what, items) \/ UNCHANGED sendVars, outcome' \in {outcome, "closed"}
       PROVE  Order'
  <2>1. CASE UNCHANGED sendVars
    <3>1. /\ next = NoNext /\ next.what = "nothing" /\ ~lastPacket /\ outcome # "reused"
          /\ tcsSend # "awaited" /\ (tcsSend = "none" <=> ~sending) /\ (~sending => out = <<>>)
      BY <1>12, Calm
    <3>2. UNCHANGED <<tcsSend, next, sending, out, lastPacket>> /\ outcome' # "reused"
      BY <1>12, <2>1, <3>1 DEF sendVars
    <3> QED
      BY <1>12, <3>1, <3>2 DEF Order, Waits
  <2> QED
    BY <1>12, <2>1, OrderEnds
<1>13. ASSUME FinishStarted PROVE Order'
  <2> DEFINE body == IF kind.head THEN <<>> ELSE Cells(localPos)
             wrapped == IF body = <<>> THEN <<>> ELSE WrapInChunk(body)
             all == IF chunked THEN AppendZeroChunk(wrapped) ELSE body
  <2>1. /\ pc = "app" /\ pc' = "finished" /\ outcome' \in {outcome, "closed"}
        /\ SendLast("last", all) \/ UNCHANGED sendVars
    BY <1>13 DEF FinishStarted, Close
  <2> HIDE DEF all
  <2> QED
    BY <1>2, <1>12, <2>1
<1>14. ASSUME FaultedResponseFinished PROVE Order'
  <2>1. /\ pc = "throwing" /\ pc' = "finished" /\ outcome' \in {outcome, "closed"}
        /\ SendInternalServerError \/ UNCHANGED sendVars
    BY <1>14 DEF FaultedResponseFinished, Close
  <2> HIDE DEF oops
  <2> QED
    BY <1>2, <1>10, <1>12, <2>1
<1>15. ASSUME FinishSend \/ FinishSendFailed PROVE Order'
  <2>1. /\ sending /\ sending' = FALSE /\ out' = <<>> /\ tcsSend' = "none"
        /\ UNCHANGED <<streamVars, responseVars, next>>
    BY <1>15 DEF FinishSend, FinishSendFailed
  <2>2. PICK to \in {Resumed, Failed} : Resume(to)
    BY <1>15 DEF FinishSend, FinishSendFailed
  <2>3. \E alive : FinishLast(alive)
    BY <1>15 DEF FinishSend, FinishSendFailed
  <2>4. \/ ~lastPacket /\ ~lastPacket' /\ outcome' = outcome
        \/ lastPacket /\ lastPacket' = FALSE
    BY <2>3 DEF FinishLast
  <2>5. \/ pc' = pc
        \/ tcsSend = "awaited" /\ pc \in Waits /\ pc' \in {"throwing", "app", "overflowFlushed"}
    BY <2>2, ResumedAt DEF Waits
  <2>6. tcsSend = "awaited" \/ lastPacket => next = NoNext
    BY DEF Order
  <2>7. /\ localPos' = localPos /\ headersSent' = headersSent /\ next' = next
        /\ outcome # "reused"
    BY <2>1 DEF streamVars, responseVars, Order
  <2>8. NoNext.what = "nothing"
    BY DEF NoNext
  <2>9. CASE pc' = pc
    <3>1. tcsSend = "awaited" => FALSE
      <4> SUFFICES ASSUME tcsSend = "awaited" PROVE FALSE
        OBVIOUS
      <4>1. pc \in Waits
        BY DEF Order
      <4> QED
        BY <1>15, <2>9, <4>1 DEF FinishSend, FinishSendFailed, Resume, Resumed, Failed, Waits
    <3>2. outcome' = "reused" => pc = "finished" /\ next = NoNext
      BY <2>4, <2>7 DEF Order
    <3> QED
      BY <2>1, <2>4, <2>7, <2>9, <3>1, <3>2 DEF Order
  <2>10. CASE tcsSend = "awaited" /\ pc \in Waits /\ pc' \in {"throwing", "app", "overflowFlushed"}
    <3>1. ~lastPacket /\ outcome' = outcome /\ ~lastPacket' /\ next' = NoNext
      BY <2>4, <2>6, <2>7, <2>10 DEF Order
    <3>2. pc' \notin Waits /\ pc' # "finished"
      BY <2>10 DEF Waits
    <3> QED
      BY <2>1, <2>7, <2>8, <2>10, <3>1, <3>2 DEF Order
  <2> QED
    BY <2>5, <2>9, <2>10
<1>16. ASSUME ContinueFlush PROVE Order'
  <2>1. /\ next.what = "flush" /\ tcsSend' = "unawaited" /\ sending' = TRUE /\ next' = NoNext
        /\ UNCHANGED <<streamVars, responseVars, lastPacket, outcome>>
        /\ pc' \in {"app", "overflowFlushed"}
    BY <1>16 DEF ContinueFlush, StartSend, Resumed
  <2>2. NoNext.what = "nothing" /\ next # NoNext
    BY <2>1 DEF NoNext
  <2>3. pc \in Waits /\ ~lastPacket /\ outcome # "reused" /\ localPos = 0 /\ headersSent
    BY <2>1, <2>2 DEF Order
  <2>4. localPos' = 0 /\ headersSent' /\ pc' \notin Waits /\ pc' # "finished"
    BY <2>1, <2>3 DEF streamVars, responseVars, Waits
  <2> QED
    BY <2>1, <2>2, <2>3, <2>4 DEF Order
<1>17. ASSUME ContinueLast PROVE Order'
  <2>1. /\ next.what \in {"last", "error"} /\ tcsSend = "none" /\ tcsSend' = tcsSend
        /\ sending' = TRUE /\ next' = NoNext /\ lastPacket' = TRUE
        /\ UNCHANGED <<pc, outcome>>
    BY <1>17 DEF ContinueLast, StartSend
  <2>2. NoNext.what = "nothing" /\ next # NoNext
    BY <2>1 DEF NoNext
  <2>3. pc = "finished" /\ outcome # "reused"
    BY <2>1, <2>2 DEF Order
  <2> QED
    BY <2>1, <2>2, <2>3 DEF Order, Waits
<1>18. ASSUME UNCHANGED vars PROVE Order'
  BY <1>18 DEF vars, streamVars, responseVars, sendVars, Order
<1> QED
  BY <1>4, <1>5, <1>6, <1>7, <1>8, <1>9, <1>11, <1>13, <1>14, <1>15, <1>16, <1>17, <1>18
  DEF Next, Application, Sends

----------------------------------------------------------------------------
(* The buffer holds the last bytes that were written                       *)

LEMMA FillBuffers ==
    ASSUME Types, Buffered, NEW n \in Nat, n <= BufferSize - localPos, Fill(n)
    PROVE  Buffered'
<1>1. /\ localPos \in Nat /\ position \in Nat /\ BufferSize \in Nat
      /\ DOMAIN buffer = 1..BufferSize /\ localPos <= BufferSize /\ localPos <= position
  BY TypesAre, KindTyped DEF DataTypes, BufferTyped, Buffered
<1>2. localPos' = localPos + n /\ position' = position + n /\ localPos' <= position'
  BY <1>1 DEF Fill
<1>3. ASSUME NEW i \in 1..(localPos + n) PROVE buffer'[i] = position - localPos + i
  <2>1. i \in DOMAIN buffer
    BY <1>1, <1>3
  <2>2. CASE i > localPos
    <3>1. i \in (localPos + 1)..(localPos + n)
      BY <1>1, <1>3, <2>2
    <3>2. buffer'[i] = position + i - localPos
      BY <2>1, <3>1 DEF Fill
    <3> QED
      BY <1>1, <1>3, <3>2
  <2>3. CASE ~(i > localPos)
    <3>1. i \notin (localPos + 1)..(localPos + n) /\ i \in 1..localPos
      BY <1>1, <1>3, <2>3
    <3>2. buffer'[i] = buffer[i]
      BY <2>1, <3>1 DEF Fill
    <3> QED
      BY <3>1, <3>2 DEF Buffered
  <2> QED
    BY <2>2, <2>3
<1>4. position' - localPos' = position - localPos
  BY <1>1, <1>2
<1> QED
  BY <1>2, <1>3, <1>4 DEF Buffered

LEMMA BufferedInit == Init => Buffered
  BY DEF Init, Buffered

LEMMA BufferedNext ==
    ASSUME Types, Order, Buffered, [Next]_vars PROVE Buffered'
<1>1. localPos \in Nat /\ position \in Nat /\ rest \in Nat /\ BufferSize \in Nat
      /\ localPos <= BufferSize
  BY TypesAre, KindTyped DEF DataTypes
<1>2. UNCHANGED <<buffer, localPos, position>> => Buffered'
  BY DEF Buffered
<1>3. UNCHANGED streamVars => Buffered'
  BY DEF Buffered, streamVars
<1>4. ASSUME localPos' = 0, position' \in Nat PROVE Buffered'
  BY <1>4 DEF Buffered
<1>5. ASSUME NEW n \in Writes, Write(n) PROVE Buffered'
  <2>1. n \in Nat
    BY ResponseAssumption
  <2> QED
    BY <1>2, <1>5, <2>1, FillBuffers DEF Write
<1>6. ASSUME OverflowFill PROVE Buffered'
  <2> DEFINE n == IF rest < BufferSize - localPos THEN rest ELSE BufferSize - localPos
  <2>1. n \in Nat /\ n <= BufferSize - localPos
    BY <1>1
  <2>2. Fill(n)
    BY <1>6 DEF OverflowFill
  <2> HIDE DEF n
  <2> QED
    BY <2>1, <2>2, FillBuffers
<1>7. ASSUME Flush \/ OverflowFlush PROVE Buffered'
  BY <1>1, <1>4, <1>7 DEF Flush, OverflowFlush, FlushAsyncCore
<1>8. ASSUME DirectWrite PROVE Buffered'
  <2>1. localPos' = localPos /\ position' = position + rest /\ buffer' = buffer
    BY <1>8 DEF DirectWrite, WriteAsync
  <2>2. pc = "overflowFlushed"
    BY <1>8 DEF DirectWrite
  <2>3. localPos = 0
    BY <2>2 DEF Order
  <2> QED
    BY <1>1, <1>4, <2>1, <2>3
<1>9. Send100Continue \/ AppThrows \/ FinishWhole \/ FinishStarted \/ FaultedResponseFinished
      \/ Sends \/ ContinueFlush \/ ContinueLast => UNCHANGED streamVars
  BY DEF Send100Continue, AppThrows, FinishWhole, FinishStarted, FaultedResponseFinished,
         Sends, FinishSend, FinishSendFailed, ContinueFlush, ContinueLast
<1>10. UNCHANGED vars => UNCHANGED streamVars
  BY DEF vars, streamVars
<1> QED
  BY <1>3, <1>5, <1>6, <1>7, <1>8, <1>9, <1>10 DEF Next, Application

----------------------------------------------------------------------------
(* What a send adds                                                        *)

LEMMA SentTyped ==
    ASSUME Types
    PROVE  /\ wire \in Seq(Item) /\ Resolve(out) \in Seq(Item) /\ Sent \in Seq(Item)
           /\ Joins(Sent, wire, Resolve(out))
           /\ out = <<>> => Sent = wire
           /\ Interim(out) => Interim(Resolve(out))
<1>1. wire \in Seq(WireItem) /\ out \in Seq(Item) /\ InBuffer(out) /\ BufferTyped
  BY TypesAre DEF SendTypes, DataTypes
<1>2. wire \in Seq(Item)
  BY <1>1 DEF WireItem
<1>3. /\ Resolve(out) \in Seq(Item) /\ Len(Resolve(out)) = Len(out)
      /\ DOMAIN Resolve(out) = DOMAIN out
      /\ \A i \in DOMAIN out : out[i].is # "cell" => Resolve(out)[i] = out[i]
  BY <1>1, ResolveItems
<1>4. Sent \in Seq(Item) /\ Joins(Sent, wire, Resolve(out))
  BY <1>2, <1>3, ConcatJoins DEF Sent
<1>5. ASSUME out = <<>> PROVE Sent = wire
  <2>1. Len(Resolve(out)) = 0
    BY <1>3, <1>5
  <2>2. Resolve(out) = <<>>
    BY <1>3, <2>1
  <2> QED
    BY <1>2, <2>2 DEF Sent
<1>6. Interim(out) => Interim(Resolve(out))
  BY <1>3 DEF Interim
<1> QED
  BY <1>2, <1>3, <1>4, <1>5, <1>6

LEMMA InterimJoins ==
    ASSUME NEW s \in Seq(Item), NEW t \in Seq(Item), NEW u \in Seq(Item), Joins(u, s, t),
           Interim(s), Interim(t)
    PROVE  Interim(u)
<1>1. ASSUME NEW j \in DOMAIN u PROVE u[j].is = "continue"
  <2>1. \/ j \in DOMAIN s /\ u[j] = s[j]
        \/ \E k \in DOMAIN t : j = Len(s) + k /\ u[j] = t[k]
    BY PlaceOf
  <2> QED
    BY <2>1 DEF Interim
<1> QED
  BY <1>1 DEF Interim

LEMMA NotEndedJoins ==
    ASSUME NEW s \in Seq(Item), NEW t \in Seq(Item), NEW u \in Seq(Item), Joins(u, s, t),
           NotEnded(s), NotEnded(t)
    PROVE  NotEnded(u)
<1>1. ASSUME NEW j \in DOMAIN u PROVE u[j].is \notin {"zero", "error"}
  <2>1. \/ j \in DOMAIN s /\ u[j] = s[j]
        \/ \E k \in DOMAIN t : j = Len(s) + k /\ u[j] = t[k]
    BY PlaceOf
  <2> QED
    BY <2>1 DEF NotEnded
<1> QED
  BY <1>1 DEF NotEnded

(* Before the head no byte of the body has left.                            *)
LEMMA EarlySent ==
    ASSUME Types, Early
    PROVE  /\ Interim(Sent) /\ Framed(Sent) /\ NotEnded(Sent) /\ HasBody(Sent, 0)
           /\ \A n \in Nat : HasBody(Sent, n) => n = 0
<1>1. Interim(Sent)
  BY SentTyped, InterimJoins DEF Early
<1>2. \A n \in Nat : HasBody(Sent, n) => n = 0
  BY <1>1 DEF HasBody, Interim, IsByte
<1> QED
  BY <1>1, <1>2, SentTyped, FramedInterim

(* A head in front of a piece of the body, behind interim responses.        *)
LEMMA HeadInFront ==
    ASSUME NEW s \in Seq(Item), Interim(s), NEW head \in Item, head.is = "head",
           NEW r \in Seq(Item), NEW q \in Seq(Item), Joins(q, <<head>>, r),
           NEW to \in Nat, Piece(head, r, 0, to), NEW u \in Seq(Item), Joins(u, s, q)
    PROVE  /\ Framed(u) /\ HasBody(u, to)
           /\ \E i \in DOMAIN u : u[i] = head
           /\ NotEnded(r) => NotEnded(u)
<1> DEFINE a == s \o <<head>>
<1>1. <<head>> \in Seq(Item) /\ Len(<<head>>) = 1 /\ <<head>>[1] = head
  OBVIOUS
<1>2. a \in Seq(Item) /\ Joins(a, s, <<head>>)
  BY <1>1, ConcatJoins
<1> HIDE DEF a
<1>3. /\ Framed(a) /\ HasBody(a, 0) /\ NotEnded(a)
      /\ Len(s) + 1 \in DOMAIN a /\ a[Len(s) + 1] = head
  BY <1>2, FramedBegins
<1>4. Joins(u, a, r)
  <2>1. /\ Len(q) = 1 + Len(r) /\ q[1] = head /\ \A i \in 1..Len(r) : q[1 + i] = r[i]
    BY <1>1 DEF Joins
  <2>2. /\ Len(u) = Len(s) + Len(q) /\ \A i \in 1..Len(s) : u[i] = s[i]
        /\ \A i \in 1..Len(q) : u[Len(s) + i] = q[i]
    BY DEF Joins
  <2>3. Len(a) = Len(s) + 1 /\ \A i \in 1..Len(s) : a[i] = s[i]
    BY <1>1, <1>2 DEF Joins
  <2>4. Len(s) \in Nat /\ Len(r) \in Nat /\ Len(u) = Len(a) + Len(r)
    BY <2>1, <2>2, <2>3
  <2>5. ASSUME NEW i \in 1..Len(a) PROVE u[i] = a[i]
    <3>1. CASE i = Len(s) + 1
      <4>1. 1 \in 1..Len(q)
        BY <2>1, <2>4
      <4> QED
        BY <1>3, <2>1, <2>2, <3>1, <4>1
    <3>2. CASE i # Len(s) + 1
      <4>1. i \in 1..Len(s)
        BY <2>3, <2>4, <3>2
      <4> QED
        BY <2>2, <2>3, <4>1
    <3> QED
      BY <3>1, <3>2
  <2>6. ASSUME NEW i \in 1..Len(r) PROVE u[Len(a) + i] = r[i]
    <3>1. 1 + i \in 1..Len(q) /\ Len(a) + i = Len(s) + (1 + i)
      BY <2>1, <2>3, <2>4
    <3> QED
      BY <2>1, <2>2, <3>1
  <2> QED
    BY <2>4, <2>5, <2>6 DEF Joins
<1>5. 0 \in Nat /\ 0 <= to
  OBVIOUS
<1>6. /\ Framed(u) /\ HasBody(u, to)
      /\ Len(s) + 1 \in DOMAIN u /\ u[Len(s) + 1] = head
  <2> DEFINE h == Len(s) + 1
  <2>1. h \in DOMAIN a /\ a[h].is = "head" /\ Piece(a[h], r, 0, to)
    BY <1>3
  <2> HIDE DEF h
  <2>2. Framed(u) /\ HasBody(u, to) /\ h \in DOMAIN u /\ u[h] = a[h]
    BY <1>2, <1>3, <1>4, <1>5, <2>1, FramedJoins
  <2> QED
    BY <1>3, <2>2 DEF h
<1>7. NotEnded(r) => NotEnded(u)
  BY <1>2, <1>3, <1>4, NotEndedJoins
<1> QED
  BY <1>6, <1>7

(* Nothing more of the body.                                                *)
LEMMA NothingIsPiece ==
    ASSUME NEW head, NEW at \in Nat
    PROVE  Piece(head, <<>>, at, at) /\ NotEnded(<<>>) /\ Run(<<>>, at, 0)
<1>1. DOMAIN <<>> = {} /\ Len(<<>>) = 0
  OBVIOUS
<1> QED
  BY <1>1 DEF Piece, NotEnded, ChunksAsSized, WholeChunks, Run

(* Bytes in a row are a piece of the body, wrapped if the head says so.     *)
LEMMA FramingIsPiece ==
    ASSUME BufferTyped, NEW items \in Seq(Item), InBuffer(items),
           NEW from \in Nat, NEW n \in Nat, Run(Resolve(items), from, n), NEW head
    PROVE  /\ ~Chunked(head) => Piece(head, Resolve(items), from, from + n)
                                /\ NotEnded(Resolve(items))
           /\ Chunked(head) => Piece(head, Resolve(WrapInChunk(items)), from, from + n)
                               /\ NotEnded(Resolve(WrapInChunk(items)))
<1> DEFINE w == WrapInChunk(items)
<1>1. Resolve(items) \in Seq(Item) /\ Len(items) = n /\ Len(Resolve(items)) = n
  BY ResolveItems DEF Run
<1>2. /\ w \in Seq(Item) /\ Len(w) = n + 2 /\ InBuffer(w)
      /\ w[1] = Counted("size", n) /\ w[n + 2] = Just("crlf")
      /\ \A i \in 1..n : w[i + 1] = items[i]
  BY <1>1, WrapIsItems
<1> HIDE DEF w
<1>3. /\ Resolve(w) \in Seq(Item) /\ Len(Resolve(w)) = n + 2
      /\ \A i \in 1..(n + 2) :
            /\ w[i].is = "cell" => Resolve(w)[i] = Counted("byte", buffer[w[i].n])
            /\ w[i].is # "cell" => Resolve(w)[i] = w[i]
  BY <1>2, ResolveItems
<1>4. \A i \in 1..n :
        /\ items[i].is = "cell" => Resolve(items)[i] = Counted("byte", buffer[items[i].n])
        /\ items[i].is # "cell" => Resolve(items)[i] = items[i]
  BY <1>1, ResolveItems
<1>5. ChunkOf(Resolve(w), from, n)
  <2>1. ASSUME NEW i \in 1..n PROVE Resolve(w)[i + 1] = Counted("byte", from + i)
    <3>1. i + 1 \in 1..(n + 2) /\ w[i + 1] = items[i]
      BY <1>2
    <3>2. Resolve(w)[i + 1] = Resolve(items)[i]
      BY <1>3, <1>4, <3>1
    <3> QED
      BY <3>2 DEF Run
  <2>2. Resolve(w)[1] = Counted("size", n)
    <3>1. 1 \in 1..(n + 2) /\ w[1].is # "cell"
      BY <1>2 DEF Counted
    <3> QED
      BY <1>2, <1>3, <3>1
  <2>3. Resolve(w)[n + 2] = Just("crlf")
    <3>1. n + 2 \in 1..(n + 2) /\ w[n + 2].is # "cell"
      BY <1>2 DEF Just
    <3> QED
      BY <1>2, <1>3, <3>1
  <2> QED
    BY <1>3, <2>1, <2>2, <2>3 DEF ChunkOf
<1>6. ~Chunked(head) => Piece(head, Resolve(items), from, from + n) /\ NotEnded(Resolve(items))
  BY <1>1, RunIsPiece
<1>7. Chunked(head) => Piece(head, Resolve(w), from, from + n) /\ NotEnded(Resolve(w))
  BY <1>3, <1>5, ChunkIsPiece
<1> QED
  BY <1>6, <1>7 DEF w

(* What is still in the buffer are the last bytes that were written.        *)
LEMMA RemainderIsRun ==
    ASSUME Types, Buffered
    PROVE  Run(Resolve(Cells(localPos)), position - localPos, localPos)
<1>1. localPos \in Nat /\ BufferTyped /\ localPos <= BufferSize /\ BufferSize \in Nat
  BY TypesAre, KindTyped DEF DataTypes
<1>2. /\ Cells(localPos) \in Seq(Item) /\ InBuffer(Cells(localPos))
      /\ Len(Cells(localPos)) = localPos
      /\ \A i \in 1..localPos : Cells(localPos)[i] = Counted("cell", i)
  BY <1>1, CellsAreItems
<1>3. /\ Len(Resolve(Cells(localPos))) = localPos
      /\ \A i \in 1..localPos : Cells(localPos)[i].is = "cell" =>
            Resolve(Cells(localPos))[i] = Counted("byte", buffer[Cells(localPos)[i].n])
  BY <1>1, <1>2, ResolveItems
<1>4. ASSUME NEW i \in 1..localPos
      PROVE  Resolve(Cells(localPos))[i] = Counted("byte", (position - localPos) + i)
  <2>1. Cells(localPos)[i].is = "cell" /\ Cells(localPos)[i].n = i
    BY <1>2 DEF Counted
  <2>2. buffer[i] = position - localPos + i
    BY DEF Buffered
  <2> QED
    BY <1>3, <2>1, <2>2
<1> QED
  BY <1>3, <1>4 DEF Run

LEMMA BytesAreRun ==
    ASSUME NEW from \in Nat, NEW n \in Nat, BufferTyped
    PROVE  Run(Resolve(Bytes(from, n)), from, n)
<1>1. /\ Bytes(from, n) \in Seq(Item) /\ Len(Bytes(from, n)) = n /\ InBuffer(Bytes(from, n))
      /\ \A i \in 1..n : Bytes(from, n)[i] = Counted("byte", from + i)
  BY BytesAreItems
<1>2. \A i \in 1..n : Bytes(from, n)[i].is # "cell"
  BY <1>1 DEF Counted
<1>3. /\ Len(Resolve(Bytes(from, n))) = n
      /\ \A i \in 1..n : Bytes(from, n)[i].is # "cell" =>
            Resolve(Bytes(from, n))[i] = Bytes(from, n)[i]
  BY <1>1, ResolveItems
<1> QED
  BY <1>1, <1>2, <1>3 DEF Run

LEMMA ZeroResolves ==
    ASSUME BufferTyped, NEW items \in Seq(Item), InBuffer(items)
    PROVE  Joins(Resolve(AppendZeroChunk(items)), Resolve(items), <<Just("zero")>>)
<1> DEFINE a == AppendZeroChunk(items)
           z == Just("zero")
<1>1. a \in Seq(Item) /\ InBuffer(a) /\ Joins(a, items, <<z>>)
  BY ZeroTyped
<1>2. z.is # "cell"
  BY DEF Just
<1> HIDE DEF a, z
<1>3. Len(<<z>>) = 1 /\ <<z>>[1] = z
  OBVIOUS
<1>4. /\ Len(a) = Len(items) + 1 /\ a[Len(items) + 1] = z
      /\ \A i \in 1..Len(items) : a[i] = items[i]
  BY <1>1, <1>3 DEF Joins
<1>5. /\ Len(Resolve(items)) = Len(items)
      /\ \A i \in 1..Len(items) :
            /\ items[i].is = "cell" => Resolve(items)[i] = Counted("byte", buffer[items[i].n])
            /\ items[i].is # "cell" => Resolve(items)[i] = items[i]
  BY ResolveItems
<1>6. /\ Len(Resolve(a)) = Len(items) + 1
      /\ \A i \in 1..(Len(items) + 1) :
            /\ a[i].is = "cell" => Resolve(a)[i] = Counted("byte", buffer[a[i].n])
            /\ a[i].is # "cell" => Resolve(a)[i] = a[i]
  BY <1>1, <1>4, ResolveItems
<1>7. ASSUME NEW i \in 1..Len(items) PROVE Resolve(a)[i] = Resolve(items)[i]
  BY <1>4, <1>5, <1>6
<1>8. Resolve(a)[Len(items) + 1] = z
  <2>1. Len(items) + 1 \in 1..(Len(items) + 1)
    OBVIOUS
  <2> QED
    BY <1>2, <1>4, <1>6, <2>1
<1>9. Joins(Resolve(a), Resolve(items), <<z>>)
  BY <1>3, <1>5, <1>6, <1>7, <1>8 DEF Joins
<1> QED
  BY <1>9 DEF a, z

----------------------------------------------------------------------------
(* What the client gets, step by step                                      *)

LEMMA FramedStays ==
    ASSUME kind' = kind, NEW u, Framed(u)
    PROVE  (Sent' = u => Framed(Sent)') /\ (wire' = u => Framed(wire)')
<1>1. Sent' = u => Framed(Sent)'
  BY DEF Framed, InOrder, ChunksAsSized, InChunk, OneResponse, Chunked, WholeChunks, IsByte
<1>2. wire' = u => Framed(wire)'
  BY DEF Framed, InOrder, ChunksAsSized, InChunk, OneResponse, Chunked, WholeChunks, IsByte
<1> QED
  BY <1>1, <1>2

LEMMA SentStays ==
    ASSUME UNCHANGED <<wire, buffer, out>>
    PROVE  Sent' = Sent
  BY DEF Sent, Resolve

(* An application that is not waiting has no bytes of the buffer in a send. *)
LEMMA NoCellsOut ==
    ASSUME Types, Order, Starting, pc \in Writing
    PROVE  Interim(out) /\ (headersSent => out = <<>> /\ tcsSend = "none" /\ ~sending)
<1>1. pc \notin Waits \cup {"finished"}
  BY DEF Writing, Waits
<1>2. headersSent => ~sending /\ out = <<>> /\ tcsSend = "none"
  BY <1>1, Calm DEF Starting
<1>3. out = <<>> => Interim(out)
  BY DEF Interim
<1> QED
  BY <1>1, <1>2, <1>3 DEF Starting, Early

(* The application goes on, and nothing is sent.                            *)
LEMMA GoesOn ==
    ASSUME Types, Order, Response, pc \in Writing, pc' \in Writing,
           UNCHANGED <<kind, wire, responseVars, keepAlive, sendVars, outcome>>,
           HandedOver' = HandedOver
    PROVE  Response'
<1>1. /\ next = NoNext /\ next.what = "nothing" /\ ~lastPacket /\ outcome # "reused"
  BY Calm DEF Writing, Waits
<1>2. /\ headersSent' = headersSent /\ chunked' = chunked /\ keepAlive' = keepAlive
      /\ next' = next /\ out' = out /\ sending' = sending /\ lastPacket' = lastPacket
      /\ kind' = kind /\ wire' = wire /\ outcome' = outcome
  BY DEF responseVars, sendVars
<1>3. Interim(out) /\ out \in Seq(Item)
  BY NoCellsOut, TypesAre DEF Response, SendTypes
<1>4. Resolve(out)' = Resolve(out)
  <2>1. \A i \in DOMAIN out : out[i].is # "cell"
    BY <1>3 DEF Interim
  <2> QED
    BY <1>2, <2>1 DEF Resolve
<1>5. Sent' = Sent
  BY <1>2, <1>4 DEF Sent
<1>6. Framed(wire)' /\ Framed(Sent)'
  BY <1>2, <1>5, FramedStays DEF Response
<1>7. Starting'
  BY <1>2 DEF Response, Starting, Early, Interim, Writing
<1>8. Underway'
  <2>1. /\ NotEnded(Sent) /\ HasBody(Sent, HandedOver)
        /\ headersSent =>
              /\ \E i \in DOMAIN Sent : Sent[i] = Counted("head", kind.declared)
              /\ chunked = BecomesChunked
              /\ keepAlive => StaysAlive
    BY <1>1 DEF Response, Underway
  <2>2. NotEnded(Sent)' /\ HasBody(Sent, HandedOver)'
    BY <1>5, <2>1 DEF NotEnded, HasBody
  <2>3. BecomesChunked' = BecomesChunked /\ StaysAlive' = StaysAlive
    BY <1>2 DEF BecomesChunked, StaysAlive
  <2>4. headersSent' =>
              /\ (\E i \in DOMAIN Sent : Sent[i] = Counted("head", kind.declared))'
              /\ chunked' = BecomesChunked'
              /\ keepAlive' => StaysAlive'
    BY <1>2, <1>5, <2>1, <2>3 DEF Counted
  <2> QED
    BY <2>2, <2>4 DEF Underway
<1>9. Chained' /\ Ending'
  BY <1>1, <1>2 DEF Chained, Ending
<1> QED
  BY <1>6, <1>7, <1>8, <1>9 DEF Response

(* The application ends, or is stopped, and nothing is sent.                *)
LEMMA Stops ==
    ASSUME Types, Order, Response, pc \notin Waits \cup {"finished"},
           pc' \in {"throwing", "lost", "finished"},
           UNCHANGED <<kind, wire, buffer, out, next, lastPacket>>, headersSent => headersSent',
           outcome' \in {outcome, "closed"}
    PROVE  Response'
<1>1. /\ next = NoNext /\ next.what = "nothing" /\ ~lastPacket /\ outcome # "reused"
  BY Calm
<1>2. Framed(wire)' /\ Framed(Sent)'
  BY SentStays, FramedStays DEF Response
<1>3. Starting' /\ Underway'
  BY DEF Response, Starting, Early, Interim, Underway, Waits, Writing
<1>4. Chained' /\ Ending'
  BY <1>1 DEF Chained, Ending
<1> QED
  BY <1>2, <1>3, <1>4 DEF Response

(* A flush that finds an earlier send waits for it.                         *)
LEMMA Chains ==
    ASSUME Types, Order, Response, pc \in Writing, pc' \in Waits,
           UNCHANGED <<kind, wire, buffer, out, lastPacket, outcome>>, headersSent',
           next'.what = "flush"
    PROVE  Response'
<1>1. ~lastPacket /\ outcome # "reused"
  BY Calm DEF Writing, Waits
<1>2. Framed(wire)' /\ Framed(Sent)'
  BY SentStays, FramedStays DEF Response
<1>3. Starting' /\ Underway'
  BY DEF Starting, Underway, Waits, Writing
<1>4. Chained' /\ Ending'
  BY <1>1 DEF Chained, Ending
<1> QED
  BY <1>2, <1>3, <1>4 DEF Response

(* A send that starts at once.                                              *)
LEMMA SendsNow ==
    ASSUME Types, Order, Response, pc \in Writing, pc' \in Waits \cup {"app"},
           UNCHANGED <<kind, wire, lastPacket, outcome, next>>,
           Framed(Sent)', NotEnded(Sent)', HasBody(Sent, HandedOver)',
           headersSent' \/ Early', headersSent' => pc' \in Waits,
           headersSent' =>
              /\ (\E i \in DOMAIN Sent : Sent[i] = Counted("head", kind.declared))'
              /\ chunked' = BecomesChunked'
              /\ keepAlive' => StaysAlive'
    PROVE  Response'
<1>1. next.what = "nothing" /\ ~lastPacket /\ outcome # "reused"
  BY Calm DEF Writing, Waits
<1>2. Framed(wire)'
  BY FramedStays DEF Response
<1>3. Starting' /\ Underway'
  BY DEF Starting, Underway, Waits, Writing
<1>4. Chained' /\ Ending'
  BY <1>1 DEF Chained, Ending
<1> QED
  BY <1>2, <1>3, <1>4 DEF Response

(* What a new send makes of the wire.                                       *)
LEMMA SendJoins ==
    ASSUME Types, NEW items \in Seq(Item), InBuffer(items), StartSend(items),
           UNCHANGED <<wire, buffer>>
    PROVE  /\ Resolve(items) \in Seq(Item)
           /\ Sent' \in Seq(Item) /\ Joins(Sent', wire, Resolve(items))
<1>1. Resolve(items) \in Seq(Item) /\ wire \in Seq(Item)
  BY SentTyped, ResolveItems, TypesAre DEF DataTypes
<1>2. Sent' = wire \o Resolve(items)
  BY DEF Sent, Resolve, StartSend
<1> QED
  BY <1>1, <1>2, ConcatJoins

(* The head says whether the body is chunked.                               *)
LEMMA HeadSays ==
    ASSUME Types
    PROVE  /\ BufferTyped /\ kind.declared \in Nat \cup {Unknown}
           /\ Counted("head", kind.declared) \in Item
           /\ Counted("head", kind.declared).is = "head"
           /\ Counted("head", kind.declared).n = kind.declared
           /\ Chunked(Counted("head", kind.declared)) <=> BecomesChunked
<1>1. BufferTyped /\ kind.declared \in Nat \cup {Unknown}
  BY TypesAre, KindTyped DEF DataTypes
<1>2. /\ Counted("head", kind.declared) \in Item
      /\ Counted("head", kind.declared).is = "head"
      /\ Counted("head", kind.declared).n = kind.declared
  <2> DEFINE n == kind.declared
  <2>1. n \in Nat \cup {Unknown}
    BY <1>1
  <2> HIDE DEF n
  <2>2. /\ Counted("head", n) \in Item
        /\ Counted("head", n).is = "head" /\ Counted("head", n).n = n
    BY <2>1, JustIsItem
  <2> QED
    BY <2>2 DEF n
<1>3. Chunked(Counted("head", kind.declared)) <=> BecomesChunked
  BY <1>2 DEF Chunked, BecomesChunked
<1> QED
  BY <1>1, <1>2, <1>3

(* The flush that sends the head.                                           *)
LEMMA HeadIsFramed ==
    ASSUME Types, Early, ~headersSent, NEW items \in Seq(Item), InBuffer(items),
           NEW from \in Nat, NEW n \in Nat, Run(Resolve(items), from, n), ~kind.head => from = 0,
           NEW body, body = IF kind.head THEN <<>> ELSE items,
           NEW framed, framed = IF BecomesChunked /\ body # <<>> THEN WrapInChunk(body) ELSE body,
           StartSend(OptimallyMerge(framed, kind.declared)), UNCHANGED <<kind, wire, buffer>>
    PROVE  /\ Framed(Sent)' /\ NotEnded(Sent)'
           /\ HasBody(Sent', IF kind.head THEN 0 ELSE n)
           /\ (\E i \in DOMAIN Sent : Sent[i] = Counted("head", kind.declared))'
<1> DEFINE head == Counted("head", kind.declared)
           to == IF kind.head THEN 0 ELSE n
           all == OptimallyMerge(framed, kind.declared)
<1>1. BufferTyped /\ kind.declared \in Nat \cup {Unknown}
  BY HeadSays
<1>2. head \in Item /\ head.is = "head" /\ (Chunked(head) <=> BecomesChunked)
  BY HeadSays
<1>3. body \in Seq(Item) /\ InBuffer(body)
  BY EmptyTyped
<1>4. framed \in Seq(Item) /\ InBuffer(framed)
  BY <1>3, WrapIsItems
<1>5. Resolve(<<>>) = <<>>
  BY DEF Resolve
<1>6. Piece(head, Resolve(framed), 0, to) /\ NotEnded(Resolve(framed))
  <2> HIDE DEF head
  <2>1. CASE kind.head
    BY <1>5, <2>1, NothingIsPiece
  <2>2. CASE ~kind.head
    <3>1. from = 0 /\ to = n /\ body = items /\ 0 + n = n
      BY <2>2
    <3>2. /\ ~Chunked(head) => Piece(head, Resolve(items), 0, n) /\ NotEnded(Resolve(items))
          /\ Chunked(head) => Piece(head, Resolve(WrapInChunk(items)), 0, n)
                              /\ NotEnded(Resolve(WrapInChunk(items)))
      BY <1>1, <3>1, FramingIsPiece
    <3>3. CASE BecomesChunked /\ items = <<>>
      <4>1. n = 0
        BY <1>5, <3>3 DEF Run
      <4> QED
        BY <1>5, <3>1, <3>3, <4>1, NothingIsPiece
    <3>4. CASE ~(BecomesChunked /\ items = <<>>)
      <4>1. framed = IF BecomesChunked THEN WrapInChunk(items) ELSE items
        BY <3>1, <3>4
      <4> QED
        BY <1>2, <3>1, <3>2, <4>1
    <3> QED
      BY <3>3, <3>4
  <2> QED
    BY <2>1, <2>2
<1>7. /\ all \in Seq(Item) /\ InBuffer(all)
      /\ Joins(Resolve(all), <<head>>, Resolve(framed))
  BY <1>1, <1>4, MergeIsItems
<1>8. to \in Nat /\ Resolve(framed) \in Seq(Item)
  BY <1>1, <1>4, ResolveItems
<1> HIDE DEF all, to, head
<1>9. Resolve(all) \in Seq(Item) /\ Sent' \in Seq(Item) /\ Joins(Sent', wire, Resolve(all))
  BY <1>7, SendJoins DEF all
<1>10. wire \in Seq(Item) /\ Interim(wire)
  BY SentTyped DEF Early
<1>11. /\ Framed(Sent') /\ HasBody(Sent', to)
       /\ \E i \in DOMAIN Sent' : Sent'[i] = head
       /\ NotEnded(Sent')
  BY <1>2, <1>6, <1>7, <1>8, <1>9, <1>10, HeadInFront
<1>12. Framed(Sent)'
  BY <1>11, FramedStays
<1>13. NotEnded(Sent)'
  BY <1>11 DEF NotEnded
<1>14. (\E i \in DOMAIN Sent : Sent[i] = Counted("head", kind.declared))'
  BY <1>11 DEF head, Counted
<1> QED
  BY <1>11, <1>12, <1>13, <1>14 DEF to

(* A flush behind the head.                                                 *)
LEMMA BodyIsFramed ==
    ASSUME Types, out = <<>>, Framed(Sent), NotEnded(Sent), ~kind.head,
           NEW items \in Seq(Item), InBuffer(items),
           NEW from \in Nat, NEW n \in Nat, Run(Resolve(items), from, n), HasBody(Sent, from),
           \E i \in DOMAIN Sent : Sent[i] = Counted("head", kind.declared),
           chunked = BecomesChunked,
           NEW all, all = IF chunked THEN WrapInChunk(items) ELSE items,
           StartSend(all), UNCHANGED <<kind, wire, buffer>>
    PROVE  /\ Framed(Sent)' /\ NotEnded(Sent)'
           /\ HasBody(Sent', from + n)
           /\ (\E i \in DOMAIN Sent : Sent[i] = Counted("head", kind.declared))'
<1> DEFINE head == Counted("head", kind.declared)
<1>1. BufferTyped /\ kind.declared \in Nat \cup {Unknown}
  BY HeadSays
<1>2. head \in Item /\ head.is = "head" /\ (Chunked(head) <=> BecomesChunked)
  BY HeadSays
<1>3. wire \in Seq(Item) /\ Sent = wire
  BY SentTyped
<1> HIDE DEF head
<1>4. PICK h \in DOMAIN wire : wire[h] = head
  BY <1>3 DEF head
<1>5. all \in Seq(Item) /\ InBuffer(all)
  BY WrapIsItems
<1>6. Piece(head, Resolve(all), from, from + n) /\ NotEnded(Resolve(all))
  <2>1. /\ ~Chunked(head) => Piece(head, Resolve(items), from, from + n)
                             /\ NotEnded(Resolve(items))
        /\ Chunked(head) => Piece(head, Resolve(WrapInChunk(items)), from, from + n)
                            /\ NotEnded(Resolve(WrapInChunk(items)))
    BY <1>1, FramingIsPiece
  <2>2. all = IF Chunked(head) THEN WrapInChunk(items) ELSE items
    BY <1>2
  <2> QED
    BY <2>1, <2>2
<1>7. Resolve(all) \in Seq(Item) /\ Sent' \in Seq(Item) /\ Joins(Sent', wire, Resolve(all))
  BY <1>5, SendJoins
<1>8. from + n \in Nat /\ from <= from + n
  OBVIOUS
<1>9. /\ Framed(Sent') /\ HasBody(Sent', from + n)
      /\ h \in DOMAIN Sent' /\ Sent'[h] = head
  <2>1. Framed(wire) /\ NotEnded(wire) /\ HasBody(wire, from)
    BY <1>3
  <2>2. wire[h].is = "head" /\ Piece(wire[h], Resolve(all), from, from + n)
    BY <1>2, <1>4, <1>6
  <2> QED
    BY <1>3, <1>4, <1>7, <1>8, <2>1, <2>2, FramedJoins
<1>10. NotEnded(Sent')
  BY <1>3, <1>6, <1>7, NotEndedJoins
<1>11. Framed(Sent)'
  BY <1>9, FramedStays
<1>12. NotEnded(Sent)'
  BY <1>10 DEF NotEnded
<1>13. (\E i \in DOMAIN Sent : Sent[i] = Counted("head", kind.declared))'
  BY <1>9 DEF head, Counted
<1> QED
  BY <1>9, <1>11, <1>12, <1>13

LEMMA ResponseWrites ==
    ASSUME Types, Order, Buffered, Response, pc \in Writing,
           NEW items \in Seq(Item), InBuffer(items), NEW n \in Nat,
           Run(Resolve(items), position - localPos, n),
           localPos' = 0, position' = (position - localPos) + n,
           NEW to \in {"app", "overflowFlushed"}, WriteAsync(items, to)
    PROVE  Response'
<1> DEFINE from == position - localPos
<1>1. /\ from \in Nat /\ from + n \in Nat
      /\ HandedOver = IF kind.head THEN 0 ELSE from
      /\ HandedOver' = IF kind.head THEN 0 ELSE from + n
      /\ HandedOver \in Nat
  <2>1. localPos \in Nat /\ position \in Nat /\ localPos <= position
    BY TypesAre, KindTyped DEF DataTypes, Buffered
  <2>2. from \in Nat /\ from + n \in Nat /\ (from + n) - 0 = from + n
    BY <2>1
  <2>3. kind' = kind
    BY DEF WriteAsync
  <2> QED
    BY <2>2, <2>3 DEF HandedOver
<1>2. /\ next = NoNext /\ next.what = "nothing" /\ ~lastPacket /\ outcome # "reused"
      /\ tcsSend = "none" => out = <<>>
      /\ pc \notin Waits \cup {"finished"}
  <2>1. pc \notin Waits \cup {"finished"}
    BY DEF Writing, Waits
  <2> QED
    BY <2>1, Calm
<1>3. UNCHANGED <<kind, buffer, lastPacket, wire, strays>>
  BY DEF WriteAsync
<1>4. Waiting(to) \in Waits /\ to \in Writing
  BY DEF Waiting, Waits, Writing
<1>5. /\ NotEnded(Sent) /\ HasBody(Sent, HandedOver)
      /\ headersSent =>
            /\ \E i \in DOMAIN Sent : Sent[i] = Counted("head", kind.declared)
            /\ chunked = BecomesChunked
            /\ keepAlive => StaysAlive
  BY <1>2 DEF Response, Underway
<1>6. Run(Resolve(items), from, n)
  OBVIOUS
<1> HIDE DEF from
<1>7. CASE WriteHead(items, to)
  <2> DEFINE body == IF kind.head THEN <<>> ELSE items
             framed == IF BecomesChunked /\ body # <<>> THEN WrapInChunk(body) ELSE body
             all == OptimallyMerge(framed, kind.declared)
  <2>1. /\ ~headersSent
        /\ \/ /\ pc' = "throwing" /\ UNCHANGED <<next, out>>
              /\ outcome' \in {outcome, "closed"}
           \/ /\ headersSent' = TRUE /\ chunked' = BecomesChunked /\ keepAlive' = StaysAlive
              /\ SendOrChain(all) /\ pc' = Waiting(to) /\ UNCHANGED outcome
    <3> HIDE DEF framed
    <3> QED
      BY <1>7 DEF WriteHead, framed, Close
  <2>2. CASE pc' = "throwing" /\ UNCHANGED <<next, out>> /\ outcome' \in {outcome, "closed"}
    BY <1>2, <1>3, <2>1, <2>2, Stops
  <2>3. CASE /\ headersSent' = TRUE /\ chunked' = BecomesChunked /\ keepAlive' = StaysAlive
             /\ SendOrChain(all) /\ pc' = Waiting(to) /\ UNCHANGED outcome
    <3>1. CASE tcsSend # "none"
      <4> HIDE DEF all
      <4>1. next' = [what |-> "flush", items |-> all] /\ UNCHANGED out
        BY <2>3, <3>1 DEF SendOrChain
      <4>2. next'.what = "flush"
        BY <4>1
      <4> QED
        BY <1>3, <1>4, <2>3, <4>1, <4>2, Chains
    <3>2. CASE tcsSend = "none"
      <4>1. StartSend(all) /\ UNCHANGED next
        BY <2>3, <3>2 DEF SendOrChain
      <4>2. Early
        BY <1>2, <2>1 DEF Response, Starting
      <4>3. ~kind.head => from = 0
        BY <1>1, <1>5, <4>2, EarlySent
      <4>4. /\ Framed(Sent)' /\ NotEnded(Sent)'
            /\ HasBody(Sent', IF kind.head THEN 0 ELSE n)
            /\ (\E i \in DOMAIN Sent : Sent[i] = Counted("head", kind.declared))'
        <5> HIDE DEF framed
        <5>1. framed = IF BecomesChunked /\ body # <<>> THEN WrapInChunk(body) ELSE body
          BY DEF framed
        <5> QED
          BY <1>1, <1>3, <1>6, <2>1, <4>1, <4>2, <4>3, <5>1, HeadIsFramed
      <4> HIDE DEF all
      <4>5. HandedOver' = IF kind.head THEN 0 ELSE n
        BY <1>1, <4>3
      <4>6. HasBody(Sent, HandedOver)'
        BY <4>4, <4>5 DEF HasBody
      <4>7. chunked' = BecomesChunked' /\ (keepAlive' => StaysAlive')
        BY <1>3, <2>3 DEF BecomesChunked, StaysAlive
      <4> QED
        BY <1>3, <1>4, <2>3, <4>1, <4>4, <4>6, <4>7, SendsNow
    <3> QED
      BY <3>1, <3>2
  <2> QED
    BY <2>1, <2>2, <2>3
<1>8. CASE WriteBody(items, to)
  <2> DEFINE all == IF chunked THEN WrapInChunk(items) ELSE items
  <2>1. /\ headersSent /\ UNCHANGED <<responseVars, keepAlive>>
        /\ \/ /\ kind.head \/ (chunked /\ items = <<>>)
              /\ pc' = to /\ UNCHANGED <<tcsSend, next, sending, out, outcome>>
           \/ /\ pc' = "throwing" /\ UNCHANGED <<next, out>> /\ outcome' \in {outcome, "closed"}
           \/ ~kind.head /\ SendOrChain(all) /\ pc' = Waiting(to) /\ UNCHANGED outcome
    BY <1>8 DEF WriteBody, Close
  <2>2. out = <<>> /\ tcsSend = "none" /\ ~sending
    BY <2>1, NoCellsOut DEF Response
  <2> HIDE DEF all
  <2>3. CASE /\ kind.head \/ (chunked /\ items = <<>>)
             /\ pc' = to /\ UNCHANGED <<tcsSend, next, sending, out, outcome>>
    <3>1. items = <<>> => n = 0
      <4>1. Resolve(<<>>) = <<>>
        BY DEF Resolve
      <4> QED
        BY <4>1 DEF Run
    <3>2. HandedOver' = HandedOver
      BY <1>1, <2>3, <3>1
    <3>3. UNCHANGED <<kind, wire, responseVars, keepAlive, outcome>> /\ UNCHANGED sendVars
      BY <1>3, <2>1, <2>3 DEF sendVars
    <3>4. UNCHANGED <<kind, wire, responseVars, keepAlive, sendVars, outcome>>
      BY <3>3
    <3> QED
      BY <1>3, <1>4, <2>3, <3>2, <3>4, GoesOn
  <2>4. CASE pc' = "throwing" /\ UNCHANGED <<next, out>> /\ outcome' \in {outcome, "closed"}
    BY <1>2, <1>3, <2>1, <2>4, Stops DEF responseVars
  <2>5. CASE ~kind.head /\ SendOrChain(all) /\ pc' = Waiting(to) /\ UNCHANGED outcome
    <3>1. StartSend(all) /\ UNCHANGED next
      BY <2>2, <2>5 DEF SendOrChain
    <3>2. /\ Framed(Sent)' /\ NotEnded(Sent)'
          /\ HasBody(Sent', from + n)
          /\ (\E i \in DOMAIN Sent : Sent[i] = Counted("head", kind.declared))'
      <4>1. HasBody(Sent, from) /\ Framed(Sent)
        BY <1>1, <1>5, <2>5 DEF Response
      <4>2. all = IF chunked THEN WrapInChunk(items) ELSE items
        BY DEF all
      <4> QED
        BY <1>1, <1>3, <1>5, <1>6, <2>1, <2>2, <2>5, <3>1, <4>1, <4>2, BodyIsFramed
    <3>3. HasBody(Sent, HandedOver)'
      BY <1>1, <2>5, <3>2 DEF HasBody
    <3>4. headersSent' /\ chunked' = BecomesChunked' /\ (keepAlive' => StaysAlive')
      BY <1>3, <1>5, <2>1 DEF BecomesChunked, StaysAlive, responseVars
    <3> QED
      BY <1>3, <1>4, <2>5, <3>1, <3>2, <3>3, <3>4, SendsNow
  <2> QED
    BY <2>1, <2>3, <2>4, <2>5
<1> QED
  BY <1>7, <1>8 DEF WriteAsync

LEMMA ResponseRuns ==
    ASSUME Types, Order, Buffered, Response
    PROVE  (\E n \in Writes : Write(n)) \/ Flush \/ OverflowFlush \/ DirectWrite \/ OverflowFill
           => Response'
<1>1. /\ localPos \in Nat /\ position \in Nat /\ rest \in Nat /\ BufferSize \in Nat
      /\ localPos <= BufferSize /\ localPos <= position /\ BufferTyped
  BY TypesAre, KindTyped DEF DataTypes, Buffered
<1>2. {"app", "overflow", "overflowFlushed"} = Writing
  BY DEF Writing
<1>3. ASSUME NEW n, Fill(n), UNCHANGED kind PROVE HandedOver' = HandedOver \/ n \notin Nat
  <2>1. localPos' = localPos + n /\ position' = position + n
    BY <1>3 DEF Fill
  <2>2. n \in Nat => position' - localPos' = position - localPos
    BY <1>1, <2>1
  <2> QED
    BY <1>3, <2>2 DEF HandedOver
<1>4. ASSUME NEW n \in Writes, Write(n) PROVE Response'
  <2>1. n \in Nat
    BY ResponseAssumption
  <2>2. /\ pc = "app" /\ pc' \in {"app", "overflow"}
        /\ UNCHANGED <<kind, responseVars, keepAlive, sendVars, wire, outcome, strays>>
        /\ Fill(n) \/ UNCHANGED <<buffer, localPos, position>>
    BY <1>4 DEF Write
  <2>3. HandedOver' = HandedOver
    BY <1>3, <2>1, <2>2 DEF HandedOver
  <2>4. UNCHANGED <<kind, wire, responseVars, keepAlive, sendVars, outcome>>
    BY <2>2
  <2> QED
    BY <1>2, <2>2, <2>3, <2>4, GoesOn
<1>5. ASSUME OverflowFill PROVE Response'
  <2> DEFINE n == IF rest < BufferSize - localPos THEN rest ELSE BufferSize - localPos
  <2>1. n \in Nat
    BY <1>1
  <2>2. /\ pc \in {"overflow", "overflowFlushed"} /\ pc' \in {"app", "overflow"}
        /\ UNCHANGED <<kind, responseVars, keepAlive, sendVars, wire, outcome, strays>>
        /\ Fill(n)
    BY <1>5 DEF OverflowFill
  <2> HIDE DEF n
  <2>3. HandedOver' = HandedOver
    BY <1>3, <2>1, <2>2
  <2>4. UNCHANGED <<kind, wire, responseVars, keepAlive, sendVars, outcome>>
    BY <2>2
  <2> QED
    BY <1>2, <2>2, <2>3, <2>4, GoesOn
<1>6. ASSUME Flush \/ OverflowFlush PROVE Response'
  <2>1. PICK to \in {"app", "overflowFlushed"} : FlushAsyncCore(to)
    BY <1>6 DEF Flush, OverflowFlush
  <2>2. pc \in Writing
    BY <1>2, <1>6 DEF Flush, OverflowFlush
  <2>3. localPos' = 0 /\ position' = position /\ WriteAsync(Cells(localPos), to)
    BY <2>1 DEF FlushAsyncCore
  <2>4. position' = (position - localPos) + localPos
    BY <1>1, <2>3
  <2>5. Cells(localPos) \in Seq(Item) /\ InBuffer(Cells(localPos))
    BY <1>1, CellsAreItems
  <2>6. Run(Resolve(Cells(localPos)), position - localPos, localPos)
    BY RemainderIsRun
  <2> QED
    BY <1>1, <2>2, <2>3, <2>4, <2>5, <2>6, ResponseWrites
<1>7. ASSUME DirectWrite PROVE Response'
  <2>1. /\ pc = "overflowFlushed" /\ localPos' = localPos /\ position' = position + rest
        /\ WriteAsync(Bytes(position, rest), "app")
    BY <1>7 DEF DirectWrite
  <2>2. localPos = 0
    BY <2>1 DEF Order
  <2>3. /\ Bytes(position, rest) \in Seq(Item) /\ InBuffer(Bytes(position, rest))
        /\ Run(Resolve(Bytes(position, rest)), position, rest)
    BY <1>1, BytesAreItems, BytesAreRun
  <2>4. position - localPos = position
    BY <1>1, <2>2
  <2>5. localPos' = 0 /\ position' = (position - localPos) + rest
    BY <2>1, <2>2, <2>4
  <2>6. Run(Resolve(Bytes(position, rest)), position - localPos, rest)
    BY <2>3, <2>4
  <2> QED
    BY <1>1, <1>2, <2>1, <2>3, <2>5, <2>6, ResponseWrites
<1> QED
  BY <1>4, <1>5, <1>6, <1>7

LEMMA ResponseAsks ==
    ASSUME Types, Order, Buffered, Response, strays' = {}
    PROVE  Send100Continue \/ AppThrows => Response'
<1>1. ASSUME AppThrows PROVE Response'
  <2>1. /\ pc = "app" /\ pc' = "throwing"
        /\ UNCHANGED <<kind, streamVars, responseVars, keepAlive, sendVars, wire, outcome, strays>>
    BY <1>1 DEF AppThrows
  <2> QED
    BY <2>1, Stops DEF streamVars, responseVars, sendVars, Waits
<1>2. ASSUME Send100Continue PROVE Response'
  <2> DEFINE c == Just("continue")
  <2>1. /\ pc = "app"
        /\ \/ sending /\ pc' = "throwing" /\ UNCHANGED <<sending, out>>
           \/ ~sending /\ StartSend(<<c>>) /\ UNCHANGED pc
        /\ strays' = (strays \cup IF headersSent THEN {"interim"} ELSE {})
        /\ UNCHANGED <<kind, streamVars, responseVars, keepAlive, next, lastPacket, wire, outcome>>
    BY <1>2 DEF Send100Continue
  <2>2. ~headersSent
    BY <2>1
  <2>3. CASE sending /\ pc' = "throwing" /\ UNCHANGED <<sending, out>>
    BY <2>1, <2>3, Stops DEF streamVars, responseVars, Waits
  <2>4. CASE ~sending /\ StartSend(<<c>>) /\ UNCHANGED pc
    <3>1. Early
      BY <2>1, <2>2 DEF Response, Starting
    <3>2. next = NoNext /\ next.what = "nothing"
      BY <2>1, Calm DEF Waits
    <3>3. HasBody(Sent, HandedOver)
      BY <2>1, <3>2 DEF Response, Underway, Writing
    <3>4. HandedOver \in Nat
      <4>1. localPos \in Nat /\ position \in Nat /\ localPos <= position
        BY TypesAre, KindTyped DEF DataTypes, Buffered
      <4> QED
        BY <4>1 DEF HandedOver
    <3>5. HandedOver = 0
      BY <3>1, <3>3, <3>4, EarlySent
    <3>6. <<c>> \in Seq(Item) /\ InBuffer(<<c>>) /\ c.is = "continue"
      BY JustTyped, JustIsItem
    <3> HIDE DEF c
    <3>7. out' = <<c>> /\ wire' = wire /\ buffer' = buffer
      BY <2>1, <2>4 DEF StartSend, streamVars
    <3>8. Interim(out)' /\ Interim(wire)'
      <4>1. \A i \in DOMAIN <<c>> : <<c>>[i].is = "continue"
        BY <3>6
      <4> QED
        BY <3>1, <3>7, <4>1 DEF Early, Interim
    <3>9. /\ Resolve(<<c>>) \in Seq(Item) /\ Sent' \in Seq(Item)
          /\ Joins(Sent', wire, Resolve(<<c>>))
      BY <2>4, <3>6, <3>7, SendJoins
    <3>10. Interim(Resolve(<<c>>))
      <4>1. BufferTyped
        BY TypesAre DEF DataTypes
      <4>2. /\ DOMAIN Resolve(<<c>>) = DOMAIN <<c>>
            /\ \A i \in DOMAIN <<c>> : <<c>>[i].is # "cell" => Resolve(<<c>>)[i] = <<c>>[i]
        BY <3>6, <4>1, ResolveItems
      <4> QED
        BY <3>6, <4>2 DEF Interim
    <3>11. Interim(Sent')
      BY <3>1, <3>9, <3>10, InterimJoins, SentTyped DEF Early
    <3>12. Framed(Sent') /\ NotEnded(Sent') /\ HasBody(Sent', 0)
      BY <3>9, <3>11, FramedInterim
    <3>13. kind' = kind /\ headersSent' = headersSent /\ HandedOver' = HandedOver
      BY <2>1 DEF responseVars, streamVars, HandedOver
    <3>14. Framed(Sent)' /\ NotEnded(Sent)' /\ HasBody(Sent, HandedOver)'
      BY <3>5, <3>12, <3>13, FramedStays DEF NotEnded, HasBody
    <3>15. Early' /\ ~headersSent'
      BY <2>2, <3>8, <3>13 DEF Early
    <3> QED
      BY <2>1, <2>4, <3>14, <3>15, SendsNow DEF Writing
  <2> QED
    BY <2>1, <2>3, <2>4
<1> QED
  BY <1>1, <1>2

LEMMA CompleteStays ==
    ASSUME UNCHANGED <<kind, position>>, NEW u, Complete(u)
    PROVE  (Sent' = u => Complete(Sent)') /\ (wire' = u => Complete(wire)')
<1>1. Sent' = u => Complete(Sent)'
  BY DEF Complete, Delimited, Chunked, BodyLength, HasBody, IsByte
<1>2. wire' = u => Complete(wire)'
  BY DEF Complete, Delimited, Chunked, BodyLength, HasBody, IsByte
<1> QED
  BY <1>1, <1>2

LEMMA EmptySent == Types => (out = <<>> => Sent = wire)
  BY SentTyped

(* A send that was answered: what it sent is on the wire, or is lost.       *)
LEMMA ResponseAnswers ==
    ASSUME Types, Types', Order, Buffered, Response
    PROVE  FinishSend \/ FinishSendFailed => Response'
<1> SUFFICES ASSUME FinishSend \/ FinishSendFailed PROVE Response'
  OBVIOUS
<1>1. /\ sending /\ sending' = FALSE /\ out' = <<>> /\ tcsSend' = "none"
      /\ kind' = kind /\ next' = next /\ headersSent' = headersSent /\ chunked' = chunked
      /\ buffer' = buffer /\ localPos' = localPos /\ position' = position
  BY DEF FinishSend, FinishSendFailed, streamVars, responseVars
<1>2. \/ FinishSend /\ wire' = Sent /\ keepAlive' = keepAlive /\ Resume(Resumed)
         /\ FinishLast(keepAlive)
      \/ FinishSendFailed /\ wire' = wire /\ keepAlive' = FALSE /\ Resume(Failed)
         /\ FinishLast(FALSE)
  BY DEF FinishSend, FinishSendFailed, Sent
<1>3. Sent' = wire'
  <2>1. (out = <<>> => Sent = wire)'
    BY EmptySent, PTL
  <2> QED
    BY <1>1, <2>1
<1>4. \/ pc' = pc
      \/ tcsSend = "awaited" /\ pc \in Waits /\ pc' \in {"throwing", "app", "overflowFlushed"}
  BY <1>2, ResumedAt DEF Waits
<1>5. /\ ~lastPacket' /\ outcome # "reused"
      /\ outcome' = "reused" => FinishSend /\ lastPacket /\ keepAlive
  <2>1. outcome # "reused"
    BY <1>1 DEF Order
  <2> QED
    BY <1>2, <2>1 DEF FinishLast
<1>6. Framed(wire)' /\ Framed(Sent)'
  <2>1. wire' = Sent \/ wire' = wire
    BY <1>2
  <2> QED
    BY <1>1, <1>3, <2>1, FramedStays DEF Response
<1>7. Early => Early'
  <2>1. ASSUME Early PROVE Interim(wire')
    <3>1. Interim(Sent) /\ Interim(wire)
      BY <2>1, EarlySent DEF Early
    <3> QED
      BY <1>2, <3>1
  <2>2. Interim(wire') => Interim(wire)'
    BY DEF Interim
  <2>3. Interim(out)'
    BY <1>1 DEF Interim
  <2> QED
    BY <2>1, <2>2, <2>3 DEF Early
<1>8. Starting'
  <2>1. pc' # "finished" => pc # "finished"
    BY <1>4 DEF Waits
  <2> QED
    BY <1>1, <1>7, <2>1 DEF Response, Starting
<1>9. Underway'
  <2> SUFFICES ASSUME pc' \in Waits \cup Writing, next.what # "flush" PROVE Underway'
    BY <1>1 DEF Underway
  <2>1. pc \in Waits \cup Writing
    BY <1>4
  <2>2. /\ NotEnded(Sent) /\ HasBody(Sent, HandedOver)
        /\ headersSent =>
              /\ \E i \in DOMAIN Sent : Sent[i] = Counted("head", kind.declared)
              /\ chunked = BecomesChunked
              /\ keepAlive => StaysAlive
    BY <2>1 DEF Response, Underway
  <2>3. HandedOver' = HandedOver
    BY <1>1 DEF HandedOver
  <2>4. CASE wire' = Sent /\ keepAlive' = keepAlive
    <3>1. Sent' = Sent
      BY <1>3, <2>4
    <3>2. NotEnded(Sent)' /\ HasBody(Sent, HandedOver)'
      BY <2>2, <2>3, <3>1 DEF NotEnded, HasBody
    <3>3. headersSent' =>
              /\ (\E i \in DOMAIN Sent : Sent[i] = Counted("head", kind.declared))'
              /\ chunked' = BecomesChunked'
              /\ keepAlive' => StaysAlive'
      BY <1>1, <2>2, <2>4, <3>1 DEF Counted, BecomesChunked, StaysAlive
    <3> QED
      BY <3>2, <3>3 DEF Underway
  <2>5. CASE wire' = wire /\ Resume(Failed)
    <3>1. pc \in Writing
      <4>1. tcsSend = "awaited" /\ pc \in Waits => pc' = "throwing"
        BY <2>5 DEF Resume, Failed, Waits
      <4>2. tcsSend = "awaited" => ~(pc \in Waits)
        BY <4>1 DEF Waits, Writing
      <4>3. pc \notin Waits
        BY <4>2 DEF Order
      <4> QED
        BY <2>1, <4>3
    <3>2. ~headersSent /\ Early
      BY <1>1, <3>1 DEF Response, Starting, Writing
    <3>3. HandedOver \in Nat
      <4>1. localPos \in Nat /\ position \in Nat /\ localPos <= position
        BY TypesAre, KindTyped DEF DataTypes, Buffered
      <4> QED
        BY <4>1 DEF HandedOver
    <3>4. HandedOver' = 0
      BY <2>2, <2>3, <3>2, <3>3, EarlySent
    <3>5. Framed(wire) /\ NotEnded(wire) /\ HasBody(wire, 0)
      BY <3>2, SentTyped, FramedInterim DEF Early
    <3>6. NotEnded(Sent)' /\ HasBody(Sent, HandedOver)'
      BY <1>3, <2>5, <3>4, <3>5 DEF NotEnded, HasBody
    <3> QED
      BY <1>1, <3>2, <3>6 DEF Underway
  <2> QED
    BY <1>2, <2>4, <2>5
<1>10. Chained'
  <2>1. WholeBody' = WholeBody /\ WholeLength' = WholeLength /\ HandedOver' = HandedOver
    BY <1>1 DEF WholeBody, WholeLength, HandedOver, Cells
  <2>2. OptimallyMerge(WholeBody, WholeLength)' = OptimallyMerge(WholeBody, WholeLength)
    BY <1>1, <2>1 DEF OptimallyMerge, Resolve, Counted
  <2>3. keepAlive' => keepAlive
    BY <1>2
  <2> QED
    BY <1>1, <1>7, <2>1, <2>2, <2>3 DEF Response, Chained
<1>11. Ending'
  <2>1. ASSUME outcome' = "reused" PROVE Complete(wire)'
    <3>1. Complete(Sent)
      BY <1>5, <2>1 DEF Response, Ending
    <3>2. wire' = Sent
      BY <1>5, <2>1 DEF FinishSend, Sent
    <3> QED
      BY <1>1, <3>1, <3>2, CompleteStays
  <2> QED
    BY <1>5, <2>1 DEF Ending
<1> QED
  BY <1>6, <1>8, <1>9, <1>10, <1>11 DEF Response

(* The whole response in one send.                                          *)
LEMMA WholeIsFramed ==
    ASSUME Types, Buffered, Interim(wire), HandedOver = 0,
           StartSend(OptimallyMerge(WholeBody, WholeLength)),
           UNCHANGED <<kind, wire, buffer, position>>
    PROVE  /\ Framed(Sent)'
           /\ (kind.head => ~(kind.declared = Unknown /\ kind.http10)) => Complete(Sent)'
<1> DEFINE all == OptimallyMerge(WholeBody, WholeLength)
           head == Counted("head", WholeLength)
<1>1. /\ BufferTyped /\ kind.declared \in Nat \cup {Unknown} /\ kind.http10 \in BOOLEAN
      /\ localPos \in Nat /\ position \in Nat /\ localPos <= BufferSize /\ BufferSize \in Nat
  BY TypesAre, KindTyped DEF DataTypes
<1>2. WholeLength \in Nat \cup {Unknown}
  BY <1>1 DEF WholeLength
<1>3. head \in Item /\ head.is = "head" /\ head.n = WholeLength
  BY <1>2, JustIsItem
<1>4. WholeBody \in Seq(Item) /\ InBuffer(WholeBody)
  BY <1>1, CellsAreItems, EmptyTyped DEF WholeBody
<1>5. /\ all \in Seq(Item) /\ InBuffer(all)
      /\ Joins(Resolve(all), <<head>>, Resolve(WholeBody))
  BY <1>1, <1>2, <1>4, MergeIsItems
<1>6. BodyLength \in Nat /\ Resolve(WholeBody) \in Seq(Item)
  BY <1>1, <1>4, ResolveItems DEF BodyLength
<1>7. /\ ~kind.head => WholeLength = position /\ BodyLength = position /\ position = localPos
      /\ kind.head => WholeLength = kind.declared /\ BodyLength = 0
  <2>1. ~kind.head => position - localPos = 0
    BY DEF HandedOver
  <2> QED
    BY <1>1, <2>1 DEF WholeLength, BodyLength
<1> HIDE DEF head, all
<1>8. Piece(head, Resolve(WholeBody), 0, BodyLength)
  <2>1. CASE kind.head
    <3>1. WholeBody = <<>>
      BY <2>1 DEF WholeBody
    <3>2. Resolve(<<>>) = <<>>
      BY DEF Resolve
    <3> QED
      BY <1>7, <2>1, <3>1, <3>2, NothingIsPiece
  <2>2. CASE ~kind.head
    <3>1. WholeBody = Cells(localPos)
      BY <2>2 DEF WholeBody
    <3>2. position - localPos = 0 /\ 0 + localPos = position /\ BodyLength = position
      BY <1>1, <1>7, <2>2
    <3>3. Run(Resolve(WholeBody), 0, localPos)
      BY <3>1, <3>2, RemainderIsRun
    <3>4. ~Chunked(head)
      BY <1>1, <1>3, <1>7, <2>2 DEF Chunked, Unknown
    <3> QED
      BY <1>1, <1>6, <3>2, <3>3, <3>4, RunIsPiece
  <2> QED
    BY <2>1, <2>2
<1>9. wire \in Seq(Item)
  BY SentTyped
<1>10. Resolve(all) \in Seq(Item) /\ Sent' \in Seq(Item) /\ Joins(Sent', wire, Resolve(all))
  BY <1>5, SendJoins DEF all
<1>11. /\ Framed(Sent') /\ HasBody(Sent', BodyLength)
       /\ \E i \in DOMAIN Sent' : Sent'[i] = head
  BY <1>3, <1>5, <1>6, <1>8, <1>9, <1>10, HeadInFront
<1>12. ASSUME kind.head => ~(kind.declared = Unknown /\ kind.http10)
       PROVE  Delimited(Sent', head)
  <2>1. CASE kind.head
    BY <1>3, <1>7, <1>12, <2>1 DEF Delimited, Chunked
  <2>2. CASE ~kind.head
    BY <1>1, <1>3, <1>7, <2>2 DEF Delimited, Unknown
  <2> QED
    BY <2>1, <2>2
<1>13. (kind.head => ~(kind.declared = Unknown /\ kind.http10)) => Complete(Sent')
  BY <1>3, <1>11, <1>12 DEF Complete
<1> QED
  BY <1>11, <1>13, FramedStays, CompleteStays

LEMMA ErrorIsFramed ==
    ASSUME Types, Early, NEW e \in Item, e.is = "error", StartSend(<<e>>),
           UNCHANGED <<kind, wire, buffer>>
    PROVE  Framed(Sent)'
<1>1. <<e>> \in Seq(Item) /\ Len(<<e>>) = 1 /\ <<e>>[1] = e /\ DOMAIN <<e>> = 1..1
  OBVIOUS
<1>2. InBuffer(<<e>>)
  BY <1>1 DEF InBuffer
<1>3. Resolve(<<e>>) \in Seq(Item) /\ Sent' \in Seq(Item) /\ Joins(Sent', wire, Resolve(<<e>>))
  BY <1>1, <1>2, SendJoins
<1>4. Resolve(<<e>>) = <<e>>
  <2>1. BufferTyped
    BY TypesAre DEF DataTypes
  <2>2. /\ Len(Resolve(<<e>>)) = Len(<<e>>)
        /\ \A i \in DOMAIN <<e>> : <<e>>[i].is # "cell" => Resolve(<<e>>)[i] = <<e>>[i]
    BY <1>1, <1>2, <2>1, ResolveItems
  <2>3. Len(Resolve(<<e>>)) = 1 /\ Resolve(<<e>>)[1] = e
    BY <1>1, <2>2
  <2> QED
    BY <1>3, <2>3
<1>5. Framed(Sent')
  BY <1>3, <1>4, FramedBegins, SentTyped DEF Early
<1> QED
  BY <1>5, FramedStays

(* The answer to an application that failed before the head.                *)
LEMMA ResponseErrs ==
    ASSUME Types, Order, Response, pc \notin Waits \cup {"finished"}, Early,
           SendInternalServerError, pc' = "finished",
           UNCHANGED <<kind, streamVars, wire, outcome>>
    PROVE  Response'
<1> DEFINE e == Just("error")
           n == [what |-> "error", items |-> <<e>>]
<1>1. /\ next = NoNext /\ next.what = "nothing" /\ ~lastPacket /\ outcome # "reused"
  BY Calm
<1>2. /\ \/ tcsSend # "none" /\ next' = n /\ UNCHANGED <<out, lastPacket>>
         \/ /\ tcsSend = "none" /\ StartSend(<<e>>) /\ UNCHANGED next
            /\ ~keepAlive'
  BY DEF SendInternalServerError, SendLast
<1>3. <<e>> \in Seq(Item) /\ InBuffer(<<e>>) /\ e \in Item /\ e.is = "error"
  BY JustTyped, JustIsItem
<1>4. n.what = "error" /\ n.items = <<e>>
  OBVIOUS
<1> HIDE DEF e, n
<1>5. Framed(wire)'
  BY FramedStays DEF Response
<1>6. Starting' /\ Underway'
  BY DEF Starting, Underway, Waits, Writing
<1>7. CASE tcsSend # "none" /\ next' = n /\ UNCHANGED <<out, lastPacket>>
  <2>1. Framed(Sent)'
    BY <1>7, SentStays, FramedStays DEF Response, streamVars
  <2>2. Early'
    BY <1>7 DEF Early, Interim
  <2>3. Chained' /\ Ending'
    BY <1>1, <1>4, <1>7, <2>2 DEF Chained, Ending, e
  <2> QED
    BY <1>5, <1>6, <2>1, <2>3 DEF Response
<1>8. CASE tcsSend = "none" /\ StartSend(<<e>>) /\ UNCHANGED next /\ ~keepAlive'
  <2>4. Framed(Sent)'
    BY <1>3, <1>8, ErrorIsFramed DEF streamVars
  <2>5. Chained' /\ Ending'
    BY <1>1, <1>8 DEF Chained, Ending
  <2> QED
    BY <1>5, <1>6, <2>4, <2>5 DEF Response
<1> QED
  BY <1>2, <1>7, <1>8

LEMMA ResponseEndsWhole ==
    ASSUME Types, Order, Buffered, Response
    PROVE  FinishWhole \/ FaultedResponseFinished => Response'
<1> DEFINE Running == pc \notin Waits \cup {"finished"}
<1>1. ASSUME FaultedResponseFinished PROVE Response'
  <2>1. /\ pc = "throwing" /\ pc' = "finished" /\ Running
        /\ UNCHANGED <<kind, streamVars, responseVars, wire, strays>>
    BY <1>1 DEF FaultedResponseFinished, Waits
  <2>2. CASE headersSent
    <3>1. outcome' = "closed" /\ UNCHANGED sendVars
      BY <1>1, <2>2 DEF FaultedResponseFinished, Close
    <3> QED
      BY <2>1, <3>1, Stops DEF streamVars, responseVars, sendVars
  <2>3. CASE ~headersSent
    <3>1. SendInternalServerError /\ UNCHANGED outcome
      BY <1>1, <2>3 DEF FaultedResponseFinished
    <3>2. Early
      BY <2>1, <2>3 DEF Response, Starting
    <3> QED
      BY <2>1, <3>1, <3>2, ResponseErrs
  <2> QED
    BY <2>2, <2>3
<1>2. ASSUME FinishWhole PROVE Response'
  <2>1. /\ pc = "app" /\ ~headersSent /\ UNCHANGED <<kind, streamVars, wire, outcome, strays>>
        /\ \/ SendWhole /\ pc' = "finished"
           \/ SendInternalServerError /\ pc' = "finished"
           \/ pc' \in {"lost", "throwing"} /\ UNCHANGED <<responseVars, keepAlive, sendVars>>
    <3>1. kind.headers \in {"fit", "long", "throw"}
      BY TypesAre, KindTyped DEF Kind
    <3> QED
      BY <1>2, <3>1 DEF FinishWhole
  <2>2. Running /\ Early
    BY <2>1 DEF Response, Starting, Waits
  <2>3. /\ next = NoNext /\ next.what = "nothing" /\ ~lastPacket /\ outcome # "reused"
    BY <2>2, Calm
  <2>4. CASE SendInternalServerError /\ pc' = "finished"
    BY <2>1, <2>2, <2>4, ResponseErrs
  <2>5. CASE pc' \in {"lost", "throwing"} /\ UNCHANGED <<responseVars, keepAlive, sendVars>>
    BY <2>1, <2>2, <2>5, Stops DEF streamVars, responseVars, sendVars
  <2>6. CASE SendWhole /\ pc' = "finished"
    <3> DEFINE all == OptimallyMerge(WholeBody, WholeLength)
               n == [what |-> "last", items |-> all]
    <3>1. /\ \/ tcsSend # "none" /\ next' = n /\ UNCHANGED <<out, lastPacket>>
             \/ tcsSend = "none" /\ StartSend(all) /\ UNCHANGED next
          /\ keepAlive' /\ kind.head => ~(kind.declared = Unknown /\ kind.http10)
      BY <2>6 DEF SendWhole, SendLast, WholeBody, WholeLength, StaysAlive
    <3>2. n.what = "last" /\ n.items = all
      OBVIOUS
    <3>3. HandedOver = 0
      <4>1. HasBody(Sent, HandedOver)
        BY <2>1, <2>3 DEF Response, Underway, Writing
      <4>2. HandedOver \in Nat
        <5>1. localPos \in Nat /\ position \in Nat /\ localPos <= position
          BY TypesAre, KindTyped DEF DataTypes, Buffered
        <5> QED
          BY <5>1 DEF HandedOver
      <4> QED
        BY <2>2, <4>1, <4>2, EarlySent
    <3> HIDE DEF all, n
    <3>4. Framed(wire)'
      BY <2>1, FramedStays DEF Response
    <3>5. Starting' /\ Underway'
      BY <2>6 DEF Starting, Underway, Waits, Writing
    <3>6. /\ kind' = kind /\ wire' = wire /\ buffer' = buffer /\ position' = position
          /\ localPos' = localPos /\ outcome' = outcome
      BY <2>1 DEF streamVars
    <3>7. CASE tcsSend # "none" /\ next' = n /\ UNCHANGED <<out, lastPacket>>
      <4>1. Framed(Sent)'
        BY <3>6, <3>7, SentStays, FramedStays DEF Response
      <4>2. Early'
        BY <2>2, <3>6, <3>7 DEF Early, Interim
      <4>3. HandedOver' = 0
        BY <3>3, <3>6 DEF HandedOver
      <4>4. OptimallyMerge(WholeBody, WholeLength)' = all
        <5>1. WholeBody' = WholeBody /\ WholeLength' = WholeLength
          BY <3>6 DEF WholeBody, WholeLength, Cells
        <5> QED
          BY <3>6, <5>1 DEF OptimallyMerge, Resolve, Counted, all
      <4>5. Chained'
        BY <3>1, <3>2, <3>6, <3>7, <4>2, <4>3, <4>4 DEF Chained
      <4>6. Ending'
        BY <2>3, <3>6, <3>7 DEF Ending
      <4> QED
        BY <3>4, <3>5, <4>1, <4>5, <4>6 DEF Response
    <3>8. CASE tcsSend = "none" /\ StartSend(all) /\ UNCHANGED next
      <4>1. Interim(wire)
        BY <2>2 DEF Early
      <4>2. /\ Framed(Sent)'
            /\ (kind.head => ~(kind.declared = Unknown /\ kind.http10)) => Complete(Sent)'
        BY <3>3, <3>6, <3>8, <4>1, WholeIsFramed DEF all
      <4>3. Ending'
        BY <2>3, <3>1, <3>6, <4>2 DEF Ending
      <4>4. Chained'
        BY <2>3, <3>8 DEF Chained
      <4> QED
        BY <3>4, <3>5, <4>2, <4>3, <4>4 DEF Response
    <3> QED
      BY <3>1, <3>7, <3>8
  <2> QED
    BY <2>1, <2>4, <2>5, <2>6
<1> QED
  BY <1>1, <1>2

(* The end of a response that was started.                                  *)
LEMMA RestIsPiece ==
    ASSUME Types, Buffered, NEW head, Chunked(head) <=> chunked,
           NEW body, body = IF kind.head THEN <<>> ELSE Cells(localPos),
           NEW wrapped, wrapped = IF body = <<>> THEN <<>> ELSE WrapInChunk(body),
           NEW all, all = IF chunked THEN AppendZeroChunk(wrapped) ELSE body
    PROVE  /\ all \in Seq(Item) /\ InBuffer(all)
           /\ Piece(head, Resolve(all), HandedOver, BodyLength)
           /\ chunked => Len(Resolve(all)) >= 1 /\ Resolve(all)[Len(Resolve(all))].is = "zero"
<1>1. /\ BufferTyped /\ localPos \in Nat /\ position \in Nat /\ localPos <= position
      /\ localPos <= BufferSize /\ BufferSize \in Nat
  BY TypesAre, KindTyped DEF DataTypes, Buffered
<1>2. /\ body \in Seq(Item) /\ InBuffer(body)
      /\ WrapInChunk(body) \in Seq(Item) /\ InBuffer(WrapInChunk(body))
  BY RemainderTyped, TypesAre
<1>3. wrapped \in Seq(Item) /\ InBuffer(wrapped)
  BY <1>2, EmptyTyped
<1>4. HandedOver \in Nat /\ BodyLength \in Nat
  BY <1>1 DEF HandedOver, BodyLength
<1>5. Resolve(<<>>) = <<>>
  BY DEF Resolve
<1> DEFINE inner == IF chunked THEN wrapped ELSE body
<1>6. inner \in Seq(Item) /\ InBuffer(inner)
  BY <1>2, <1>3
<1>7. /\ Piece(head, Resolve(inner), HandedOver, BodyLength) /\ NotEnded(Resolve(inner))
  <2>1. CASE body = <<>>
    <3>1. inner = <<>>
      BY <2>1
    <3>2. HandedOver = BodyLength
      <4>1. CASE kind.head
        BY <4>1 DEF HandedOver, BodyLength
      <4>2. CASE ~kind.head
        <5>1. Len(Cells(localPos)) = localPos /\ Cells(localPos) = <<>>
          BY <1>1, <2>1, <4>2, CellsAreItems
        <5>2. localPos = 0
          BY <5>1
        <5> QED
          BY <1>1, <4>2, <5>2 DEF HandedOver, BodyLength
      <4> QED
        BY <4>1, <4>2
    <3> QED
      BY <1>4, <1>5, <3>1, <3>2, NothingIsPiece
  <2>2. CASE body # <<>>
    <3>1. /\ ~kind.head /\ body = Cells(localPos)
          /\ inner = IF chunked THEN WrapInChunk(body) ELSE body
      BY <2>2
    <3> DEFINE from == position - localPos
    <3>2. from \in Nat /\ HandedOver = from /\ BodyLength = from + localPos
      BY <1>1, <3>1 DEF HandedOver, BodyLength
    <3>3. Run(Resolve(body), from, localPos)
      BY <3>1, RemainderIsRun
    <3> HIDE DEF from
    <3>4. /\ ~Chunked(head) => Piece(head, Resolve(body), from, from + localPos)
                               /\ NotEnded(Resolve(body))
          /\ Chunked(head) => Piece(head, Resolve(WrapInChunk(body)), from, from + localPos)
                              /\ NotEnded(Resolve(WrapInChunk(body)))
      BY <1>1, <1>2, <3>2, <3>3, FramingIsPiece
    <3> QED
      BY <3>1, <3>2, <3>4
  <2> QED
    BY <2>1, <2>2
<1> HIDE DEF inner
<1>8. Resolve(inner) \in Seq(Item)
  BY <1>1, <1>6, ResolveItems
<1>9. CASE chunked
  <2>1. all = AppendZeroChunk(inner)
    BY <1>9 DEF inner
  <2>2. all \in Seq(Item) /\ InBuffer(all)
    BY <1>6, <2>1, ZeroTyped
  <2>3. Joins(Resolve(all), Resolve(inner), <<Just("zero")>>) /\ Resolve(all) \in Seq(Item)
    BY <1>1, <1>6, <2>1, <2>2, ZeroResolves, ResolveItems
  <2>4. Len(Resolve(all)) >= 1
    BY <1>8, <2>3 DEF Joins
  <2>5. /\ Piece(head, Resolve(all), HandedOver, BodyLength)
        /\ Resolve(all)[Len(Resolve(all))].is = "zero"
    BY <1>4, <1>7, <1>8, <1>9, <2>3, EndIsPiece
  <2> QED
    BY <2>2, <2>4, <2>5
<1>10. CASE ~chunked
  <2>1. all = inner
    BY <1>10 DEF inner
  <2> QED
    BY <1>6, <1>7, <1>10, <2>1
<1> QED
  BY <1>9, <1>10

LEMMA ResponseEndsStarted ==
    ASSUME Types, Order, Buffered, Response, FinishStarted
    PROVE  Response'
<1> DEFINE body == IF kind.head THEN <<>> ELSE Cells(localPos)
           wrapped == IF body = <<>> THEN <<>> ELSE WrapInChunk(body)
           all == IF chunked THEN AppendZeroChunk(wrapped) ELSE body
           head == Counted("head", kind.declared)
<1>1. /\ pc = "app" /\ headersSent /\ pc' = "finished"
      /\ UNCHANGED <<kind, streamVars, responseVars, keepAlive, wire, strays>>
      /\ \/ Close /\ UNCHANGED sendVars
         \/ /\ kind.declared \in {Unknown, position}
            /\ SendLast("last", all) /\ UNCHANGED outcome
  BY DEF FinishStarted
<1>2. /\ kind' = kind /\ wire' = wire /\ buffer' = buffer /\ position' = position
      /\ keepAlive' = keepAlive /\ headersSent' = headersSent
  BY <1>1 DEF streamVars, responseVars
<1>3. /\ next = NoNext /\ next.what = "nothing" /\ ~lastPacket /\ outcome # "reused"
      /\ pc \notin Waits \cup {"finished"}
  BY <1>1, Calm DEF Waits
<1>4. out = <<>> /\ tcsSend = "none"
  BY <1>1, NoCellsOut DEF Response, Writing
<1>5. CASE Close /\ UNCHANGED sendVars
  BY <1>1, <1>2, <1>3, <1>5, Stops DEF Close, sendVars
<1>6. CASE kind.declared \in {Unknown, position} /\ SendLast("last", all) /\ UNCHANGED outcome
  <2> HIDE DEF all
  <2>1. StartSend(all) /\ UNCHANGED next
    BY <1>4, <1>6 DEF SendLast
  <2>2. /\ NotEnded(Sent) /\ HasBody(Sent, HandedOver)
        /\ \E i \in DOMAIN Sent : Sent[i] = head
        /\ chunked = BecomesChunked
        /\ keepAlive => StaysAlive
    BY <1>1, <1>3 DEF Response, Underway, Writing
  <2>3. /\ kind.declared \in Nat \cup {Unknown} /\ head \in Item /\ head.is = "head"
        /\ Chunked(head) <=> chunked
    BY <2>2, HeadSays
  <2>4. /\ all \in Seq(Item) /\ InBuffer(all)
        /\ Piece(head, Resolve(all), HandedOver, BodyLength)
        /\ chunked => Len(Resolve(all)) >= 1 /\ Resolve(all)[Len(Resolve(all))].is = "zero"
    <3> HIDE DEF body, wrapped, head
    <3>1. /\ body = IF kind.head THEN <<>> ELSE Cells(localPos)
          /\ wrapped = IF body = <<>> THEN <<>> ELSE WrapInChunk(body)
          /\ all = IF chunked THEN AppendZeroChunk(wrapped) ELSE body
      BY DEF body, wrapped, all
    <3> QED
      BY <2>3, <3>1, RestIsPiece
  <2> HIDE DEF head, body, wrapped
  <2>5. Resolve(all) \in Seq(Item) /\ Sent' \in Seq(Item) /\ Joins(Sent', wire, Resolve(all))
    BY <1>2, <2>1, <2>4, SendJoins
  <2>6. wire \in Seq(Item) /\ Sent = wire
    BY <1>4, SentTyped
  <2>7. PICK h \in DOMAIN wire : wire[h] = head
    BY <2>2, <2>6
  <2>8. HandedOver \in Nat /\ BodyLength \in Nat /\ HandedOver <= BodyLength
    <3>1. localPos \in Nat /\ position \in Nat /\ localPos <= position
      BY TypesAre, KindTyped DEF DataTypes, Buffered
    <3> QED
      BY <3>1 DEF HandedOver, BodyLength
  <2>9. /\ Framed(Sent') /\ HasBody(Sent', BodyLength) /\ h \in DOMAIN Sent' /\ Sent'[h] = head
    <3>1. Framed(wire) /\ NotEnded(wire) /\ HasBody(wire, HandedOver)
      BY <2>2, <2>6 DEF Response
    <3>2. wire[h].is = "head" /\ Piece(wire[h], Resolve(all), HandedOver, BodyLength)
      BY <2>3, <2>4, <2>7
    <3> QED
      BY <2>5, <2>6, <2>7, <2>8, <3>1, <3>2, FramedJoins
  <2>10. ASSUME keepAlive PROVE Complete(Sent')
    <3>1. Delimited(Sent', head)
      <4>1. head.n = kind.declared
        BY HeadSays DEF head
      <4>2. CASE kind.declared # Unknown
        BY <1>6, <4>1, <4>2 DEF Delimited, BodyLength
      <4>3. CASE kind.declared = Unknown
        <5>1. chunked
          BY <2>2, <2>10, <4>3 DEF StaysAlive, BecomesChunked
        <5>2. Sent'[Len(Sent')].is = "zero"
          <6>1. /\ Len(Resolve(all)) \in 1..Len(Resolve(all))
                /\ Len(Sent') = Len(wire) + Len(Resolve(all))
            BY <2>4, <2>5, <5>1 DEF Joins
          <6>2. Sent'[Len(Sent')] = Resolve(all)[Len(Resolve(all))]
            BY <2>5, <6>1 DEF Joins
          <6> QED
            BY <2>4, <5>1, <6>2
        <5> QED
          BY <2>3, <5>1, <5>2 DEF Delimited
      <4> QED
        BY <4>2, <4>3
    <3> QED
      BY <2>3, <2>9, <3>1 DEF Complete
  <2>11. Framed(Sent)' /\ Framed(wire)'
    BY <1>2, <2>9, FramedStays DEF Response
  <2>12. Ending'
    <3>1. keepAlive => Complete(Sent)'
      BY <1>2, <2>10, CompleteStays
    <3> QED
      BY <1>2, <1>3, <1>6, <3>1 DEF Ending
  <2>13. Starting' /\ Underway' /\ Chained'
    BY <1>1, <1>3, <2>1 DEF Starting, Underway, Chained, Waits, Writing
  <2> QED
    BY <2>11, <2>12, <2>13 DEF Response
<1> QED
  BY <1>1, <1>5, <1>6

LEMMA ResponseContinues ==
    ASSUME Types, Order, Buffered, Response, strays' = {}
    PROVE  ContinueFlush \/ ContinueLast => Response'
<1>1. ~ContinueFlush
  <2>1. ContinueFlush => "early" \in strays'
    BY DEF ContinueFlush
  <2> QED
    BY <2>1
<1>2. ASSUME ContinueLast PROVE Response'
  <2>1. /\ next.what \in {"last", "error"} /\ tcsSend = "none" /\ StartSend(next.items)
        /\ keepAlive' = (keepAlive /\ next.what = "last") /\ next' = NoNext
        /\ UNCHANGED <<kind, streamVars, responseVars, tcsSend, wire, pc, outcome, strays>>
    BY <1>2 DEF ContinueLast
  <2>2. NoNext.what = "nothing" /\ next # NoNext
    BY <2>1 DEF NoNext
  <2>3. pc = "finished" /\ outcome # "reused" /\ Early
    BY <2>1, <2>2 DEF Order, Response, Chained
  <2>4. /\ kind' = kind /\ wire' = wire /\ buffer' = buffer /\ position' = position
        /\ pc' = pc /\ outcome' = outcome
    BY <2>1 DEF streamVars
  <2>5. Framed(wire)'
    BY <2>4, FramedStays DEF Response
  <2>6. Starting' /\ Underway'
    BY <2>3, <2>4 DEF Starting, Underway, Waits, Writing
  <2>7. Chained'
    BY <2>1, <2>2 DEF Chained
  <2>8. CASE next.what = "last"
    <3>1. /\ next.items = OptimallyMerge(WholeBody, WholeLength)
          /\ HandedOver = 0
          /\ keepAlive /\ kind.head => ~(kind.declared = Unknown /\ kind.http10)
      BY <2>8 DEF Response, Chained
    <3>2. /\ Framed(Sent)'
          /\ (kind.head => ~(kind.declared = Unknown /\ kind.http10)) => Complete(Sent)'
      BY <2>1, <2>3, <2>4, <3>1, WholeIsFramed DEF Early
    <3>3. keepAlive' => keepAlive
      BY <2>1
    <3>4. Ending'
      BY <2>3, <2>4, <3>1, <3>2, <3>3 DEF Ending
    <3> QED
      BY <2>5, <2>6, <2>7, <3>2, <3>4 DEF Response
  <2>9. CASE next.what = "error"
    <3> DEFINE e == Just("error")
    <3>1. StartSend(<<e>>)
      BY <2>1, <2>9 DEF Response, Chained
    <3>2. <<e>> \in Seq(Item) /\ InBuffer(<<e>>) /\ e \in Item /\ e.is = "error"
      BY JustTyped, JustIsItem
    <3> HIDE DEF e
    <3>3. Framed(Sent)'
      BY <2>3, <2>4, <3>1, <3>2, ErrorIsFramed
    <3>4. Ending'
      BY <2>1, <2>3, <2>4, <2>9 DEF Ending
    <3> QED
      BY <2>5, <2>6, <2>7, <3>3, <3>4 DEF Response
  <2> QED
    BY <2>1, <2>8, <2>9
<1> QED
  BY <1>1, <1>2

LEMMA ResponseInit == Init => Response
<1> SUFFICES ASSUME Init PROVE Response
  OBVIOUS
<1>1. Types
  BY TypesInit
<1>2. Early /\ out = <<>> /\ pc = "app" /\ ~headersSent /\ next = NoNext /\ ~lastPacket
      /\ outcome = "open" /\ position = 0 /\ localPos = 0
  BY DEF Init, Early, Interim
<1>3. /\ Interim(Sent) /\ Framed(Sent) /\ NotEnded(Sent) /\ HasBody(Sent, 0) /\ Sent = wire
  BY <1>1, <1>2, EarlySent, SentTyped
<1>4. HandedOver = 0
  BY <1>2 DEF HandedOver
<1>5. next.what = "nothing"
  BY <1>2 DEF NoNext
<1>6. Starting /\ Underway
  BY <1>2, <1>3, <1>4 DEF Starting, Underway, Writing
<1>7. Chained /\ Ending
  BY <1>2, <1>5 DEF Chained, Ending
<1> QED
  BY <1>3, <1>6, <1>7 DEF Response

LEMMA ResponseNext ==
    ASSUME Types, Types', Order, Buffered, Response, strays' = {}, [Next]_vars
    PROVE  Response'
<1>1. CASE Next
  <2>1. (\E n \in Writes : Write(n)) \/ Flush \/ OverflowFlush \/ DirectWrite \/ OverflowFill
        => Response'
    BY ResponseRuns
  <2>2. /\ Send100Continue \/ AppThrows => Response'
        /\ FinishWhole \/ FaultedResponseFinished => Response'
        /\ FinishStarted => Response'
        /\ FinishSend \/ FinishSendFailed => Response'
        /\ ContinueFlush \/ ContinueLast => Response'
    BY ResponseAsks, ResponseEndsWhole, ResponseEndsStarted, ResponseAnswers, ResponseContinues
  <2> QED
    BY <1>1, <2>1, <2>2 DEF Next, Application, Sends
<1>2. CASE UNCHANGED vars
  <2>1. /\ UNCHANGED <<kind, streamVars, responseVars, keepAlive, sendVars, wire, pc, outcome>>
    BY <1>2 DEF vars
  <2>2. /\ kind' = kind /\ wire' = wire /\ buffer' = buffer /\ position' = position
        /\ localPos' = localPos /\ outcome' = outcome /\ headersSent' = headersSent
        /\ chunked' = chunked /\ keepAlive' = keepAlive /\ next' = next /\ out' = out
        /\ sending' = sending /\ lastPacket' = lastPacket /\ pc' = pc
    BY <2>1 DEF streamVars, responseVars, sendVars
  <2>3. Sent' = Sent /\ HandedOver' = HandedOver
    BY <2>2, SentStays DEF HandedOver
  <2>4. Framed(wire)' /\ Framed(Sent)'
    BY <2>2, <2>3, FramedStays DEF Response
  <2>5. Starting'
    BY <2>2 DEF Response, Starting, Early, Interim
  <2>6. Underway'
    <3> SUFFICES ASSUME pc \in Waits \cup Writing, next.what # "flush" PROVE Underway'
      BY <2>2 DEF Underway
    <3>1. /\ NotEnded(Sent) /\ HasBody(Sent, HandedOver)
          /\ headersSent =>
                /\ \E i \in DOMAIN Sent : Sent[i] = Counted("head", kind.declared)
                /\ chunked = BecomesChunked
                /\ keepAlive => StaysAlive
      BY DEF Response, Underway
    <3>2. NotEnded(Sent)' /\ HasBody(Sent, HandedOver)'
      BY <2>3, <3>1 DEF NotEnded, HasBody
    <3>3. headersSent' =>
              /\ (\E i \in DOMAIN Sent : Sent[i] = Counted("head", kind.declared))'
              /\ chunked' = BecomesChunked'
              /\ keepAlive' => StaysAlive'
      BY <2>2, <2>3, <3>1 DEF Counted, BecomesChunked, StaysAlive
    <3> QED
      BY <3>2, <3>3 DEF Underway
  <2>7. Chained'
    <3>1. WholeBody' = WholeBody /\ WholeLength' = WholeLength
      BY <2>2 DEF WholeBody, WholeLength, Cells
    <3>2. OptimallyMerge(WholeBody, WholeLength)' = OptimallyMerge(WholeBody, WholeLength)
      BY <2>2, <3>1 DEF OptimallyMerge, Resolve, Counted
    <3> QED
      BY <2>2, <2>3, <3>2 DEF Response, Chained, Early, Interim
  <2>8. Ending'
    <3>1. /\ Complete(Sent) => Complete(Sent)'
          /\ Complete(wire) => Complete(wire)'
      BY <2>2, <2>3, CompleteStays
    <3> QED
      BY <2>2, <3>1 DEF Response, Ending
  <2> QED
    BY <2>4, <2>5, <2>6, <2>7, <2>8 DEF Response
<1> QED
  BY <1>1, <1>2

----------------------------------------------------------------------------
(* The theorems                                                            *)

LEMMA StraysStay ==
    ASSUME [Next]_vars PROVE strays \subseteq strays'
<1>1. CASE Next
  <2>1. /\ \A n \in Writes : Write(n) => strays \subseteq strays'
        /\ OverflowFill \/ AppThrows \/ Send100Continue => strays \subseteq strays'
    BY DEF Write, OverflowFill, AppThrows, Send100Continue
  <2>2. Flush \/ OverflowFlush \/ DirectWrite => strays \subseteq strays'
    BY DEF Flush, OverflowFlush, DirectWrite, FlushAsyncCore, WriteAsync
  <2>3. FinishWhole \/ FinishStarted \/ FaultedResponseFinished => strays \subseteq strays'
    BY DEF FinishWhole, FinishStarted, FaultedResponseFinished
  <2>4. Sends \/ ContinueFlush \/ ContinueLast => strays \subseteq strays'
    BY DEF Sends, FinishSend, FinishSendFailed, ContinueFlush, ContinueLast
  <2> QED
    BY <1>1, <2>1, <2>2, <2>3, <2>4 DEF Next, Application
<1>2. CASE UNCHANGED vars
  BY <1>2 DEF vars
<1> QED
  BY <1>1, <1>2

(* What the proofs below rest on: who waits for whom, what is still in the  *)
(* buffer, and that what was sent and what is being sent are, together, a   *)
(* response as far as it has come, as long as nothing strayed (the sends of *)
(* T2H 712-930).                                                            *)
THEOREM InvHolds == Spec => []Inv
<1>1. Init => Inv
  BY TypesInit, OrderInit, BufferedInit, ResponseInit DEF Inv
<1>2. Inv /\ [Next]_vars => Inv'
  <2> SUFFICES ASSUME Inv, [Next]_vars PROVE Inv'
    OBVIOUS
  <2>1. Types /\ Order /\ Buffered
    BY DEF Inv
  <2>2. Types' /\ Order' /\ Buffered'
    BY <2>1, TypesNext, OrderNext, BufferedNext
  <2>3. ASSUME strays' = {} PROVE Response'
    <3>1. strays = {}
      BY <2>3, StraysStay
    <3>2. Response
      BY <3>1 DEF Inv
    <3> QED
      BY <2>1, <2>2, <2>3, <3>2, ResponseNext
  <2> QED
    BY <2>2, <2>3 DEF Inv
<1> QED
  BY <1>1, <1>2, PTL DEF Spec

(* The variables have their types: no write goes behind the buffer's end    *)
(* (ReqRespStream 231-252), and no place of the buffer is left unresolved   *)
(* when it is on the wire.                                                  *)
THEOREM TypeCorrect == Spec => []TypeOK
<1>1. Inv => TypeOK
  BY DEF Inv, Types
<1> QED
  BY <1>1, InvHolds, PTL

(* The client gets interim responses, one head, the body's bytes in the     *)
(* order they were written, in chunks as long as they say, and nothing      *)
(* behind the end (ReqRespStream 231-252, T2H 830-885), for every size of   *)
(* the buffer and of the writes, and whichever send fails; unless a flush   *)
(* was chained behind the interim response or 100 was sent behind the head. *)
THEOREM ResponseIsIntact == Spec => []Intact
<1>1. Inv => Intact
  BY DEF Inv, Response, Framed, Intact
<1> QED
  BY <1>1, InvHolds, PTL

(* A connection is used for another request only after a response that its  *)
(* own framing delimits and that has all that was written (T2H 712-828).    *)
THEOREM ReusedIsComplete == Spec => []ReusedComplete
<1>1. Inv => ReusedComplete
  BY DEF Inv, Response, Ending, ReusedComplete
<1> QED
  BY <1>1, InvHolds, PTL
=============================================================================
