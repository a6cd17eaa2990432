------------------------- MODULE RequestBodyProofs --------------------------
(***************************************************************************)
(* What holds of RequestBody for every body, every number of receivers,    *)
(* every size of the buffer and of the reads, as long as the buffer is not *)
(* reset between the accesses of a reader that found it empty.             *)
(***************************************************************************)
EXTENDS RequestBody, ChunkedDecoderProofs, FiniteSetTheorems

----------------------------------------------------------------------------
(* The inductive invariant                                                 *)

Serving(t) == pc[t] \in {"loaded", "decode", "copied", "process"}
Locking(t) == pc[t] \in {"loop", "fullness"}

(* Where the two kinds of threads can be.                                   *)
PlacesInv ==
    /\ pc \in [Threads -> Points]
    /\ pc[App] \notin {"idle", "closed", "told"}
    /\ \A r \in Receivers : pc[r] \notin {"app", "loaded", "startNext", "await", "done", "failed"}

TypesInv ==
    /\ body \in Bodies
    /\ sent \in 0..Len(body.wire) /\ requested \in {0, None}
    /\ buffer \in [0..(BufferSize - 1) -> 0..Len(body.wire)]
    /\ pos \in Nat /\ full \in 0..BufferSize /\ pos <= full
    /\ gone \in BOOLEAN /\ receiving \in BOOLEAN /\ clientClosed \in BOOLEAN
    /\ cancelled \in BOOLEAN /\ started \in BOOLEAN /\ draining \in BOOLEAN
    /\ contentLength \in Nat /\ asked \in Nat /\ asyncCount \in Nat /\ asyncResult \in Nat
    /\ tcs \in {"none", "pending", "result", "canceled"}
    /\ taken \in Seq(0..Len(body.wire))
    /\ avail \in 0..BufferSize /\ ofs \in 0..BufferSize

(* A read is served by one thread, by the reader first, by the lock's       *)
(* holder once it was announced; and none is left over when it has ended.   *)
ServeInv ==
    /\ \A t, u \in Threads : Locking(t) /\ Locking(u) => t = u
    /\ \A t, u \in Threads : Serving(t) /\ Serving(u) => t = u
    /\ started => \A t \in Threads : ~Serving(t)
    /\ tcs # "pending" => ~started /\ \A r \in Receivers : ~Serving(r)
    /\ tcs = "none" => pc[App] \in {"app", "loaded", "decode", "copied", "done", "failed"}
    /\ tcs = "pending" => pc[App] \notin {"app", "loaded", "done", "failed"}
    /\ tcs \in {"result", "canceled"} => ~Serving(App)
    /\ tcs = "canceled" => pc[App] \notin {"app", "done"}

(* The buffer stands still while it is read, and is empty while it is       *)
(* received into.                                                           *)
BufferInv ==
    /\ \A t \in Threads : pc[t] = "process" => pos < full
    /\ \A t \in Threads : pc[t] = "decode" =>
          /\ pos < full /\ pos <= ofs /\ ofs <= full
          /\ avail = full - ofs
          /\ body.chunked
    /\ \A t \in Threads : pc[t] = "fullness" =>
          /\ pos = 0
          /\ \A u \in Threads : pc[u] \notin {"process", "decode"}
    /\ receiving => pos = 0 /\ full = 0
    /\ requested = 0 => receiving /\ \A t \in Threads : pc[t] # "start"
    /\ \A t \in Threads : pc[t] = "start" => receiving
    /\ \A t, u \in Threads : pc[t] = "start" /\ pc[u] = "start" => t = u

(* How far a read has come.                                                 *)
CountsInv ==
    /\ Len(taken) + asyncCount <= contentLength
    /\ ReadInProgress => asyncCount + asyncResult = asked \/ Len(taken) + asyncCount = contentLength
    /\ draining /\ ReadInProgress => asked = BufferSize
    /\ tcs = "result" => asyncCount = 0
    /\ pc[App] = "done" => Len(taken) = contentLength
    /\ ~body.chunked => contentLength = Len(body.data)

(* The place of the next byte on the wire that nobody has taken, and what   *)
(* the buffer holds from there on.                                          *)
Unconsumed == IF \E t \in Threads : pc[t] = "decode" THEN ofs
         ELSE IF \E t \in Threads : pc[t] = "fullness" THEN full
         ELSE pos
NextPlace == sent - (full - Unconsumed) + 1
ContentInv ==
    /\ NextPlace >= 1
    /\ \A i \in Unconsumed..(full - 1) : buffer[i] = NextPlace + (i - Unconsumed)
    /\ \A i \in DOMAIN taken : 1 <= taken[i] /\ taken[i] < NextPlace
    /\ \A i, j \in DOMAIN taken : i < j => taken[i] < taken[j]
    /\ ~body.chunked => /\ NextPlace = Len(taken) + 1
                        /\ \A i \in DOMAIN taken : taken[i] = i

IInv == PlacesInv /\ TypesInv /\ ServeInv /\ BufferInv /\ CountsInv /\ ContentInv /\ DecoderInv

----------------------------------------------------------------------------
(* Copies                                                                  *)

(* The least of two or three numbers.                                       *)
LEMMA MinOfTwo ==
    ASSUME NEW a \in Nat, NEW b \in Nat
    PROVE  /\ Min({a, b}) \in Nat /\ Min({a, b}) <= a /\ Min({a, b}) <= b
           /\ Min({a, b}) \in {a, b}
<1>1. PICK m \in {a, b} : \A y \in {a, b} : m <= y
  OBVIOUS
<1>2. Min({a, b}) \in {a, b} /\ \A y \in {a, b} : Min({a, b}) <= y
  BY <1>1 DEF Min
<1> QED
  BY <1>2

LEMMA MinOfThree ==
    ASSUME NEW a \in Nat, NEW b \in Nat, NEW c \in Nat
    PROVE  /\ Min({a, b, c}) \in Nat
           /\ Min({a, b, c}) <= a /\ Min({a, b, c}) <= b /\ Min({a, b, c}) <= c
           /\ Min({a, b, c}) \in {a, b, c}
<1>1. PICK m \in {a, b, c} : \A y \in {a, b, c} : m <= y
  OBVIOUS
<1>2. Min({a, b, c}) \in {a, b, c} /\ \A y \in {a, b, c} : Min({a, b, c}) <= y
  BY <1>1 DEF Min
<1> QED
  BY <1>2

(* What n bytes copied from place i of the buffer do to the history.        *)
Appended(i, n) ==
    /\ taken' \in Seq(0..Len(body.wire))
    /\ Len(taken') = Len(taken) + n
    /\ \A k \in 1..Len(taken) : taken'[k] = taken[k]
    /\ \A k \in (Len(taken) + 1)..(Len(taken) + n) : taken'[k] = buffer[i + k - Len(taken) - 1]

LEMMA CopyAppends ==
    ASSUME TypesInv, NEW i \in Nat, NEW n \in Nat, i + n <= BufferSize, Copy(i, n)
    PROVE  Appended(i, n)
<1> DEFINE S == 0..Len(body.wire)
           bytes == [k \in 1..n |-> buffer[i + k - 1]]
<1>1. taken \in Seq(S) /\ buffer \in [0..(BufferSize - 1) -> S] /\ BufferSize \in Nat
  BY BodyAssumption DEF TypesInv
<1>2. \A k \in 1..n : i + k - 1 \in 0..(BufferSize - 1)
  BY <1>1
<1>3. bytes \in Seq(S) /\ Len(bytes) = n
  BY <1>1, <1>2
<1>4. taken' = taken \o bytes
  BY DEF Copy
<1> HIDE DEF S, bytes
<1>5. taken' \in Seq(S) /\ Len(taken') = Len(taken) + n
  BY <1>1, <1>3, <1>4
<1>6. \A k \in 1..Len(taken) : taken'[k] = taken[k]
  BY <1>1, <1>3, <1>4
<1>7. ASSUME NEW k \in (Len(taken) + 1)..(Len(taken) + n)
      PROVE  taken'[k] = buffer[i + k - Len(taken) - 1]
  <2>1. taken'[k] = bytes[k - Len(taken)] /\ k - Len(taken) \in 1..n
    BY <1>1, <1>3, <1>4
  <2>2. bytes[k - Len(taken)] = buffer[i + (k - Len(taken)) - 1]
    BY <2>1 DEF bytes
  <2>3. i + (k - Len(taken)) - 1 = i + k - Len(taken) - 1
    BY <1>1
  <2> QED
    BY <2>1, <2>2, <2>3
<1> QED
  BY <1>5, <1>6, <1>7 DEF Appended, S

LEMMA NothingAppended ==
    ASSUME TypesInv, NEW i, UNCHANGED taken
    PROVE  Appended(i, 0)
  BY DEF Appended, TypesInv

(* Where the threads are.                                                   *)
LEMMA PlacesStep ==
    ASSUME PlacesInv, [Next]_vars
    PROVE  PlacesInv'
<1> USE BodyAssumption DEF PlacesInv, Threads, Points
<1>1. ASSUME NEW count \in Counts, AppRead(count) PROVE PlacesInv'
  BY <1>1 DEF AppRead, ReadSyncPart, At, Go
<1>2. ASSUME DrainRead PROVE PlacesInv'
  BY <1>2 DEF DrainRead, ReadSyncPart, At, Go
<1>3. ASSUME ReadBuffered PROVE PlacesInv'
  BY <1>3 DEF ReadBuffered, ProcessDataInternal, ProcessPlain, StartDecoding, At, Go
<1>4. ASSUME NEW t \in Threads, Process(t) PROVE PlacesInv'
  BY <1>4 DEF Process, ProcessDataInternal, ProcessPlain, StartDecoding, At, Go
<1>5. ASSUME NEW t \in Threads, Decode(t) PROVE PlacesInv'
  BY <1>5 DEF Decode
<1>6. ASSUME NEW t \in Threads, DecodeEnd(t) PROVE PlacesInv'
  BY <1>6 DEF DecodeEnd, At, Go
<1>7. ASSUME ReadFromBuffer PROVE PlacesInv'
  BY <1>7 DEF ReadFromBuffer, Returned, At, Go
<1>8. ASSUME ReadOverflowAsync PROVE PlacesInv'
  BY <1>8 DEF ReadOverflowAsync, At, Go
<1>9. ASSUME StartNextReceive PROVE PlacesInv'
  BY <1>9 DEF StartNextReceive, LockFree, At, Go
<1>10. ASSUME ReadCompleted PROVE PlacesInv'
  BY <1>10 DEF ReadCompleted, Returned, At, Go
<1>11. ASSUME ReadFailed PROVE PlacesInv'
  BY <1>11 DEF ReadFailed, At, Go
<1>12. ASSUME AppEnds PROVE PlacesInv'
  BY <1>12 DEF AppEnds, RequestPosition, At, Go
<1>13. ASSUME NEW t \in Threads, TakeRead(t) PROVE PlacesInv'
  BY <1>13 DEF TakeRead, ReadWaits, ReceiveDataLength, At, Go
<1>14. ASSUME NEW t \in Threads, Processed(t) PROVE PlacesInv'
  BY <1>14 DEF Processed, At, Go
<1>15. ASSUME NEW t \in Threads, Relock(t) PROVE PlacesInv'
  BY <1>15 DEF Relock, LockFree, At, Go
<1>16. ASSUME NEW t \in Threads, LeaveUnread(t) PROVE PlacesInv'
  BY <1>16 DEF LeaveUnread, Home, At, Go
<1>17. ASSUME NEW t \in Threads, ResetPos(t) PROVE PlacesInv'
  BY <1>17 DEF ResetPos, At, Go
<1>18. ASSUME NEW t \in Threads, ResetFullness(t) PROVE PlacesInv'
  BY <1>18 DEF ResetFullness, Home, At, Go
<1>19. ASSUME NEW t \in Threads, RealStartNextReceive(t) PROVE PlacesInv'
  BY <1>19 DEF RealStartNextReceive, Home, At, Go
<1>20. ASSUME NEW r \in Receivers, NEW n \in 1..BufferSize, FinishReceive(r, n) PROVE PlacesInv'
  BY <1>20 DEF FinishReceive, LockFree, At, Go
<1>21. ASSUME NEW r \in Receivers, FinishReceiveClosed(r) PROVE PlacesInv'
  BY <1>21 DEF FinishReceiveClosed, LockFree, At, Go
<1>22. ASSUME NEW r \in Receivers, SetClientClosed(r) PROVE PlacesInv'
  BY <1>22 DEF SetClientClosed, At, Go
<1>23. ASSUME NEW r \in Receivers, TellReader(r) PROVE PlacesInv'
  BY <1>23 DEF TellReader, At, Go
<1>24. CASE UNCHANGED vars
  BY <1>24 DEF vars
<1> QED
  BY <1>1, <1>2, <1>3, <1>4, <1>5, <1>6, <1>7, <1>8, <1>9, <1>10, <1>11, <1>12, <1>13,
     <1>14, <1>15, <1>16, <1>17, <1>18, <1>19, <1>20, <1>21, <1>22, <1>23, <1>24
     DEF Next, Reader, Serve, Closing, Client

(* What a thread that serves the read does to its counts: a body with a     *)
(* length, and the data of a chunk.                                         *)
Served(place, n) ==
    /\ n <= asyncCount
    /\ Appended(place, n)
    /\ asyncCount' = asyncCount - n /\ asyncResult' = asyncResult + n

LEMMA PlainServes ==
    ASSUME TypesInv, NEW t, NEW n \in Nat, pos + n <= full, ProcessPlain(t, n)
    PROVE  \E len \in Nat :
              /\ Served(pos, len) /\ pos' = pos + len
              /\ len <= n /\ len \in {asyncCount, n}
<1> DEFINE len == Min({asyncCount, n})
<1>1. asyncCount \in Nat /\ asyncResult \in Nat /\ pos \in Nat /\ full \in 0..BufferSize /\ BufferSize \in Nat
  BY BodyAssumption DEF TypesInv
<1>2. /\ len \in Nat /\ len <= asyncCount /\ len <= n /\ len \in {asyncCount, n}
  BY <1>1, MinOfTwo
<1>3. /\ len > 0 => Copy(pos, len) /\ pos' = pos + len
      /\ ~(len > 0) => UNCHANGED <<taken, asyncCount, asyncResult, pos>>
  BY DEF ProcessPlain
<1> HIDE DEF len
<1>4. CASE len > 0
  <2>1. Appended(pos, len)
    BY <1>1, <1>2, <1>3, <1>4, CopyAppends
  <2> QED
    BY <1>2, <1>3, <1>4, <2>1 DEF Served, Copy
<1>5. CASE len = 0
  <2>1. Appended(pos, 0)
    BY <1>3, <1>5, NothingAppended
  <2> QED
    BY <1>1, <1>2, <1>3, <1>5, <2>1 DEF Served
<1> QED
  BY <1>2, <1>4, <1>5

LEMMA DataServes ==
    ASSUME TypesInv, DecoderInv, DecodeData, asyncCount > 0, avail > 0, ofs + avail <= BufferSize
    PROVE  \E n \in 1..DataAvailable(decoder) :
              /\ Eat(n) /\ n <= avail
              /\ Served(ofs, n) /\ ofs' = ofs + n /\ avail' = avail - n
<1> DEFINE n == Min({DataAvailable(decoder), avail, asyncCount})
<1>1. /\ asyncCount \in Nat /\ avail \in Nat /\ ofs \in Nat /\ BufferSize \in Nat
      /\ DataAvailable(decoder) \in Nat /\ DataAvailable(decoder) > 0
  BY BodyAssumption, IntMaxAssumption
     DEF TypesInv, DecoderInv, DecoderOK, Decoder, DataAvailable, DecodeData
<1>2. /\ n \in Nat /\ n <= DataAvailable(decoder) /\ n <= avail /\ n <= asyncCount
      /\ n \in {DataAvailable(decoder), avail, asyncCount}
  BY <1>1, MinOfThree
<1>3. Eat(n) /\ Copy(ofs, n) /\ ofs' = ofs + n /\ avail' = avail - n
  BY DEF DecodeData
<1> HIDE DEF n
<1>4. n \in 1..DataAvailable(decoder)
  BY <1>1, <1>2
<1>5. Appended(ofs, n)
  BY <1>1, <1>2, <1>3, CopyAppends
<1> QED
  BY <1>2, <1>3, <1>4, <1>5 DEF Served, Copy

LEMMA UnreadFits ==
    ASSUME TypesInv
    PROVE  /\ Unread \in Nat /\ pos + Unread <= full
           /\ ReceiveDataLength \in Nat /\ pos + ReceiveDataLength = full
  BY BodyAssumption DEF TypesInv, Unread, ReceiveDataLength

LEMMA ProcessTypes ==
    ASSUME TypesInv, NEW t, NEW n \in Nat, pos + n <= full, ProcessDataInternal(t, n), started' \in BOOLEAN
    PROVE  TypesInv'
<1> USE BodyAssumption DEF ProcessDataInternal, transportVars, TypesInv
<1>1. CASE body.chunked
  BY <1>1 DEF StartDecoding
<1>2. CASE ~body.chunked
  <2>1. PICK len \in Nat : /\ Served(pos, len) /\ pos' = pos + len
                           /\ len <= n /\ len \in {asyncCount, n}
    BY <1>2, PlainServes
  <2>2. UNCHANGED <<contentLength, decoder, avail, ofs>>
    BY <1>2 DEF ProcessPlain
  <2>3. pos' \in Nat /\ pos' <= full /\ asyncCount' \in Nat /\ asyncResult' \in Nat
    BY <2>1 DEF Served
  <2> QED
    BY <2>1, <2>2, <2>3 DEF Served, Appended
<1> QED
  BY <1>1, <1>2

(* Types.                                                                   *)
LEMMA TypesStep ==
    ASSUME ~ResetRaces, PlacesInv, TypesInv, BufferInv, CountsInv, DecoderInv, [Next]_vars
    PROVE  TypesInv'
<1> USE BodyAssumption DEF TypesInv
<1>1. ASSUME NEW count \in Counts, AppRead(count) PROVE TypesInv'
  <2>1. /\ contentLength \in Nat /\ RequestPosition \in Nat /\ RequestPosition <= contentLength
    BY DEF CountsInv, RequestPosition
  <2>2. ASSUME NEW n \in Nat, ReadSyncPart(n) PROVE TypesInv'
    <3>1. asyncCount' \in Nat /\ avail' \in 0..BufferSize
      BY <2>1, <2>2 DEF ReadSyncPart
    <3> QED
      BY <2>2, <3>1 DEF ReadSyncPart, transportVars, receiveVars
  <2> QED
    BY <1>1, <2>2 DEF AppRead
<1>2. ASSUME DrainRead PROVE TypesInv'
  <2>1. /\ contentLength \in Nat /\ RequestPosition \in Nat /\ RequestPosition <= contentLength
    BY DEF CountsInv, RequestPosition
  <2>2. ASSUME NEW n \in Nat, ReadSyncPart(n) PROVE TypesInv'
    <3>1. asyncCount' \in Nat /\ avail' \in 0..BufferSize
      BY <2>1, <2>2 DEF ReadSyncPart
    <3> QED
      BY <2>2, <3>1 DEF ReadSyncPart, transportVars, receiveVars
  <2> QED
    BY <1>2, <2>2 DEF DrainRead
<1>3. ASSUME ReadBuffered PROVE TypesInv'
  <2>1. ProcessDataInternal(App, Unread) /\ UNCHANGED started
    BY <1>3 DEF ReadBuffered
  <2> QED
    BY <2>1, UnreadFits, ProcessTypes
<1>4. ASSUME NEW t \in Threads, Process(t) PROVE TypesInv'
  <2>1. ProcessDataInternal(t, ReceiveDataLength) /\ UNCHANGED started
    BY <1>4 DEF Process
  <2>2. ReceiveDataLength \in Nat /\ pos + ReceiveDataLength <= full
    BY UnreadFits
  <2> QED
    BY ONLY <2>1, <2>2, ProcessTypes, TypesInv DEF TypesInv
<1>5. ASSUME NEW t \in Threads, Decode(t) PROVE TypesInv'
  <2>1. /\ avail > 0 /\ asyncCount > 0 /\ avail = full - ofs
    BY <1>5 DEF Decode, At, BufferInv
  <2>2. RequestPosition \in Nat
    BY DEF RequestPosition
  <2>3. UNCHANGED <<body, transportVars, receiveVars, started, asked, tcs, draining, pc>>
    BY <1>5 DEF Decode
  <2>4. CASE DecodeByte
    BY <2>1, <2>2, <2>3, <2>4 DEF DecodeByte, transportVars, receiveVars
  <2>5. CASE DecodeData
    <3>1. PICK n \in 1..DataAvailable(decoder) : /\ Eat(n) /\ n <= avail
              /\ Served(ofs, n) /\ ofs' = ofs + n /\ avail' = avail - n
      BY <2>1, <2>5, DataServes
    <3>2. n \in Nat /\ contentLength' = contentLength
      BY <2>5 DEF DecodeData
    <3>3. avail' \in 0..BufferSize /\ ofs' \in 0..BufferSize /\ asyncCount' \in Nat /\ asyncResult' \in Nat
      BY <2>1, <3>1, <3>2 DEF Served
    <3> QED
      BY <2>3, <3>1, <3>2, <3>3 DEF Served, Appended, transportVars, receiveVars
  <2>6. CASE DecodeAfterEnd
    BY <2>1, <2>2, <2>3, <2>6 DEF DecodeAfterEnd, transportVars, receiveVars
  <2> QED
    BY <1>5, <2>4, <2>5, <2>6 DEF Decode
<1>6. ASSUME NEW t \in Threads, DecodeEnd(t) PROVE TypesInv'
  BY <1>6 DEF DecodeEnd, transportVars, readVars, BufferInv, At
<1>7. ASSUME ReadFromBuffer PROVE TypesInv'
  BY <1>7 DEF ReadFromBuffer, Returned, transportVars, receiveVars, readVars
<1>8. ASSUME ReadOverflowAsync PROVE TypesInv'
  BY <1>8 DEF ReadOverflowAsync, transportVars, receiveVars, readVars
<1>9. ASSUME StartNextReceive PROVE TypesInv'
  BY <1>9 DEF StartNextReceive, LockFree, transportVars, receiveVars, readVars
<1>10. ASSUME ReadCompleted PROVE TypesInv'
  BY <1>10 DEF ReadCompleted, Returned, transportVars, receiveVars, readVars
<1>11. ASSUME ReadFailed PROVE TypesInv'
  BY <1>11 DEF ReadFailed, transportVars, receiveVars, readVars
<1>12. ASSUME AppEnds PROVE TypesInv'
  BY <1>12 DEF AppEnds, RequestPosition, transportVars, receiveVars, readVars
<1>13. ASSUME NEW t \in Threads, TakeRead(t) PROVE TypesInv'
  BY <1>13 DEF TakeRead, ReadWaits, ReceiveDataLength, transportVars, receiveVars, readVars
<1>14. ASSUME NEW t \in Threads, Processed(t) PROVE TypesInv'
  BY <1>14 DEF Processed, transportVars, receiveVars, readVars
<1>15. ASSUME NEW t \in Threads, Relock(t) PROVE TypesInv'
  BY <1>15 DEF Relock, LockFree, transportVars, receiveVars, readVars
<1>16. ASSUME NEW t \in Threads, LeaveUnread(t) PROVE TypesInv'
  BY <1>16 DEF LeaveUnread, Home, transportVars, receiveVars, readVars
<1>17. ASSUME NEW t \in Threads, ResetPos(t) PROVE TypesInv'
  BY <1>17 DEF ResetPos, transportVars, readVars
<1>18. ASSUME NEW t \in Threads, ResetFullness(t) PROVE TypesInv'
  <2>1. pos = 0 /\ full' = 0 /\ pos' = pos
    BY <1>18 DEF ResetFullness, BufferInv, At
  <2>2. receiving' \in BOOLEAN
    BY <1>18 DEF ResetFullness
  <2> QED
    BY <1>18, <2>1, <2>2 DEF ResetFullness, transportVars, readVars
<1>19. ASSUME NEW t \in Threads, RealStartNextReceive(t) PROVE TypesInv'
  BY <1>19 DEF RealStartNextReceive, BufferInv, At, receiveVars, readVars
<1>20. ASSUME NEW r \in Receivers, NEW n \in 1..BufferSize, FinishReceive(r, n) PROVE TypesInv'
  <2>1. requested = 0 /\ n \in Nat /\ sent + n <= Len(body.wire) /\ pos = 0
    BY <1>20 DEF FinishReceive, BufferInv, None
  <2>2. UNCHANGED <<body, gone, pos, clientClosed, cancelled, started, readVars, tcs, avail, ofs, draining>>
    BY <1>20 DEF FinishReceive
  <2>3. Len(body.wire) \in Nat
    BY DEF Body
  <2>4. /\ sent' = sent + n /\ requested' = None /\ receiving' = FALSE /\ full' = n
        /\ buffer' = [i \in DOMAIN buffer |-> IF i \in 0..(n - 1) THEN sent + 1 + i ELSE buffer[i]]
    BY <1>20, <2>1 DEF FinishReceive
  <2>5. buffer' \in [0..(BufferSize - 1) -> 0..Len(body.wire)]
    BY <2>1, <2>3, <2>4
  <2>6. full' \in 0..BufferSize /\ sent' \in 0..Len(body.wire)
    BY <2>1, <2>3, <2>4
  <2> QED
    <3>1. pos' \in Nat /\ pos' <= full'
      <4>1. pos' = 0
        BY <2>1, <2>2
      <4> QED
        BY <4>1, <2>1, <2>4
    <3>4. requested' \in {0, None} /\ receiving' \in BOOLEAN
      BY <2>4
    <3>2. taken' \in Seq(0..Len(body'.wire)) /\ body' = body /\ decoder' = decoder
      BY <2>2 DEF readVars
    <3>3. /\ contentLength' \in Nat /\ asked' \in Nat /\ asyncCount' \in Nat /\ asyncResult' \in Nat
          /\ tcs' \in {"none", "pending", "result", "canceled"}
          /\ avail' \in 0..BufferSize /\ ofs' \in 0..BufferSize
          /\ gone' \in BOOLEAN /\ clientClosed' \in BOOLEAN
          /\ cancelled' \in BOOLEAN /\ started' \in BOOLEAN /\ draining' \in BOOLEAN
      BY <2>2 DEF readVars
    <3> QED
      BY ONLY TypesInv, <2>5, <2>6, <3>1, <3>2, <3>3, <3>4 DEF TypesInv
<1>21. ASSUME NEW r \in Receivers, FinishReceiveClosed(r) PROVE TypesInv'
  BY <1>21 DEF FinishReceiveClosed, LockFree, readVars
<1>22. ASSUME NEW r \in Receivers, SetClientClosed(r) PROVE TypesInv'
  BY <1>22 DEF SetClientClosed, transportVars, readVars
<1>23. ASSUME NEW r \in Receivers, TellReader(r) PROVE TypesInv'
  BY <1>23 DEF TellReader, transportVars, readVars
<1>24. CASE UNCHANGED vars
  BY <1>24 DEF vars, transportVars, receiveVars, readVars
<1> QED
  BY <1>1, <1>2, <1>3, <1>4, <1>5, <1>6, <1>7, <1>8, <1>9, <1>10, <1>11, <1>12, <1>13,
     <1>14, <1>15, <1>16, <1>17, <1>18, <1>19, <1>20, <1>21, <1>22, <1>23, <1>24
     DEF Next, Reader, Serve, Closing, Client

(* Who serves the read.                                                     *)
LEMMA ServeStep ==
    ASSUME PlacesInv, TypesInv, ServeInv, [Next]_vars
    PROVE  ServeInv'
<1> USE BodyAssumption DEF PlacesInv, ServeInv, Serving, Locking, Threads, Points
<1>1. ASSUME NEW count \in Counts, AppRead(count) PROVE ServeInv'
  BY <1>1 DEF AppRead, ReadSyncPart, At, Go
<1>2. ASSUME DrainRead PROVE ServeInv'
  BY <1>2 DEF DrainRead, ReadSyncPart, At, Go
<1>3. ASSUME ReadBuffered PROVE ServeInv'
  <2>1. pc' = [pc EXCEPT ![App] = "decode"] \/ pc' = [pc EXCEPT ![App] = "copied"]
    BY <1>3 DEF ReadBuffered, ProcessDataInternal, ProcessPlain, StartDecoding, Go
  <2> QED
    BY <1>3, <2>1 DEF ReadBuffered, ProcessDataInternal, At
<1>4. ASSUME NEW t \in Threads, Process(t) PROVE ServeInv'
  <2>1. pc' = [pc EXCEPT ![t] = "decode"] \/ pc' = [pc EXCEPT ![t] = "copied"]
    BY <1>4 DEF Process, ProcessDataInternal, ProcessPlain, StartDecoding, Go
  <2> QED
    BY <1>4, <2>1 DEF Process, ProcessDataInternal, At
<1>5. ASSUME NEW t \in Threads, Decode(t) PROVE ServeInv'
  BY <1>5 DEF Decode
<1>6. ASSUME NEW t \in Threads, DecodeEnd(t) PROVE ServeInv'
  BY <1>6 DEF DecodeEnd, At, Go
<1>7. ASSUME ReadFromBuffer PROVE ServeInv'
  BY <1>7 DEF ReadFromBuffer, Returned, At, Go
<1>8. ASSUME ReadOverflowAsync PROVE ServeInv'
  BY <1>8 DEF ReadOverflowAsync, At, Go
<1>9. ASSUME StartNextReceive PROVE ServeInv'
  BY <1>9 DEF StartNextReceive, LockFree, At, Go
<1>10. ASSUME ReadCompleted PROVE ServeInv'
  BY <1>10 DEF ReadCompleted, Returned, At, Go
<1>11. ASSUME ReadFailed PROVE ServeInv'
  BY <1>11 DEF ReadFailed, At, Go
<1>12. ASSUME AppEnds PROVE ServeInv'
  BY <1>12 DEF AppEnds, RequestPosition, At, Go
<1>13. ASSUME NEW t \in Threads, TakeRead(t) PROVE ServeInv'
  BY <1>13 DEF TakeRead, ReadWaits, ReceiveDataLength, At, Go
<1>14. ASSUME NEW t \in Threads, Processed(t) PROVE ServeInv'
  <2>1. pc[t] = "copied" /\ tcs # "none" /\ pc' = [pc EXCEPT ![t] = "relock"]
    BY <1>14 DEF Processed, At, Go
  <2>2. \A u \in Threads : pc'[u] \notin {"loaded", "decode", "copied", "process"}
    BY <2>1
  <2>3. \A u, v \in Threads : Locking(u)' /\ Locking(v)' => u = v
    BY <2>1
  <2>4. tcs = "pending" => pc[App] \notin {"app", "loaded", "done", "failed"}
    OBVIOUS
  <2>5. tcs \in {"result", "canceled"} => pc[App] # "copied"
    OBVIOUS
  <2>6. CASE asyncCount = 0
    <3>1. tcs' = (IF tcs = "pending" THEN "result" ELSE tcs) /\ started' = started
      BY <1>14, <2>6 DEF Processed
    <3>2. ~started
      BY <2>1
    <3> QED
      BY <2>1, <2>2, <2>3, <3>1, <3>2
  <2>7. CASE asyncCount # 0
    <3>1. tcs' = tcs /\ started'
      BY <1>14, <2>7 DEF Processed
    <3>2. tcs = "pending"
      BY <2>1 DEF TypesInv
    <3> QED
      BY <2>1, <2>2, <2>3, <2>4, <3>1, <3>2
  <2> QED
    BY <2>6, <2>7
<1>15. ASSUME NEW t \in Threads, Relock(t) PROVE ServeInv'
  BY <1>15 DEF Relock, LockFree, At, Go
<1>16. ASSUME NEW t \in Threads, LeaveUnread(t) PROVE ServeInv'
  BY <1>16 DEF LeaveUnread, Home, At, Go
<1>17. ASSUME NEW t \in Threads, ResetPos(t) PROVE ServeInv'
  BY <1>17 DEF ResetPos, At, Go
<1>18. ASSUME NEW t \in Threads, ResetFullness(t) PROVE ServeInv'
  BY <1>18 DEF ResetFullness, Home, At, Go
<1>19. ASSUME NEW t \in Threads, RealStartNextReceive(t) PROVE ServeInv'
  BY <1>19 DEF RealStartNextReceive, Home, At, Go
<1>20. ASSUME NEW r \in Receivers, NEW n \in 1..BufferSize, FinishReceive(r, n) PROVE ServeInv'
  BY <1>20 DEF FinishReceive, LockFree, At, Go
<1>21. ASSUME NEW r \in Receivers, FinishReceiveClosed(r) PROVE ServeInv'
  BY <1>21 DEF FinishReceiveClosed, LockFree, At, Go
<1>22. ASSUME NEW r \in Receivers, SetClientClosed(r) PROVE ServeInv'
  BY <1>22 DEF SetClientClosed, At, Go
<1>23. ASSUME NEW r \in Receivers, TellReader(r) PROVE ServeInv'
  BY <1>23 DEF TellReader, At, Go
<1>24. CASE UNCHANGED vars
  BY <1>24 DEF vars
<1> QED
  BY <1>1, <1>2, <1>3, <1>4, <1>5, <1>6, <1>7, <1>8, <1>9, <1>10, <1>11, <1>12, <1>13,
     <1>14, <1>15, <1>16, <1>17, <1>18, <1>19, <1>20, <1>21, <1>22, <1>23, <1>24
     DEF Next, Reader, Serve, Closing, Client

(* The buffer stands still where it is read or received into.               *)
LEMMA BufferStep ==
    ASSUME ~ResetRaces, PlacesInv, TypesInv, ServeInv, BufferInv, DecoderInv, [Next]_vars
    PROVE  BufferInv'
<1> USE BodyAssumption
     DEF PlacesInv, TypesInv, ServeInv, BufferInv, Serving, Locking, Threads, Points, None
<1>1. ASSUME NEW count \in Counts, AppRead(count) PROVE BufferInv'
  BY <1>1 DEF AppRead, ReadSyncPart, transportVars, receiveVars, At, Go
<1>2. ASSUME DrainRead PROVE BufferInv'
  BY <1>2 DEF DrainRead, ReadSyncPart, transportVars, receiveVars, At, Go
<1>3. ASSUME ReadBuffered PROVE BufferInv'
  <2>1. /\ ProcessDataInternal(App, Unread)
        /\ \A u \in Threads \ {App} : pc[u] \notin {"process", "decode"}
        /\ Unread > 0 => \A u \in Threads : pc[u] # "fullness"
        /\ Unread > 0 => ~receiving
        /\ UNCHANGED <<body, full, receiving, requested>>
    BY <1>3, UnreadFits DEF ReadBuffered, ProcessDataInternal, transportVars, At, Unread
  <2>2. CASE body.chunked
    <3>1. \/ pc' = [pc EXCEPT ![App] = "decode"] /\ Unread > 0
          \/ pc' = [pc EXCEPT ![App] = "copied"]
      BY <2>1, <2>2 DEF ProcessDataInternal, StartDecoding, Go
    <3>2. pos' = pos /\ ofs' = pos /\ avail' = Unread
      BY <2>1, <2>2 DEF ProcessDataInternal, StartDecoding
    <3> QED
      BY <2>1, <2>2, <3>1, <3>2, UnreadFits DEF Unread, ReceiveDataLength
  <2>3. CASE ~body.chunked
    <3> DEFINE size == Unread
    <3>1. ProcessDataInternal(App, size) /\ size \in Nat /\ pos + size <= full
      BY <2>1, UnreadFits DEF TypesInv
    <3> HIDE DEF size
    <3>2. PICK len \in Nat : pos' = pos + len /\ len <= size
      BY <2>3, <3>1, PlainServes DEF ProcessDataInternal
    <3>3. pos' = pos + len /\ len <= Unread
      BY <3>2 DEF size
    <3>4. pc' = [pc EXCEPT ![App] = "copied"] /\ UNCHANGED <<ofs, avail>>
      BY <2>1, <2>3 DEF ProcessDataInternal, ProcessPlain, Go
    <3>5. pos' = pos \/ (Unread > 0)
      BY <3>3, UnreadFits
    <3> QED
      BY <2>1, <2>3, <3>3, <3>4, <3>5
  <2> QED
    BY <2>2, <2>3
<1>4. ASSUME NEW t \in Threads, Process(t) PROVE BufferInv'
  <2>1. /\ ProcessDataInternal(t, ReceiveDataLength)
        /\ \A u \in Threads \ {t} : pc[u] \notin {"process", "decode"}
        /\ ReceiveDataLength > 0 => \A u \in Threads : pc[u] # "fullness"
        /\ ReceiveDataLength > 0 => ~receiving
        /\ UNCHANGED <<body, full, receiving, requested>>
    BY <1>4, UnreadFits
         DEF Process, ProcessDataInternal, transportVars, At, ReceiveDataLength
  <2>2. CASE body.chunked
    <3>1. \/ pc' = [pc EXCEPT ![t] = "decode"] /\ ReceiveDataLength > 0
          \/ pc' = [pc EXCEPT ![t] = "copied"]
      BY <2>1, <2>2 DEF ProcessDataInternal, StartDecoding, Go
    <3>2. pos' = pos /\ ofs' = pos /\ avail' = ReceiveDataLength
      BY <2>1, <2>2 DEF ProcessDataInternal, StartDecoding
    <3> QED
      BY <2>1, <2>2, <3>1, <3>2, UnreadFits DEF Unread, ReceiveDataLength
  <2>3. CASE ~body.chunked
    <3> DEFINE size == ReceiveDataLength
    <3>1. ProcessDataInternal(t, size) /\ size \in Nat /\ pos + size <= full
      BY <2>1, UnreadFits DEF TypesInv
    <3> HIDE DEF size
    <3>2. PICK len \in Nat : pos' = pos + len /\ len <= size
      BY <2>3, <3>1, PlainServes DEF ProcessDataInternal
    <3>3. pos' = pos + len /\ len <= ReceiveDataLength
      BY <3>2 DEF size
    <3>4. pc' = [pc EXCEPT ![t] = "copied"] /\ UNCHANGED <<ofs, avail>>
      BY <2>1, <2>3 DEF ProcessDataInternal, ProcessPlain, Go
    <3>5. pos' = pos \/ (ReceiveDataLength > 0)
      BY <3>3, UnreadFits
    <3> QED
      BY <2>1, <2>3, <3>3, <3>4, <3>5
  <2> QED
    BY <2>2, <2>3
<1>5. ASSUME NEW t \in Threads, Decode(t) PROVE BufferInv'
  <2>1. /\ pc[t] = "decode" /\ avail > 0 /\ asyncCount > 0
        /\ UNCHANGED <<body, transportVars, receiveVars, pc>>
    BY <1>5 DEF Decode, At
  <2>2. ofs + avail = full /\ ofs \in Nat /\ avail \in Nat /\ full <= BufferSize /\ ofs + avail <= BufferSize
    BY <2>1
  <2>3. ofs' \in Nat /\ avail' \in Nat /\ ofs' + avail' = ofs + avail /\ ofs <= ofs'
    <3>1. CASE DecodeByte
      BY <2>1, <2>2, <3>1 DEF DecodeByte
    <3>2. CASE DecodeData
      <4>1. PICK n \in 1..DataAvailable(decoder) : n <= avail /\ ofs' = ofs + n /\ avail' = avail - n
        BY <2>1, <2>2, <3>2, DataServes
      <4>2. n \in Nat
        OBVIOUS
      <4> QED
        BY <2>2, <4>1, <4>2
    <3>3. CASE DecodeAfterEnd
      BY <2>2, <3>3 DEF DecodeAfterEnd
    <3> QED
      BY <1>5, <3>1, <3>2, <3>3 DEF Decode
  <2>4. pos \in Nat /\ pos <= ofs
    BY <2>1
  <2>6. pos <= ofs' /\ ofs' <= full /\ avail' = full - ofs'
    <3>1. ofs' + avail' = full
      BY <2>2, <2>3
    <3>2. pos <= ofs'
      BY <2>2, <2>3, <2>4
    <3>3. full \in Nat /\ ofs' \in Nat /\ avail' \in Nat
      BY <2>2, <2>3
    <3>4. \A a, b, c \in Nat : a + b = c => a <= c /\ b = c - a
      OBVIOUS
    <3>5. ofs' <= full
      BY <3>1, <3>3, <3>4
    <3>6. avail' = full - ofs'
      BY <3>1, <3>3, <3>4
    <3> QED
      BY <3>2, <3>5, <3>6
  <2>5. UNCHANGED <<body, pos, full, receiving, requested, pc>>
    BY <2>1 DEF transportVars, receiveVars
  <2> QED
    BY <2>1, <2>5, <2>6
<1>6. ASSUME NEW t \in Threads, DecodeEnd(t) PROVE BufferInv'
  BY <1>6 DEF DecodeEnd, transportVars, readVars, At, Go
<1>7. ASSUME ReadFromBuffer PROVE BufferInv'
  BY <1>7 DEF ReadFromBuffer, Returned, transportVars, receiveVars, readVars, At, Go
<1>8. ASSUME ReadOverflowAsync PROVE BufferInv'
  BY <1>8 DEF ReadOverflowAsync, transportVars, receiveVars, readVars, At, Go
<1>9. ASSUME StartNextReceive PROVE BufferInv'
  BY <1>9 DEF StartNextReceive, LockFree, transportVars, receiveVars, readVars, At, Go
<1>10. ASSUME ReadCompleted PROVE BufferInv'
  BY <1>10 DEF ReadCompleted, Returned, transportVars, receiveVars, readVars, At, Go
<1>11. ASSUME ReadFailed PROVE BufferInv'
  BY <1>11 DEF ReadFailed, transportVars, receiveVars, readVars, At, Go
<1>12. ASSUME AppEnds PROVE BufferInv'
  BY <1>12 DEF AppEnds, RequestPosition, transportVars, receiveVars, readVars, At, Go
<1>13. ASSUME NEW t \in Threads, TakeRead(t) PROVE BufferInv'
  BY <1>13
       DEF TakeRead, ReadWaits, ReceiveDataLength, transportVars, receiveVars, readVars, At, Go
<1>14. ASSUME NEW t \in Threads, Processed(t) PROVE BufferInv'
  BY <1>14 DEF Processed, transportVars, receiveVars, readVars, At, Go
<1>15. ASSUME NEW t \in Threads, Relock(t) PROVE BufferInv'
  BY <1>15 DEF Relock, LockFree, transportVars, receiveVars, readVars, At, Go
<1>16. ASSUME NEW t \in Threads, LeaveUnread(t) PROVE BufferInv'
  BY <1>16 DEF LeaveUnread, Home, transportVars, receiveVars, readVars, At, Go
<1>17. ASSUME NEW t \in Threads, ResetPos(t) PROVE BufferInv'
  BY <1>17 DEF ResetPos, transportVars, readVars, At, Go
<1>18. ASSUME NEW t \in Threads, ResetFullness(t) PROVE BufferInv'
  BY <1>18 DEF ResetFullness, Home, transportVars, readVars, At, Go
<1>19. ASSUME NEW t \in Threads, RealStartNextReceive(t) PROVE BufferInv'
  BY <1>19 DEF RealStartNextReceive, Home, receiveVars, readVars, At, Go
<1>20. ASSUME NEW r \in Receivers, NEW n \in 1..BufferSize, FinishReceive(r, n) PROVE BufferInv'
  BY <1>20 DEF FinishReceive, LockFree, readVars, At, Go
<1>21. ASSUME NEW r \in Receivers, FinishReceiveClosed(r) PROVE BufferInv'
  BY <1>21 DEF FinishReceiveClosed, LockFree, readVars, At, Go
<1>22. ASSUME NEW r \in Receivers, SetClientClosed(r) PROVE BufferInv'
  BY <1>22 DEF SetClientClosed, transportVars, readVars, At, Go
<1>23. ASSUME NEW r \in Receivers, TellReader(r) PROVE BufferInv'
  BY <1>23 DEF TellReader, transportVars, readVars, At, Go
<1>24. CASE UNCHANGED vars
  BY <1>24 DEF vars, transportVars, receiveVars
<1> QED
  BY <1>1, <1>2, <1>3, <1>4, <1>5, <1>6, <1>7, <1>8, <1>9, <1>10, <1>11, <1>12, <1>13,
     <1>14, <1>15, <1>16, <1>17, <1>18, <1>19, <1>20, <1>21, <1>22, <1>23, <1>24
     DEF Next, Reader, Serve, Closing, Client

(* Bytes served are taken off what a read has still to get.                 *)
LEMMA ServedCounts ==
    ASSUME TypesInv, CountsInv, NEW place, NEW n \in Nat, Served(place, n),
           UNCHANGED <<body, asked, draining, contentLength, tcs>>,
           ReadInProgress <=> ReadInProgress', tcs # "result", pc'[App] # "done"
    PROVE  CountsInv'
<1>1. /\ Len(taken') = Len(taken) + n /\ asyncCount' = asyncCount - n /\ asyncResult' = asyncResult + n
      /\ Len(taken) \in Nat /\ asyncCount \in Nat /\ asyncResult \in Nat /\ n \in Nat
      /\ Len(taken') + asyncCount' = Len(taken) + asyncCount
      /\ asyncCount' + asyncResult' = asyncCount + asyncResult
  BY DEF TypesInv, Served, Appended
<1> QED
  BY <1>1 DEF CountsInv

(* How far a read has come.                                                *)
LEMMA CountsStep ==
    ASSUME ~ResetRaces, PlacesInv, TypesInv, ServeInv, BufferInv, CountsInv, DecoderInv, [Next]_vars
    PROVE  CountsInv'
<1> USE BodyAssumption
     DEF PlacesInv, TypesInv, ServeInv, CountsInv, Serving, Threads, Points, ReadInProgress
<1>1. ASSUME NEW count \in Counts, AppRead(count) PROVE CountsInv'
  BY <1>1 DEF AppRead, ReadSyncPart, transportVars, receiveVars, RequestPosition, At, Go
<1>2. ASSUME DrainRead PROVE CountsInv'
  BY <1>2 DEF DrainRead, ReadSyncPart, transportVars, receiveVars, RequestPosition, At, Go
<1>3. ASSUME ReadBuffered PROVE CountsInv'
  <2> DEFINE size == Unread
  <2>1. /\ ProcessDataInternal(App, size)
        /\ size \in Nat /\ pos + size <= full
        /\ At(App, "loaded") /\ UNCHANGED started
    BY <1>3, UnreadFits DEF ReadBuffered
  <2> HIDE DEF size
  <2>2. UNCHANGED <<body, asked, tcs, draining>>
    BY <2>1 DEF ProcessDataInternal
  <2>3. \E c \in {"decode", "copied"} : pc' = [pc EXCEPT ![App] = c]
    BY <2>1 DEF ProcessDataInternal, ProcessPlain, StartDecoding, Go
  <2>4. /\ ReadInProgress <=> ReadInProgress'
        /\ pc'[App] # "done" /\ tcs # "result" /\ pc[App] # "done"
    BY <2>1, <2>3 DEF ServeInv, Serving, PlacesInv, At, ReadInProgress, Threads
  <2>5. CASE body.chunked
    BY <2>1, <2>2, <2>4, <2>5 DEF CountsInv, ProcessDataInternal, StartDecoding
  <2>6. CASE ~body.chunked
    <3>1. contentLength' = contentLength
      BY <2>1, <2>6 DEF ProcessDataInternal, ProcessPlain
    <3>2. PICK len \in Nat : Served(pos, len)
      BY <2>1, <2>6, PlainServes DEF ProcessDataInternal
    <3> QED
      BY <2>2, <2>4, <3>1, <3>2, ServedCounts
  <2> QED
    BY <2>5, <2>6
<1>4. ASSUME NEW t \in Threads, Process(t) PROVE CountsInv'
  <2> DEFINE size == ReceiveDataLength
  <2>1. /\ ProcessDataInternal(t, size)
        /\ size \in Nat /\ pos + size <= full
        /\ At(t, "process") /\ UNCHANGED started
    BY <1>4, UnreadFits DEF Process, TypesInv
  <2> HIDE DEF size
  <2>2. UNCHANGED <<body, asked, tcs, draining>>
    BY <2>1 DEF ProcessDataInternal
  <2>3. \E c \in {"decode", "copied"} : pc' = [pc EXCEPT ![t] = c]
    BY <2>1 DEF ProcessDataInternal, ProcessPlain, StartDecoding, Go
  <2>4. /\ ReadInProgress <=> ReadInProgress'
        /\ pc'[App] # "done" /\ tcs # "result" /\ pc[App] # "done"
    BY <2>1, <2>3 DEF ServeInv, Serving, PlacesInv, At, ReadInProgress, Threads
  <2>5. CASE body.chunked
    BY <2>1, <2>2, <2>4, <2>5 DEF CountsInv, ProcessDataInternal, StartDecoding
  <2>6. CASE ~body.chunked
    <3>1. contentLength' = contentLength
      BY <2>1, <2>6 DEF ProcessDataInternal, ProcessPlain
    <3>2. PICK len \in Nat : Served(pos, len)
      BY <2>1, <2>6, PlainServes DEF ProcessDataInternal
    <3> QED
      BY <2>2, <2>4, <3>1, <3>2, ServedCounts
  <2> QED
    BY <2>5, <2>6
<1>5. ASSUME NEW t \in Threads, Decode(t) PROVE CountsInv'
  <2>1. /\ pc[t] = "decode" /\ avail > 0 /\ asyncCount > 0 /\ ofs + avail <= BufferSize
        /\ body.chunked
        /\ UNCHANGED <<body, transportVars, receiveVars, pc, asked, tcs, draining>>
    BY <1>5 DEF Decode, At, BufferInv, TypesInv
  <2>2. /\ ReadInProgress <=> ReadInProgress'
        /\ pc'[App] # "done" /\ tcs # "result" /\ Len(taken) \in Nat
    BY <2>1 DEF ServeInv, Serving, PlacesInv, ReadInProgress, Threads
  <2>3. CASE contentLength' = RequestPosition /\ asyncCount' = 0 /\ taken' = taken
    BY <2>1, <2>2, <2>3 DEF CountsInv, RequestPosition
  <2>4. CASE DecodeByte
    BY <2>1, <2>2, <2>3, <2>4 DEF DecodeByte, CountsInv
  <2>5. CASE DecodeData
    <3>1. PICK n \in 1..DataAvailable(decoder) : Served(ofs, n)
      BY <2>1, <2>5, DataServes
    <3> QED
      BY <2>1, <2>2, <2>5, <3>1, ServedCounts DEF DecodeData
  <2> QED
    BY <1>5, <2>3, <2>4, <2>5 DEF Decode, DecodeAfterEnd
<1>6. ASSUME NEW t \in Threads, DecodeEnd(t) PROVE CountsInv'
  BY <1>6 DEF DecodeEnd, transportVars, readVars, At, Go
<1>7. ASSUME ReadFromBuffer PROVE CountsInv'
  BY <1>7 DEF ReadFromBuffer, Returned, transportVars, receiveVars, readVars, At, Go
<1>8. ASSUME ReadOverflowAsync PROVE CountsInv'
  BY <1>8 DEF ReadOverflowAsync, transportVars, receiveVars, readVars, At, Go
<1>9. ASSUME StartNextReceive PROVE CountsInv'
  BY <1>9 DEF StartNextReceive, LockFree, transportVars, receiveVars, readVars, At, Go
<1>10. ASSUME ReadCompleted PROVE CountsInv'
  BY <1>10 DEF ReadCompleted, Returned, transportVars, receiveVars, readVars, At, Go
<1>11. ASSUME ReadFailed PROVE CountsInv'
  BY <1>11 DEF ReadFailed, transportVars, receiveVars, readVars, At, Go
<1>12. ASSUME AppEnds PROVE CountsInv'
  BY <1>12 DEF AppEnds, RequestPosition, transportVars, receiveVars, readVars, At, Go
<1>13. ASSUME NEW t \in Threads, TakeRead(t) PROVE CountsInv'
  BY <1>13
       DEF TakeRead, ReadWaits, ReceiveDataLength, transportVars, receiveVars, readVars, At, Go
<1>14. ASSUME NEW t \in Threads, Processed(t) PROVE CountsInv'
  BY <1>14 DEF Processed, transportVars, receiveVars, readVars, At, Go
<1>15. ASSUME NEW t \in Threads, Relock(t) PROVE CountsInv'
  BY <1>15 DEF Relock, LockFree, transportVars, receiveVars, readVars, At, Go
<1>16. ASSUME NEW t \in Threads, LeaveUnread(t) PROVE CountsInv'
  BY <1>16 DEF LeaveUnread, Home, transportVars, receiveVars, readVars, At, Go
<1>17. ASSUME NEW t \in Threads, ResetPos(t) PROVE CountsInv'
  BY <1>17 DEF ResetPos, transportVars, readVars, At, Go
<1>18. ASSUME NEW t \in Threads, ResetFullness(t) PROVE CountsInv'
  BY <1>18 DEF ResetFullness, Home, transportVars, readVars, At, Go
<1>19. ASSUME NEW t \in Threads, RealStartNextReceive(t) PROVE CountsInv'
  BY <1>19 DEF RealStartNextReceive, Home, receiveVars, readVars, At, Go
<1>20. ASSUME NEW r \in Receivers, NEW n \in 1..BufferSize, FinishReceive(r, n) PROVE CountsInv'
  BY <1>20 DEF FinishReceive, LockFree, readVars, At, Go
<1>21. ASSUME NEW r \in Receivers, FinishReceiveClosed(r) PROVE CountsInv'
  BY <1>21 DEF FinishReceiveClosed, LockFree, readVars, At, Go
<1>22. ASSUME NEW r \in Receivers, SetClientClosed(r) PROVE CountsInv'
  BY <1>22 DEF SetClientClosed, transportVars, readVars, At, Go
<1>23. ASSUME NEW r \in Receivers, TellReader(r) PROVE CountsInv'
  BY <1>23 DEF TellReader, transportVars, readVars, At, Go
<1>24. CASE UNCHANGED vars
  BY <1>24 DEF vars, transportVars, receiveVars, readVars
<1> QED
  BY <1>1, <1>2, <1>3, <1>4, <1>5, <1>6, <1>7, <1>8, <1>9, <1>10, <1>11, <1>12, <1>13,
     <1>14, <1>15, <1>16, <1>17, <1>18, <1>19, <1>20, <1>21, <1>22, <1>23, <1>24
     DEF Next, Reader, Serve, Closing, Client

(* The decoder is driven as its own specification says.                     *)
LEMMA ByteDecodes ==
    ASSUME TypesInv, NEW i \in 0..(BufferSize - 1)
    PROVE  ByteAt(buffer[i]) \in Byte
<1>1. buffer[i] \in 0..Len(body.wire)
  BY DEF TypesInv
<1>2. body.wire \in Seq(Byte)
  BY BodyAssumption DEF TypesInv, Body
<1>3. CASE buffer[i] = 0
  BY <1>3 DEF ByteAt, Byte
<1>4. CASE buffer[i] # 0
  BY <1>1, <1>2, <1>4 DEF ByteAt
<1> QED
  BY <1>3, <1>4

(* Each step is one of the decoder's, or leaves it alone.                   *)
LEMMA DecoderStep ==
    ASSUME TypesInv, BufferInv, DecoderInv, [Next]_vars
    PROVE  [DecoderNext]_decoder
<1>1. ASSUME NEW count \in Counts, AppRead(count) PROVE [DecoderNext]_decoder
  BY <1>1 DEF AppRead, ReadSyncPart
<1>2. ASSUME DrainRead PROVE [DecoderNext]_decoder
  BY <1>2 DEF DrainRead, ReadSyncPart
<1>3. ASSUME ReadBuffered PROVE [DecoderNext]_decoder
  BY <1>3 DEF ReadBuffered, ProcessDataInternal, ProcessPlain, StartDecoding
<1>4. ASSUME NEW t \in Threads, Process(t) PROVE [DecoderNext]_decoder
  BY <1>4 DEF Process, ProcessDataInternal, ProcessPlain, StartDecoding
<1>5. ASSUME NEW t \in Threads, Decode(t) PROVE [DecoderNext]_decoder
  <2>1. /\ avail > 0 /\ asyncCount > 0 /\ ofs + avail <= BufferSize
        /\ ofs \in 0..(BufferSize - 1)
    BY <1>5, BodyAssumption DEF Decode, At, BufferInv, TypesInv
  <2>2. CASE DecodeByte
    <3>1. ByteAt(buffer[ofs]) \in Byte
      BY <2>1, ByteDecodes
    <3> QED
      BY <2>2, <3>1 DEF DecodeByte, DecoderNext
  <2>3. CASE DecodeData
    <3>1. PICK n \in 1..DataAvailable(decoder) : Eat(n)
      BY <2>1, <2>3, DataServes
    <3> QED
      BY <3>1 DEF DecoderNext
  <2>4. CASE DecodeAfterEnd
    BY <2>4 DEF DecodeAfterEnd
  <2> QED
    BY <1>5, <2>2, <2>3, <2>4 DEF Decode
<1>6. ASSUME NEW t \in Threads, DecodeEnd(t) PROVE [DecoderNext]_decoder
  BY <1>6 DEF DecodeEnd, readVars
<1>7. ASSUME ReadFromBuffer PROVE [DecoderNext]_decoder
  BY <1>7 DEF ReadFromBuffer, Returned, readVars
<1>8. ASSUME ReadOverflowAsync PROVE [DecoderNext]_decoder
  BY <1>8 DEF ReadOverflowAsync, readVars
<1>9. ASSUME StartNextReceive PROVE [DecoderNext]_decoder
  BY <1>9 DEF StartNextReceive, LockFree, readVars
<1>10. ASSUME ReadCompleted PROVE [DecoderNext]_decoder
  BY <1>10 DEF ReadCompleted, Returned, readVars
<1>11. ASSUME ReadFailed PROVE [DecoderNext]_decoder
  BY <1>11 DEF ReadFailed, readVars
<1>12. ASSUME AppEnds PROVE [DecoderNext]_decoder
  BY <1>12 DEF AppEnds, RequestPosition, readVars
<1>13. ASSUME NEW t \in Threads, TakeRead(t) PROVE [DecoderNext]_decoder
  BY <1>13 DEF TakeRead, ReadWaits, ReceiveDataLength, readVars
<1>14. ASSUME NEW t \in Threads, Processed(t) PROVE [DecoderNext]_decoder
  BY <1>14 DEF Processed, readVars
<1>15. ASSUME NEW t \in Threads, Relock(t) PROVE [DecoderNext]_decoder
  BY <1>15 DEF Relock, LockFree, readVars
<1>16. ASSUME NEW t \in Threads, LeaveUnread(t) PROVE [DecoderNext]_decoder
  BY <1>16 DEF LeaveUnread, Home, readVars
<1>17. ASSUME NEW t \in Threads, ResetPos(t) PROVE [DecoderNext]_decoder
  BY <1>17 DEF ResetPos, readVars
<1>18. ASSUME NEW t \in Threads, ResetFullness(t) PROVE [DecoderNext]_decoder
  BY <1>18 DEF ResetFullness, Home, readVars
<1>19. ASSUME NEW t \in Threads, RealStartNextReceive(t) PROVE [DecoderNext]_decoder
  BY <1>19 DEF RealStartNextReceive, Home, readVars
<1>20. ASSUME NEW r \in Receivers, NEW n \in 1..BufferSize, FinishReceive(r, n) PROVE [DecoderNext]_decoder
  BY <1>20 DEF FinishReceive, LockFree, readVars
<1>21. ASSUME NEW r \in Receivers, FinishReceiveClosed(r) PROVE [DecoderNext]_decoder
  BY <1>21 DEF FinishReceiveClosed, LockFree, readVars
<1>22. ASSUME NEW r \in Receivers, SetClientClosed(r) PROVE [DecoderNext]_decoder
  BY <1>22 DEF SetClientClosed, readVars
<1>23. ASSUME NEW r \in Receivers, TellReader(r) PROVE [DecoderNext]_decoder
  BY <1>23 DEF TellReader, readVars
<1>24. CASE UNCHANGED vars
  BY <1>24 DEF vars, transportVars, receiveVars, readVars
<1> QED
  BY <1>1, <1>2, <1>3, <1>4, <1>5, <1>6, <1>7, <1>8, <1>9, <1>10, <1>11, <1>12, <1>13,
     <1>14, <1>15, <1>16, <1>17, <1>18, <1>19, <1>20, <1>21, <1>22, <1>23, <1>24
     DEF Next, Reader, Serve, Closing, Client

(* Where the bytes begin that nobody has taken.                             *)
LEMMA UnconsumedFits ==
    ASSUME TypesInv, BufferInv
    PROVE  Unconsumed \in Nat /\ Unconsumed <= full
<1>1. full \in Nat /\ pos \in Nat /\ ofs \in Nat /\ pos <= full
  BY BodyAssumption DEF TypesInv
<1>2. (\E t \in Threads : pc[t] = "decode") => ofs <= full
  BY DEF BufferInv
<1> QED
  BY <1>1, <1>2 DEF Unconsumed

(* The next n of them are taken, all by a reader, or as framing.            *)
LEMMA ContentMoves ==
    ASSUME TypesInv, BufferInv, ContentInv, NEW n \in Nat, Unconsumed + n <= full,
           Unconsumed' = Unconsumed + n, UNCHANGED <<full, sent, buffer, body>>,
           \/ UNCHANGED taken /\ (n = 0 \/ body.chunked)
           \/ Appended(Unconsumed, n)
    PROVE  ContentInv'
<1> DEFINE u == Unconsumed
           next == NextPlace
           old == Len(taken)
<1>1. u \in Nat /\ full \in Nat /\ sent \in Nat /\ u <= full
  BY UnconsumedFits, BodyAssumption DEF TypesInv, Body
<1>2. NextPlace = sent - (full - u) + 1 /\ next \in Int /\ next >= 1
  BY <1>1 DEF NextPlace, ContentInv
<1>3. NextPlace' = next + n
  BY <1>1, <1>2 DEF NextPlace
<1>4. old \in Nat /\ DOMAIN taken = 1..old /\ \A i \in 1..old : taken[i] \in Nat
  BY DEF TypesInv, Body
<1>5. /\ \A i \in u..(full - 1) : buffer[i] = next + (i - u)
      /\ \A i \in 1..old : 1 <= taken[i] /\ taken[i] < next
      /\ \A i, j \in 1..old : i < j => taken[i] < taken[j]
      /\ ~body.chunked => next = old + 1 /\ \A i \in 1..old : taken[i] = i
  BY <1>4 DEF ContentInv
<1> HIDE DEF next, u, old
<1>6. Unconsumed' = u + n /\ u + n <= full
  BY DEF u
<1>7. \A i \in (Unconsumed')..(full' - 1) : buffer'[i] = NextPlace' + (i - Unconsumed')
  <2>1. ASSUME NEW i \in (u + n)..(full - 1) PROVE buffer[i] = (next + n) + (i - (u + n))
    <3>1. i \in u..(full - 1) /\ i \in Int
      BY <1>1, <2>1
    <3>2. buffer[i] = next + (i - u)
      BY <1>5, <3>1
    <3> QED
      BY <1>1, <1>2, <3>1, <3>2
  <2> QED
    BY <1>3, <1>6, <2>1
<1>8. CASE UNCHANGED taken /\ (n = 0 \/ body.chunked)
  <2>1. \A i \in 1..old : 1 <= taken[i] /\ taken[i] < next + n
    BY <1>2, <1>4, <1>5
  <2>2. ~body.chunked => next + n = old + 1
    BY <1>2, <1>5, <1>8
  <2> QED
    BY <1>2, <1>3, <1>4, <1>5, <1>7, <1>8, <2>1, <2>2 DEF ContentInv, old
<1>9. CASE Appended(Unconsumed, n)
  <2>1. /\ DOMAIN taken' = 1..(old + n) /\ Len(taken') = old + n
        /\ \A k \in 1..old : taken'[k] = taken[k]
    <3>1. taken' \in Seq(0..Len(body.wire)) /\ Len(taken') = old + n
      BY <1>9 DEF Appended, old
    <3> QED
      BY <1>9, <3>1 DEF Appended, old
  <2>2. ASSUME NEW k \in (old + 1)..(old + n)
        PROVE  taken'[k] = next + (k - old - 1)
    <3>1. taken'[k] = buffer[u + k - old - 1]
      BY <1>9 DEF Appended, old, u
    <3>2. u + k - old - 1 \in u..(full - 1) /\ (u + k - old - 1) - u = k - old - 1
      BY <1>1, <1>4, <1>6
    <3> QED
      BY <1>5, <3>1, <3>2
  <2>3. \A k \in 1..(old + n) : k \in 1..old \/ k \in (old + 1)..(old + n)
    BY <1>4
  <2>4. ASSUME NEW k \in 1..(old + n)
        PROVE  1 <= taken'[k] /\ taken'[k] < next + n
    <3>1. CASE k \in 1..old
      BY <1>2, <1>4, <1>5, <2>1, <3>1
    <3>2. CASE k \in (old + 1)..(old + n)
      BY <1>2, <1>4, <2>2, <3>2
    <3> QED
      BY <2>3, <3>1, <3>2
  <2>5. ASSUME NEW i \in 1..(old + n), NEW j \in 1..(old + n), i < j
        PROVE  taken'[i] < taken'[j]
    <3>1. CASE j \in 1..old
      <4>1. i \in 1..old
        BY <1>4, <2>5, <3>1
      <4> QED
        BY <1>5, <2>1, <2>5, <3>1, <4>1
    <3>2. CASE i \in 1..old /\ j \in (old + 1)..(old + n)
      <4>1. taken'[i] = taken[i] /\ taken[i] \in Nat /\ taken[i] < next
        BY <1>4, <1>5, <2>1, <3>2
      <4>2. taken'[j] = next + (j - old - 1) /\ j - old - 1 \in Nat
        BY <1>4, <2>2, <3>2
      <4> QED
        BY <1>2, <4>1, <4>2
    <3>3. CASE i \in (old + 1)..(old + n)
      <4>1. j \in (old + 1)..(old + n)
        BY <1>4, <2>5, <3>3
      <4>2. taken'[i] = next + (i - old - 1) /\ taken'[j] = next + (j - old - 1)
        BY <2>2, <3>3, <4>1
      <4> QED
        BY <1>2, <1>4, <2>5, <4>2
    <3> QED
      BY <2>3, <3>1, <3>2, <3>3
  <2>6. ASSUME ~body.chunked
        PROVE  next + n = (old + n) + 1 /\ \A k \in 1..(old + n) : taken'[k] = k
    <3>1. next = old + 1 /\ \A k \in 1..old : taken[k] = k
      BY <1>5, <2>6
    <3>2. ASSUME NEW k \in (old + 1)..(old + n) PROVE taken'[k] = k
      BY <1>4, <2>2, <3>1
    <3> QED
      BY <1>4, <2>1, <2>3, <3>1, <3>2
  <2>7. next + n >= 1 /\ body' = body
    BY <1>2
  <2> QED
    BY ONLY <1>3, <1>7, <2>1, <2>4, <2>5, <2>6, <2>7 DEF ContentInv
<1> QED
  BY <1>8, <1>9

(* They are where they were.                                                *)
LEMMA ContentKept ==
    ASSUME TypesInv, BufferInv, ContentInv,
           UNCHANGED <<body, sent, buffer, pos, full, taken, ofs>>,
           \A u \in Threads : pc'[u] = "decode" <=> pc[u] = "decode",
           \A u \in Threads : pc'[u] = "fullness" <=> pc[u] = "fullness"
    PROVE  ContentInv'
<1>1. Unconsumed' = Unconsumed
  BY DEF Unconsumed
<1>2. Unconsumed \in Nat /\ Unconsumed + 0 = Unconsumed /\ Unconsumed <= full
  BY UnconsumedFits
<1> QED
  BY <1>1, <1>2, ContentMoves

(* The bytes on their way.                                                 *)
LEMMA ContentStep ==
    ASSUME ~ResetRaces, PlacesInv, TypesInv, ServeInv, BufferInv, ContentInv, DecoderInv, [Next]_vars
    PROVE  ContentInv'
<1>1. ASSUME NEW count \in Counts, AppRead(count) PROVE ContentInv'
  <2>1. UNCHANGED <<body, sent, buffer, pos, full, taken, ofs>>
    BY <1>1 DEF AppRead, ReadSyncPart, transportVars, receiveVars
  <2>2. \A u \in Threads : /\ pc'[u] = "decode" <=> pc[u] = "decode"
                           /\ pc'[u] = "fullness" <=> pc[u] = "fullness"
    BY <1>1 DEF AppRead, ReadSyncPart, At, Go, PlacesInv, Threads
  <2> QED
    BY <2>1, <2>2, ContentKept
<1>2. ASSUME DrainRead PROVE ContentInv'
  <2>1. UNCHANGED <<body, sent, buffer, pos, full, taken, ofs>>
    BY <1>2 DEF DrainRead, ReadSyncPart, transportVars, receiveVars
  <2>2. \A u \in Threads : /\ pc'[u] = "decode" <=> pc[u] = "decode"
                           /\ pc'[u] = "fullness" <=> pc[u] = "fullness"
    BY <1>2 DEF DrainRead, ReadSyncPart, At, Go, PlacesInv, Threads
  <2> QED
    BY <2>1, <2>2, ContentKept
<1>3. ASSUME ReadBuffered PROVE ContentInv'
  <2> DEFINE n == Unread
  <2>1. /\ ProcessDataInternal(App, n)
        /\ \A u \in Threads : pc[u] # "decode"
        /\ n > 0 => \A u \in Threads : pc[u] # "fullness"
        /\ App \in Threads /\ pc[App] # "fullness" /\ pc \in [Threads -> Points]
        /\ n \in Nat /\ pos + n <= full /\ pos \in Nat
    BY <1>3, UnreadFits
         DEF ReadBuffered, At, Unread, ServeInv, BufferInv, Serving, PlacesInv, TypesInv, Threads
  <2>2. UNCHANGED <<body, transportVars, full>>
    BY <2>1 DEF ProcessDataInternal
  <2> HIDE DEF n
  <2>3. CASE body.chunked
    <3>1. UNCHANGED <<pos, taken>> /\ ofs' = pos
      BY <2>1, <2>3 DEF ProcessDataInternal, StartDecoding
    <3>2. CASE n > 0
      <4>1. pc' = [pc EXCEPT ![App] = "decode"]
        BY <2>1, <2>3, <3>2 DEF ProcessDataInternal, StartDecoding, Go
      <4>2. Unconsumed = pos /\ Unconsumed' = pos
        BY <2>1, <3>1, <3>2, <4>1 DEF Unconsumed
      <4>3. Unconsumed' = Unconsumed + 0 /\ Unconsumed + 0 <= full
        BY <2>1, <4>2, UnconsumedFits
      <4> QED
        BY <2>2, <3>1, <4>3, ContentMoves DEF transportVars
    <3>3. CASE n = 0
      <4>1. pc' = [pc EXCEPT ![App] = "copied"]
        BY <2>1, <2>3, <3>3 DEF ProcessDataInternal, StartDecoding, Go
      <4>2. Unconsumed' = Unconsumed
        BY <2>1, <2>2, <3>1, <4>1 DEF Unconsumed
      <4>3. Unconsumed \in Nat /\ Unconsumed <= full
        BY UnconsumedFits
      <4> QED
        BY <2>2, <3>1, <4>2, <4>3, ContentMoves DEF transportVars
    <3> QED
      BY <2>1, <3>2, <3>3
  <2>4. CASE ~body.chunked
    <3>1. PICK len \in Nat : Served(pos, len) /\ pos' = pos + len /\ len <= n
      BY <2>1, <2>4, PlainServes DEF ProcessDataInternal
    <3>2. pc' = [pc EXCEPT ![App] = "copied"] /\ UNCHANGED ofs
      BY <2>1, <2>4 DEF ProcessDataInternal, ProcessPlain, Go
    <3>3. CASE len > 0
      <4>1. \A u \in Threads : pc[u] # "fullness"
        BY <2>1, <3>1, <3>3
      <4>2. Unconsumed = pos /\ Unconsumed' = pos + len
        BY <2>1, <3>1, <3>2, <4>1 DEF Unconsumed
      <4>3. Unconsumed + len <= full
        BY <2>1, <3>1, <4>2, UnconsumedFits DEF TypesInv
      <4> QED
        BY <2>2, <3>1, <4>2, <4>3, ContentMoves DEF transportVars, Served
    <3>4. CASE len = 0
      <4>1. Unconsumed' = Unconsumed /\ Unconsumed \in Nat /\ Unconsumed <= full
        BY <2>1, <2>2, <3>1, <3>2, <3>4, UnconsumedFits DEF Unconsumed
      <4>2. Appended(Unconsumed, 0)
        BY <3>1, <3>4 DEF Served, Appended
      <4> QED
        BY <2>2, <4>1, <4>2, ContentMoves DEF transportVars
    <3> QED
      BY <3>1, <3>3, <3>4
  <2> QED
    BY <2>3, <2>4
<1>4. ASSUME NEW t \in Threads, Process(t) PROVE ContentInv'
  <2> DEFINE n == ReceiveDataLength
  <2>1. /\ ProcessDataInternal(t, n)
        /\ \A u \in Threads : pc[u] # "decode"
        /\ n > 0 => \A u \in Threads : pc[u] # "fullness"
        /\ t \in Threads /\ pc[t] # "fullness" /\ pc \in [Threads -> Points]
        /\ n \in Nat /\ pos + n <= full /\ pos \in Nat
    BY <1>4, UnreadFits
         DEF Process, At, Unread, ServeInv, BufferInv, Serving, PlacesInv, TypesInv, Threads
  <2>2. UNCHANGED <<body, transportVars, full>>
    BY <2>1 DEF ProcessDataInternal
  <2> HIDE DEF n
  <2>3. CASE body.chunked
    <3>1. UNCHANGED <<pos, taken>> /\ ofs' = pos
      BY <2>1, <2>3 DEF ProcessDataInternal, StartDecoding
    <3>2. CASE n > 0
      <4>1. pc' = [pc EXCEPT ![t] = "decode"]
        BY <2>1, <2>3, <3>2 DEF ProcessDataInternal, StartDecoding, Go
      <4>2. Unconsumed = pos /\ Unconsumed' = pos
        BY <2>1, <3>1, <3>2, <4>1 DEF Unconsumed
      <4>3. Unconsumed' = Unconsumed + 0 /\ Unconsumed + 0 <= full
        BY <2>1, <4>2, UnconsumedFits
      <4> QED
        BY <2>2, <3>1, <4>3, ContentMoves DEF transportVars
    <3>3. CASE n = 0
      <4>1. pc' = [pc EXCEPT ![t] = "copied"]
        BY <2>1, <2>3, <3>3 DEF ProcessDataInternal, StartDecoding, Go
      <4>2. Unconsumed' = Unconsumed
        BY <2>1, <2>2, <3>1, <4>1 DEF Unconsumed
      <4>3. Unconsumed \in Nat /\ Unconsumed <= full
        BY UnconsumedFits
      <4> QED
        BY <2>2, <3>1, <4>2, <4>3, ContentMoves DEF transportVars
    <3> QED
      BY <2>1, <3>2, <3>3
  <2>4. CASE ~body.chunked
    <3>1. PICK len \in Nat : Served(pos, len) /\ pos' = pos + len /\ len <= n
      BY <2>1, <2>4, PlainServes DEF ProcessDataInternal
    <3>2. pc' = [pc EXCEPT ![t] = "copied"] /\ UNCHANGED ofs
      BY <2>1, <2>4 DEF ProcessDataInternal, ProcessPlain, Go
    <3>3. CASE len > 0
      <4>1. \A u \in Threads : pc[u] # "fullness"
        BY <2>1, <3>1, <3>3
      <4>2. Unconsumed = pos /\ Unconsumed' = pos + len
        BY <2>1, <3>1, <3>2, <4>1 DEF Unconsumed
      <4>3. Unconsumed + len <= full
        BY <2>1, <3>1, <4>2, UnconsumedFits DEF TypesInv
      <4> QED
        BY <2>2, <3>1, <4>2, <4>3, ContentMoves DEF transportVars, Served
    <3>4. CASE len = 0
      <4>1. Unconsumed' = Unconsumed /\ Unconsumed \in Nat /\ Unconsumed <= full
        BY <2>1, <2>2, <3>1, <3>2, <3>4, UnconsumedFits DEF Unconsumed
      <4>2. Appended(Unconsumed, 0)
        BY <3>1, <3>4 DEF Served, Appended
      <4> QED
        BY <2>2, <4>1, <4>2, ContentMoves DEF transportVars
    <3> QED
      BY <3>1, <3>3, <3>4
  <2> QED
    BY <2>3, <2>4
<1>5. ASSUME NEW t \in Threads, Decode(t) PROVE ContentInv'
  <2>1. /\ pc[t] = "decode" /\ avail > 0 /\ asyncCount > 0 /\ ofs + avail <= BufferSize
        /\ ofs \in Nat /\ avail \in Nat /\ full \in Nat /\ ofs + avail = full
        /\ UNCHANGED <<body, transportVars, receiveVars, pc>>
        /\ body.chunked
    BY <1>5, BodyAssumption DEF Decode, At, BufferInv, TypesInv
  <2>2. Unconsumed = ofs /\ Unconsumed' = ofs'
    BY <2>1 DEF Unconsumed
  <2>3. UNCHANGED <<full, sent, buffer, body>>
    BY <2>1 DEF transportVars, receiveVars
  <2>4. CASE DecodeByte
    <3>1. ofs' = ofs + 1 /\ UNCHANGED taken /\ Unconsumed + 1 <= full
      BY <2>1, <2>2, <2>4 DEF DecodeByte
    <3> QED
      BY <2>1, <2>2, <2>3, <3>1, ContentMoves
  <2>5. CASE DecodeData
    <3>1. PICK n \in 1..DataAvailable(decoder) : n <= avail /\ Served(ofs, n) /\ ofs' = ofs + n
      BY <2>1, <2>5, DataServes
    <3>2. n \in Nat /\ Unconsumed + n <= full
      BY <2>1, <2>2, <3>1
    <3> QED
      BY <2>2, <2>3, <3>1, <3>2, ContentMoves DEF Served
  <2>6. CASE DecodeAfterEnd
    <3>1. ofs' = ofs + 0 /\ UNCHANGED taken /\ Unconsumed + 0 <= full
      BY <2>1, <2>2, <2>6 DEF DecodeAfterEnd
    <3> QED
      BY <2>1, <2>2, <2>3, <3>1, ContentMoves
  <2> QED
    BY <1>5, <2>4, <2>5, <2>6 DEF Decode
<1>6. ASSUME NEW t \in Threads, DecodeEnd(t) PROVE ContentInv'
  <2>1. /\ pc[t] = "decode" /\ pc' = [pc EXCEPT ![t] = "copied"]
        /\ pos' = ofs /\ UNCHANGED <<body, transportVars, full, taken>>
    BY <1>6 DEF DecodeEnd, At, Go, readVars
  <2>2. Unconsumed = ofs
    BY <2>1 DEF Unconsumed
  <2>3. \A u \in Threads : pc'[u] # "decode" /\ pc'[u] # "fullness"
    BY <2>1 DEF ServeInv, BufferInv, Serving, PlacesInv
  <2>4. Unconsumed' = Unconsumed + 0 /\ Unconsumed + 0 <= full
    BY <2>1, <2>2, <2>3, UnconsumedFits DEF Unconsumed
  <2> QED
    BY <2>1, <2>4, ContentMoves DEF transportVars
<1>7. ASSUME ReadFromBuffer PROVE ContentInv'
  <2>1. UNCHANGED <<body, sent, buffer, pos, full, taken, ofs>>
    BY <1>7 DEF ReadFromBuffer, Returned, transportVars, receiveVars, readVars
  <2>2. \A u \in Threads : /\ pc'[u] = "decode" <=> pc[u] = "decode"
                           /\ pc'[u] = "fullness" <=> pc[u] = "fullness"
    BY <1>7 DEF ReadFromBuffer, Returned, At, Go, PlacesInv, Threads
  <2> QED
    BY <2>1, <2>2, ContentKept
<1>8. ASSUME ReadOverflowAsync PROVE ContentInv'
  <2>1. UNCHANGED <<body, sent, buffer, pos, full, taken, ofs>>
    BY <1>8 DEF ReadOverflowAsync, transportVars, receiveVars, readVars
  <2>2. \A u \in Threads : /\ pc'[u] = "decode" <=> pc[u] = "decode"
                           /\ pc'[u] = "fullness" <=> pc[u] = "fullness"
    BY <1>8 DEF ReadOverflowAsync, At, Go, PlacesInv, Threads
  <2> QED
    BY <2>1, <2>2, ContentKept
<1>9. ASSUME StartNextReceive PROVE ContentInv'
  <2>1. UNCHANGED <<body, sent, buffer, pos, full, taken, ofs>>
    BY <1>9 DEF StartNextReceive, LockFree, transportVars, receiveVars, readVars
  <2>2. \A u \in Threads : /\ pc'[u] = "decode" <=> pc[u] = "decode"
                           /\ pc'[u] = "fullness" <=> pc[u] = "fullness"
    BY <1>9 DEF StartNextReceive, LockFree, At, Go, PlacesInv, Threads
  <2> QED
    BY <2>1, <2>2, ContentKept
<1>10. ASSUME ReadCompleted PROVE ContentInv'
  <2>1. UNCHANGED <<body, sent, buffer, pos, full, taken, ofs>>
    BY <1>10 DEF ReadCompleted, Returned, transportVars, receiveVars, readVars
  <2>2. \A u \in Threads : /\ pc'[u] = "decode" <=> pc[u] = "decode"
                           /\ pc'[u] = "fullness" <=> pc[u] = "fullness"
    BY <1>10 DEF ReadCompleted, Returned, At, Go, PlacesInv, Threads
  <2> QED
    BY <2>1, <2>2, ContentKept
<1>11. ASSUME ReadFailed PROVE ContentInv'
  <2>1. UNCHANGED <<body, sent, buffer, pos, full, taken, ofs>>
    BY <1>11 DEF ReadFailed, transportVars, receiveVars, readVars
  <2>2. \A u \in Threads : /\ pc'[u] = "decode" <=> pc[u] = "decode"
                           /\ pc'[u] = "fullness" <=> pc[u] = "fullness"
    BY <1>11 DEF ReadFailed, At, Go, PlacesInv, Threads
  <2> QED
    BY <2>1, <2>2, ContentKept
<1>12. ASSUME AppEnds PROVE ContentInv'
  <2>1. UNCHANGED <<body, sent, buffer, pos, full, taken, ofs>>
    BY <1>12 DEF AppEnds, RequestPosition, transportVars, receiveVars, readVars
  <2>2. \A u \in Threads : /\ pc'[u] = "decode" <=> pc[u] = "decode"
                           /\ pc'[u] = "fullness" <=> pc[u] = "fullness"
    BY <1>12 DEF AppEnds, RequestPosition, At, Go, PlacesInv, Threads
  <2> QED
    BY <2>1, <2>2, ContentKept
<1>13. ASSUME NEW t \in Threads, TakeRead(t) PROVE ContentInv'
  <2>1. UNCHANGED <<body, sent, buffer, pos, full, taken, ofs>>
    BY <1>13
         DEF TakeRead, ReadWaits, ReceiveDataLength, transportVars, receiveVars, readVars
  <2>2. \A u \in Threads : /\ pc'[u] = "decode" <=> pc[u] = "decode"
                           /\ pc'[u] = "fullness" <=> pc[u] = "fullness"
    BY <1>13 DEF TakeRead, ReadWaits, ReceiveDataLength, At, Go, PlacesInv, Threads
  <2> QED
    BY <2>1, <2>2, ContentKept
<1>14. ASSUME NEW t \in Threads, Processed(t) PROVE ContentInv'
  <2>1. UNCHANGED <<body, sent, buffer, pos, full, taken, ofs>>
    BY <1>14 DEF Processed, transportVars, receiveVars, readVars
  <2>2. \A u \in Threads : /\ pc'[u] = "decode" <=> pc[u] = "decode"
                           /\ pc'[u] = "fullness" <=> pc[u] = "fullness"
    BY <1>14 DEF Processed, At, Go, PlacesInv, Threads
  <2> QED
    BY <2>1, <2>2, ContentKept
<1>15. ASSUME NEW t \in Threads, Relock(t) PROVE ContentInv'
  <2>1. UNCHANGED <<body, sent, buffer, pos, full, taken, ofs>>
    BY <1>15 DEF Relock, LockFree, transportVars, receiveVars, readVars
  <2>2. \A u \in Threads : /\ pc'[u] = "decode" <=> pc[u] = "decode"
                           /\ pc'[u] = "fullness" <=> pc[u] = "fullness"
    BY <1>15 DEF Relock, LockFree, At, Go, PlacesInv, Threads
  <2> QED
    BY <2>1, <2>2, ContentKept
<1>16. ASSUME NEW t \in Threads, LeaveUnread(t) PROVE ContentInv'
  <2>1. UNCHANGED <<body, sent, buffer, pos, full, taken, ofs>>
    BY <1>16 DEF LeaveUnread, Home, transportVars, receiveVars, readVars
  <2>2. \A u \in Threads : /\ pc'[u] = "decode" <=> pc[u] = "decode"
                           /\ pc'[u] = "fullness" <=> pc[u] = "fullness"
    BY <1>16 DEF LeaveUnread, Home, At, Go, PlacesInv, Threads
  <2> QED
    BY <2>1, <2>2, ContentKept
<1>17. ASSUME NEW t \in Threads, ResetPos(t) PROVE ContentInv'
  <2>1. /\ pc[t] = "loop" /\ pc' = [pc EXCEPT ![t] = "fullness"] /\ pos = full
        /\ UNCHANGED <<body, transportVars, full, taken>>
    BY <1>17 DEF ResetPos, At, Go, readVars
  <2>2. \A u \in Threads : pc[u] # "fullness" /\ pc[u] # "decode"
    BY <2>1 DEF ServeInv, BufferInv, Locking, TypesInv
  <2>3. Unconsumed = full
    BY <2>1, <2>2 DEF Unconsumed
  <2>4. pc'[t] = "fullness" /\ \A u \in Threads : pc'[u] # "decode"
    BY <2>1, <2>2 DEF PlacesInv
  <2>5. Unconsumed' = full'
    BY <2>4 DEF Unconsumed
  <2>6. Unconsumed' = Unconsumed + 0 /\ Unconsumed + 0 <= full
    BY <2>1, <2>3, <2>5, UnconsumedFits
  <2> QED
    BY <2>1, <2>6, ContentMoves DEF transportVars
<1>18. ASSUME NEW t \in Threads, ResetFullness(t) PROVE ContentInv'
  <2>1. /\ pc[t] = "fullness" /\ pos = 0 /\ pos' = pos /\ full' = 0
        /\ UNCHANGED <<body, transportVars, taken>>
    BY <1>18 DEF ResetFullness, At, readVars, BufferInv
  <2>2. PICK s \in {"start", Home(t)} : pc' = [pc EXCEPT ![t] = s]
    BY <1>18 DEF ResetFullness, Go
  <2>3. s \notin {"fullness", "decode"}
    BY <2>2 DEF Home
  <2>4. \A u \in Threads : pc[u] # "decode" /\ pc'[u] # "fullness" /\ pc'[u] # "decode"
    BY <2>1, <2>2, <2>3 DEF ServeInv, BufferInv, Locking, PlacesInv
  <2>5. Unconsumed = full /\ Unconsumed' = 0
    BY <2>1, <2>4 DEF Unconsumed
  <2>6. full \in Nat /\ sent \in Nat
    BY BodyAssumption DEF TypesInv, Body
  <2>7. NextPlace' = NextPlace
    BY <2>1, <2>5, <2>6 DEF NextPlace, transportVars
  <2>8. (Unconsumed')..(full' - 1) = {}
    BY <2>1, <2>5
  <2> QED
    BY <2>1, <2>7, <2>8 DEF ContentInv
<1>19. ASSUME NEW t \in Threads, RealStartNextReceive(t) PROVE ContentInv'
  <2>1. UNCHANGED <<body, sent, buffer, pos, full, taken, ofs>>
    BY <1>19 DEF RealStartNextReceive, Home, receiveVars, readVars
  <2>2. \A u \in Threads : /\ pc'[u] = "decode" <=> pc[u] = "decode"
                           /\ pc'[u] = "fullness" <=> pc[u] = "fullness"
    BY <1>19 DEF RealStartNextReceive, Home, At, Go, PlacesInv, Threads
  <2> QED
    BY <2>1, <2>2, ContentKept
<1>20. ASSUME NEW r \in Receivers, NEW n \in 1..BufferSize, FinishReceive(r, n) PROVE ContentInv'
  <2>1. /\ requested = 0 /\ n \in Nat /\ pos = 0 /\ full = 0 /\ pos' = 0
        /\ sent' = sent + n /\ full' = n /\ sent \in Nat /\ taken' = taken /\ body' = body
        /\ buffer' = [i \in DOMAIN buffer |-> IF i \in 0..(n - 1) THEN sent + 1 + i ELSE buffer[i]]
        /\ n <= BufferSize
        /\ DOMAIN buffer = 0..(BufferSize - 1)
        /\ BufferSize \in Nat
    BY <1>20, BodyAssumption DEF FinishReceive, BufferInv, None, TypesInv, readVars, Body
  <2>2. \A u \in Threads : pc[u] # "fullness" /\ pc[u] # "decode"
    BY <1>20, <2>1 DEF FinishReceive, LockFree, BufferInv
  <2>3. \A u \in Threads : pc'[u] # "fullness" /\ pc'[u] # "decode"
    BY <1>20, <2>2 DEF FinishReceive, Go, PlacesInv
  <2>4. Unconsumed = 0 /\ Unconsumed' = 0
    BY <2>1, <2>2, <2>3 DEF Unconsumed
  <2>5. NextPlace = sent + 1 /\ NextPlace' = sent + 1
    BY <2>1, <2>4 DEF NextPlace
  <2>6. ASSUME NEW i \in 0..(n - 1) PROVE buffer'[i] = (sent + 1) + (i - 0)
    BY <2>1
  <2> QED
    BY <2>1, <2>4, <2>5, <2>6 DEF ContentInv
<1>21. ASSUME NEW r \in Receivers, FinishReceiveClosed(r) PROVE ContentInv'
  <2>1. UNCHANGED <<body, sent, buffer, pos, full, taken, ofs>>
    BY <1>21 DEF FinishReceiveClosed, LockFree, readVars
  <2>2. \A u \in Threads : /\ pc'[u] = "decode" <=> pc[u] = "decode"
                           /\ pc'[u] = "fullness" <=> pc[u] = "fullness"
    BY <1>21 DEF FinishReceiveClosed, LockFree, At, Go, PlacesInv, Threads
  <2> QED
    BY <2>1, <2>2, ContentKept
<1>22. ASSUME NEW r \in Receivers, SetClientClosed(r) PROVE ContentInv'
  <2>1. UNCHANGED <<body, sent, buffer, pos, full, taken, ofs>>
    BY <1>22 DEF SetClientClosed, transportVars, readVars
  <2>2. \A u \in Threads : /\ pc'[u] = "decode" <=> pc[u] = "decode"
                           /\ pc'[u] = "fullness" <=> pc[u] = "fullness"
    BY <1>22 DEF SetClientClosed, At, Go, PlacesInv, Threads
  <2> QED
    BY <2>1, <2>2, ContentKept
<1>23. ASSUME NEW r \in Receivers, TellReader(r) PROVE ContentInv'
  <2>1. UNCHANGED <<body, sent, buffer, pos, full, taken, ofs>>
    BY <1>23 DEF TellReader, transportVars, readVars
  <2>2. \A u \in Threads : /\ pc'[u] = "decode" <=> pc[u] = "decode"
                           /\ pc'[u] = "fullness" <=> pc[u] = "fullness"
    BY <1>23 DEF TellReader, At, Go, PlacesInv, Threads
  <2> QED
    BY <2>1, <2>2, ContentKept
<1>24. CASE UNCHANGED vars
  <2>1. UNCHANGED <<body, sent, buffer, pos, full, taken, ofs, pc>>
    BY <1>24 DEF vars, transportVars, receiveVars, readVars
  <2> QED
    BY <2>1, ContentKept
<1> QED
  BY <1>1, <1>2, <1>3, <1>4, <1>5, <1>6, <1>7, <1>8, <1>9, <1>10, <1>11, <1>12, <1>13,
     <1>14, <1>15, <1>16, <1>17, <1>18, <1>19, <1>20, <1>21, <1>22, <1>23, <1>24
     DEF Next, Reader, Serve, Closing, Client

----------------------------------------------------------------------------
(* The invariant is inductive                                              *)

LEMMA InitInv == ASSUME Init PROVE IInv
<1> USE BodyAssumption DEF None
<1> DEFINE I == 0..(BufferSize - 1)
<1>1. /\ body \in Bodies /\ Len(body.wire) \in Nat /\ Len(body.data) \in Nat
      /\ App \in Threads /\ BufferSize \in Nat /\ BufferSize >= 2
  BY DEF Init, Threads, Body
<1>2. /\ gone = FALSE /\ clientClosed = FALSE /\ cancelled = FALSE /\ started = FALSE
      /\ asked = 0 /\ asyncCount = 0 /\ asyncResult = 0 /\ tcs = "none" /\ taken = <<>>
      /\ avail = 0 /\ ofs = 0 /\ draining = FALSE
      /\ contentLength = (IF body.chunked THEN ULongMax ELSE Len(body.data))
      /\ receiving = (sent = 0)
      /\ requested = IF receiving THEN 0 ELSE None
      /\ pos = (IF receiving THEN 0 ELSE 1) /\ full = (IF receiving THEN 0 ELSE sent + 1)
      /\ DecoderInit
  BY DEF Init
<1>3. PICK n \in 0..(BufferSize - 1) :
         /\ n <= Len(body.wire)
         /\ buffer = [i \in I |-> IF i \in 1..n THEN i ELSE 0]
  <2>1. CASE buffer = [i \in I |-> 0]
    <3>1. 0 \in 0..(BufferSize - 1) /\ \A i \in I : i \notin 1..0
      OBVIOUS
    <3>2. buffer = [i \in I |-> IF i \in 1..0 THEN i ELSE 0]
      BY <2>1, <3>1
    <3> QED
      BY <1>1, <3>1, <3>2
  <2> QED
    BY <1>1, <2>1 DEF Init
<1>4. sent = n
  <2>1. DOMAIN buffer = I /\ \A i \in I : buffer[i] # 0 <=> i \in 1..n
    BY <1>3
  <2>2. \A i \in 1..n : i \in I
    BY <1>1
  <2>3. {i \in DOMAIN buffer : buffer[i] # 0} = 1..n
    BY <2>1, <2>2
  <2>4. sent = Cardinality({i \in DOMAIN buffer : buffer[i] # 0})
    BY DEF Init
  <2>5. Cardinality(1..n) = n
    BY FS_Interval
  <2> QED
    BY <2>3, <2>4, <2>5
<1>5. PICK r \in Receivers :
         pc = [t \in Threads |-> IF t = App THEN "app" ELSE IF t = r THEN "relock" ELSE "idle"]
  BY DEF Init
<1>6. /\ pc[App] = "app" /\ pc \in [Threads -> Points]
      /\ \A t \in Threads : pc[t] \in {"app", "relock", "idle"}
      /\ \A t \in Receivers : pc[t] \in {"relock", "idle"}
  BY <1>5 DEF Points, Threads
<1>7. receiving \in BOOLEAN /\ (receiving <=> sent = 0)
  BY <1>2
<1>8. \/ receiving /\ n = 0 /\ requested = 0 /\ pos = 0 /\ full = 0
      \/ ~receiving /\ n > 0 /\ requested = None /\ pos = 1 /\ full = n + 1
  BY <1>2, <1>4, <1>7
<1>9. contentLength \in Nat /\ (~body.chunked => contentLength = Len(body.data))
  BY <1>1, <1>2
<1>10. PlacesInv
  BY <1>6 DEF PlacesInv
<1>11. TypesInv
  <2>1. buffer \in [0..(BufferSize - 1) -> 0..Len(body.wire)]
    BY <1>1, <1>3
  <2>2. pos \in Nat /\ full \in 0..BufferSize /\ pos <= full /\ requested \in {0, None}
    BY <1>1, <1>8
  <2>3. sent \in 0..Len(body.wire)
    BY <1>1, <1>3, <1>4
  <2>4. taken \in Seq(0..Len(body.wire))
    BY <1>2
  <2>5. /\ gone \in BOOLEAN /\ receiving \in BOOLEAN /\ clientClosed \in BOOLEAN
        /\ cancelled \in BOOLEAN /\ started \in BOOLEAN /\ draining \in BOOLEAN
    BY <1>2, <1>7
  <2>6. /\ asked \in Nat /\ asyncCount \in Nat /\ asyncResult \in Nat
        /\ avail \in 0..BufferSize /\ ofs \in 0..BufferSize
    BY <1>1, <1>2
  <2>7. tcs \in {"none", "pending", "result", "canceled"}
    BY <1>2
  <2> QED
    BY ONLY <1>1, <1>9, <2>1, <2>2, <2>3, <2>4, <2>5, <2>6, <2>7 DEF TypesInv
<1>12. ServeInv
  BY <1>2, <1>6 DEF ServeInv, Serving, Locking, Threads
<1>13. BufferInv
  BY <1>6, <1>8 DEF BufferInv
<1>14. CountsInv
  BY <1>1, <1>2, <1>6, <1>9 DEF CountsInv, ReadInProgress
<1>15. ContentInv
  <2>1. Unconsumed = pos
    BY <1>6 DEF Unconsumed
  <2>2. NextPlace = 1
    BY <1>1, <1>4, <1>8, <2>1 DEF NextPlace
  <2>3. \A i \in pos..(full - 1) : buffer[i] = 1 + (i - pos)
    BY <1>1, <1>3, <1>8
  <2> QED
    BY <1>2, <2>1, <2>2, <2>3 DEF ContentInv
<1>16. DecoderInv
  BY <1>2, DecoderInvInit
<1> QED
  BY <1>10, <1>11, <1>12, <1>13, <1>14, <1>15, <1>16 DEF IInv

LEMMA NextInv == ASSUME ~ResetRaces, IInv, [Next]_vars PROVE IInv'
<1>1. PlacesInv /\ TypesInv /\ ServeInv /\ BufferInv /\ CountsInv /\ ContentInv /\ DecoderInv
  BY DEF IInv
<1>2. DecoderInv'
  BY <1>1, DecoderStep, DecoderInvStep
<1> QED
  BY <1>1, <1>2, PlacesStep, TypesStep, ServeStep, BufferStep, CountsStep, ContentStep
       DEF IInv

LEMMA Invariance == ASSUME ~ResetRaces PROVE Spec => []IInv
<1>1. Init => IInv
  BY InitInv
<1>2. IInv /\ [Next]_vars => IInv'
  BY NextInv
<1> QED
  BY <1>1, <1>2, PTL DEF Spec

----------------------------------------------------------------------------
(* What follows                                                            *)

(* Every variable keeps its type; above all the reader and the receiver     *)
(* stay inside the buffer.                                                  *)
THEOREM TypeCorrect == ASSUME ~ResetRaces PROVE Spec => []TypeOK
<1>1. IInv => TypeOK
  <2> SUFFICES ASSUME IInv PROVE TypeOK
    OBVIOUS
  <2>1. /\ pos \in 0..(2 * BufferSize) /\ full \in 0..BufferSize
        /\ requested \in 0..BufferSize \cup {None}
        /\ avail \in (-BufferSize)..BufferSize /\ ofs \in 0..(2 * BufferSize)
    BY BodyAssumption DEF IInv, TypesInv
  <2>2. {gone, receiving, clientClosed, cancelled, started, draining} \subseteq BOOLEAN
    BY DEF IInv, TypesInv
  <2> QED
    BY <2>1, <2>2 DEF IInv, TypesInv, PlacesInv, TypeOK, DecoderInv
<1> QED
  BY <1>1, Invariance, PTL

(* Bytes are received into an empty buffer, from its beginning, whatever    *)
(* reader and receiver do (assertions at Transport2HttpHandler 1039, 1040). *)
THEOREM ReceivesInOrder == ASSUME ~ResetRaces PROVE Spec => []ReceivesWhereExpected
<1>1. IInv => ReceivesWhereExpected
  BY DEF IInv, TypesInv, BufferInv, ReceivesWhereExpected, None
<1> QED
  BY <1>1, Invariance, PTL

(* Of the reader and the receivers one at most serves the read, and none    *)
(* while it is announced (_startedReceiveRequestData).                      *)
THEOREM OneServesAlways == ASSUME ~ResetRaces PROVE Spec => []OneServes
<1>1. IInv => OneServes
  <2> SUFFICES ASSUME IInv PROVE OneServes
    OBVIOUS
  <2> DEFINE S == {t \in Threads : Serving(t)}
  <2>1. OneServes <=> Cardinality(S) + (IF started THEN 1 ELSE 0) <= 1
    BY DEF OneServes, Serving
  <2>2. (started => S = {}) /\ \A t, u \in S : t = u
    BY DEF IInv, ServeInv
  <2> HIDE DEF S
  <2>3. CASE S = {}
    BY <2>1, <2>3, FS_EmptySet
  <2>4. CASE S # {}
    <3>1. PICK t : S = {t}
      BY <2>2, <2>4
    <3>2. Cardinality(S) = 1
      BY <3>1, FS_Singleton
    <3> QED
      BY <2>1, <2>2, <2>4, <3>2
  <2> QED
    BY <2>3, <2>4
<1> QED
  BY <1>1, Invariance, PTL

(* The decoder is driven as its specification says: what is proved of it    *)
(* holds of the body, whichever threads decode it, and wherever the buffer  *)
(* cuts it.                                                                 *)
THEOREM DrivesDecoder == ASSUME ~ResetRaces PROVE Spec => DecoderSpec
<1>1. Init => DecoderInit
  BY DEF Init
<1>2. IInv /\ [Next]_vars => [DecoderNext]_decoder
  BY DecoderStep DEF IInv
<1> QED
  BY <1>1, <1>2, Invariance, PTL DEF Spec, DecoderSpec

(* No byte from the wire is handed to the readers twice, or before one that *)
(* was sent earlier.                                                        *)
TakenOnce == \A i, j \in DOMAIN taken : i < j => taken[i] < taken[j]

THEOREM BytesTakenOnce == ASSUME ~ResetRaces PROVE Spec => []TakenOnce
<1>1. IInv => TakenOnce
  BY DEF IInv, ContentInv, TakenOnce
<1> QED
  BY <1>1, Invariance, PTL

(* The readers get the bytes of a body with a length from its first to its  *)
(* last; the next request begins right behind them.                         *)
THEOREM NextRequestAfterPlain ==
    ASSUME ~ResetRaces, \A b \in Bodies : ~b.chunked => b.end = Len(b.data)
    PROVE  Spec => [](body.chunked \/ NextRequestKept)
<1>1. IInv => body.chunked \/ NextRequestKept
  <2> SUFFICES ASSUME IInv, ~body.chunked, pc[App] = "done"
               PROVE  (IF Unread > 0 THEN buffer[pos] ELSE sent + 1) = body.end + 1
    BY DEF NextRequestKept
  <2>1. NextPlace = body.end + 1
    BY DEF IInv, ContentInv, CountsInv, TypesInv
  <2>2. \A t \in Threads : pc[t] # "decode"
    BY DEF IInv, BufferInv
  <2>3. sent \in Nat /\ full \in Nat /\ pos \in Nat /\ pos <= full
    BY BodyAssumption DEF IInv, TypesInv, Body
  <2>4. CASE \E t \in Threads : pc[t] = "fullness"
    <3>1. Unread = 0 /\ Unconsumed = full
      BY <2>2, <2>4 DEF Unread, Unconsumed
    <3> QED
      BY <2>1, <2>3, <3>1 DEF NextPlace
  <2>5. CASE ~ \E t \in Threads : pc[t] = "fullness"
    <3>1. Unread = full - pos /\ Unconsumed = pos
      BY <2>2, <2>5 DEF Unread, Unconsumed, ReceiveDataLength
    <3>2. CASE pos = full
      BY <2>1, <2>3, <3>1, <3>2 DEF NextPlace
    <3>3. CASE pos < full
      <4>1. pos \in pos..(full - 1) /\ pos - pos = 0
        BY <2>3, <3>3
      <4>2. buffer[pos] = NextPlace + (pos - pos)
        BY <3>1, <4>1 DEF IInv, ContentInv
      <4>3. NextPlace \in Int
        BY <2>3, <3>1 DEF NextPlace
      <4> QED
        BY <2>1, <2>3, <3>1, <3>3, <4>1, <4>2, <4>3
    <3> QED
      BY <2>3, <3>2, <3>3
  <2> QED
    BY <2>4, <2>5
<1> QED
  BY <1>1, Invariance, PTL

----------------------------------------------------------------------------
(* Plain bodies: what the reads get is what BodyStream promises            *)

PlainBodies == \A b \in Bodies : ~b.chunked /\ b.data = [i \in 1..Len(b.data) |-> i]

(* What the stream's user sees of a read.                                   *)
Reading == IF pc[App] = "failed" /\ tcs = "canceled" THEN "failed"
           ELSE IF ReadInProgress THEN "yes" ELSE "no"
Want == IF ReadInProgress THEN Min({asyncCount, Len(body.data) - Len(taken)}) ELSE 0

StreamStep == Stream!Next \/ UNCHANGED Stream!vars

LEMMA MinIsFirst == ASSUME NEW a \in Nat, NEW b \in Nat, a <= b PROVE Min({a, b}) = a
  BY MinOfTwo

(* What a read has still to get is never more than the rest of the body,    *)
(* and what has been taken is the beginning of the body.                    *)
StreamInv ==
    /\ contentLength = Len(body.data)
    /\ Len(taken) \in Nat /\ asyncCount \in Nat /\ Len(body.data) \in Nat
    /\ Len(taken) + asyncCount <= Len(body.data)
    /\ Want = IF ReadInProgress THEN asyncCount ELSE 0
    /\ taken = SubSeq(body.data, 1, Len(taken))

LEMMA StreamInvHolds == ASSUME PlainBodies PROVE IInv => StreamInv
<1> SUFFICES ASSUME IInv PROVE StreamInv
  OBVIOUS
<1> DEFINE n == Len(taken)
<1>1. ~body.chunked /\ body.data = [i \in 1..Len(body.data) |-> i] /\ body.data \in Seq(Nat)
  BY BodyAssumption DEF PlainBodies, IInv, TypesInv, Body
<1>2. /\ contentLength = Len(body.data)
      /\ Len(taken) + asyncCount <= contentLength
  BY <1>1 DEF IInv, CountsInv
<1>3. n \in Nat /\ asyncCount \in Nat /\ Len(body.data) \in Nat
  BY <1>1 DEF IInv, TypesInv
<1>4. Want = IF ReadInProgress THEN asyncCount ELSE 0
  <2>1. Len(body.data) - n \in Nat /\ asyncCount <= Len(body.data) - n
    BY <1>2, <1>3
  <2>2. Min({asyncCount, Len(body.data) - n}) = asyncCount
    BY <1>3, <2>1, MinIsFirst
  <2> QED
    BY <2>2 DEF Want
<1>5. taken \in Seq(0..Len(body.wire)) /\ \A i \in 1..n : taken[i] = i
  BY <1>1 DEF IInv, TypesInv, ContentInv
<1>6. SubSeq(body.data, 1, n) = [i \in 1..n |-> body.data[i]]
  BY <1>1, <1>2, <1>3
<1>7. \A i \in 1..n : body.data[i] = i
  <2>1. \A i \in 1..n : i \in 1..Len(body.data)
    BY <1>2, <1>3
  <2> QED
    BY <1>1, <2>1
<1>8. taken = [i \in 1..n |-> taken[i]]
  BY <1>5
<1>9. taken = SubSeq(body.data, 1, n)
  BY <1>5, <1>6, <1>7, <1>8
<1> QED
  BY <1>2, <1>3, <1>4, <1>9 DEF StreamInv

LEMMA StreamStutters ==
    ASSUME UNCHANGED <<body, taken, asked, asyncCount>>, ReadInProgress' <=> ReadInProgress,
           Reading' = Reading
    PROVE  StreamStep
<1>1. Want' = Want
  BY DEF Want
<1> QED
  BY <1>1 DEF StreamStep, Stream!vars, Reading, Want

(* Each step is one of the stream's, or nothing to its user.                *)
LEMMA StreamStepped ==
    ASSUME ~ResetRaces, PlainBodies, IInv, StreamInv, StreamInv', [Next]_vars
    PROVE  StreamStep
<1> USE BodyAssumption DEF PlacesInv, TypesInv, ServeInv, Threads, Points, IInv
<1>1. ASSUME NEW count \in Counts, AppRead(count) PROVE StreamStep
  <2>1. PICK n \in Counts \cup {BufferSize} : ReadSyncPart(n) /\ pc[App] = "app"
    BY <1>1 DEF AppRead, At
  <2>2. ~ReadInProgress /\ Reading = "no" /\ Want = 0
    BY <2>1 DEF ReadInProgress, Reading, Want
  <2>3. ReadInProgress' /\ Reading' = "yes"
    BY <2>1 DEF ReadSyncPart, Go, ReadInProgress, Reading
  <2>4. n \in Nat /\ asyncCount' = (IF n > contentLength - RequestPosition
                                        THEN contentLength - RequestPosition ELSE n)
    BY <2>1 DEF ReadSyncPart
  <2>7. /\ Want' = asyncCount' /\ contentLength = Len(body.data)
        /\ Len(taken) \in Nat /\ Len(body.data) \in Nat
    BY <2>3 DEF StreamInv
  <2>5. Want' = IF n < Stream!Rest THEN n ELSE Stream!Rest
    <3>1. Stream!Rest = contentLength - RequestPosition /\ Stream!Rest \in Int
      BY <2>7 DEF Stream!Rest, RequestPosition
    <3>2. Want' = IF n > Stream!Rest THEN Stream!Rest ELSE n
      BY <2>4, <2>7, <3>1
    <3> HIDE DEF Stream!Rest
    <3> QED
      BY <2>4, <3>1, <3>2
  <2>6. Stream!Read(n)
    BY <2>1, <2>2, <2>3, <2>5 DEF Stream!Read, Reading, Want, ReadSyncPart
  <2> QED
    BY <2>1, <2>6 DEF StreamStep, Stream!Next
<1>2. ASSUME DrainRead PROVE StreamStep
  <2>1. PICK n \in Counts \cup {BufferSize} : ReadSyncPart(n) /\ pc[App] = "app"
    BY <1>2 DEF DrainRead, At
  <2>2. ~ReadInProgress /\ Reading = "no" /\ Want = 0
    BY <2>1 DEF ReadInProgress, Reading, Want
  <2>3. ReadInProgress' /\ Reading' = "yes"
    BY <2>1 DEF ReadSyncPart, Go, ReadInProgress, Reading
  <2>4. n \in Nat /\ asyncCount' = (IF n > contentLength - RequestPosition
                                        THEN contentLength - RequestPosition ELSE n)
    BY <2>1 DEF ReadSyncPart
  <2>7. /\ Want' = asyncCount' /\ contentLength = Len(body.data)
        /\ Len(taken) \in Nat /\ Len(body.data) \in Nat
    BY <2>3 DEF StreamInv
  <2>5. Want' = IF n < Stream!Rest THEN n ELSE Stream!Rest
    <3>1. Stream!Rest = contentLength - RequestPosition /\ Stream!Rest \in Int
      BY <2>7 DEF Stream!Rest, RequestPosition
    <3>2. Want' = IF n > Stream!Rest THEN Stream!Rest ELSE n
      BY <2>4, <2>7, <3>1
    <3> HIDE DEF Stream!Rest
    <3> QED
      BY <2>4, <3>1, <3>2
  <2>6. Stream!Read(n)
    BY <2>1, <2>2, <2>3, <2>5 DEF Stream!Read, Reading, Want, ReadSyncPart
  <2> QED
    BY <2>1, <2>6 DEF StreamStep, Stream!Next
<1>3. ASSUME ReadBuffered PROVE StreamStep
  <2> DEFINE n == Unread
  <2>1. /\ ProcessDataInternal(App, n) /\ At(App, "loaded")
        /\ n \in Nat /\ pos + n <= full
    BY <1>3, UnreadFits DEF ReadBuffered
  <2> HIDE DEF n
  <2>2. ~body.chunked
    BY DEF PlainBodies, TypesInv
  <2>3. PICK len \in Nat : Served(pos, len)
    BY <2>1, <2>2, PlainServes DEF ProcessDataInternal
  <2>4. pc' = [pc EXCEPT ![App] = "copied"] /\ UNCHANGED <<body, asked, tcs>>
    BY <2>1, <2>2 DEF ProcessDataInternal, ProcessPlain, Go
  <2>5. ReadInProgress /\ ReadInProgress' /\ Reading = "yes" /\ Reading' = "yes"
    BY <2>1, <2>4 DEF ReadInProgress, Reading, At, ServeInv, Serving
  <2>6. /\ taken' = SubSeq(body.data, 1, Len(taken')) /\ Len(taken') = Len(taken) + len
        /\ taken = SubSeq(body.data, 1, Len(taken))
        /\ len <= asyncCount
        /\ Want = asyncCount /\ Want' = asyncCount' /\ asyncCount' = asyncCount - len
        /\ asyncCount \in Nat /\ Len(taken) \in Nat
    BY <2>3, <2>4, <2>5 DEF Served, Appended, StreamInv
  <2>7. CASE len = 0
    <3>1. Len(taken') = Len(taken) /\ Want' = Want
      BY <2>6, <2>7
    <3>2. taken' = taken
      BY <2>6, <3>1
    <3> QED
      BY <2>4, <2>5, <3>1, <3>2 DEF StreamStep, Stream!vars, Reading, Want
  <2>8. CASE len > 0
    <3>1. /\ len \in 1..Want /\ taken' = SubSeq(body.data, 1, Len(taken) + len)
          /\ Want' = Want - len
      BY <2>6, <2>8
    <3>2. Stream!Fill
      BY <2>4, <2>5, <3>1 DEF Stream!Fill, Reading, Want
    <3> QED
      BY <3>2 DEF StreamStep, Stream!Next
  <2> QED
    BY <2>7, <2>8
<1>4. ASSUME NEW t \in Threads, Process(t) PROVE StreamStep
  <2> DEFINE n == ReceiveDataLength
  <2>1. /\ ProcessDataInternal(t, n) /\ At(t, "process")
        /\ n \in Nat /\ pos + n <= full
    BY <1>4, UnreadFits DEF Process
  <2> HIDE DEF n
  <2>2. ~body.chunked
    BY DEF PlainBodies, TypesInv
  <2>3. PICK len \in Nat : Served(pos, len)
    BY <2>1, <2>2, PlainServes DEF ProcessDataInternal
  <2>4. pc' = [pc EXCEPT ![t] = "copied"] /\ UNCHANGED <<body, asked, tcs>>
    BY <2>1, <2>2 DEF ProcessDataInternal, ProcessPlain, Go
  <2>5. ReadInProgress /\ ReadInProgress' /\ Reading = "yes" /\ Reading' = "yes"
    BY <2>1, <2>4 DEF ReadInProgress, Reading, At, ServeInv, Serving
  <2>6. /\ taken' = SubSeq(body.data, 1, Len(taken')) /\ Len(taken') = Len(taken) + len
        /\ taken = SubSeq(body.data, 1, Len(taken))
        /\ len <= asyncCount
        /\ Want = asyncCount /\ Want' = asyncCount' /\ asyncCount' = asyncCount - len
        /\ asyncCount \in Nat /\ Len(taken) \in Nat
    BY <2>3, <2>4, <2>5 DEF Served, Appended, StreamInv
  <2>7. CASE len = 0
    <3>1. Len(taken') = Len(taken) /\ Want' = Want
      BY <2>6, <2>7
    <3>2. taken' = taken
      BY <2>6, <3>1
    <3> QED
      BY <2>4, <2>5, <3>1, <3>2 DEF StreamStep, Stream!vars, Reading, Want
  <2>8. CASE len > 0
    <3>1. /\ len \in 1..Want /\ taken' = SubSeq(body.data, 1, Len(taken) + len)
          /\ Want' = Want - len
      BY <2>6, <2>8
    <3>2. Stream!Fill
      BY <2>4, <2>5, <3>1 DEF Stream!Fill, Reading, Want
    <3> QED
      BY <3>2 DEF StreamStep, Stream!Next
  <2> QED
    BY <2>7, <2>8
<1>5. ASSUME NEW t \in Threads, Decode(t) PROVE StreamStep
  <2>1. pc[t] = "decode"
    BY <1>5 DEF Decode, At
  <2> QED
    BY <2>1 DEF BufferInv, PlainBodies, TypesInv
<1>6. ASSUME NEW t \in Threads, DecodeEnd(t) PROVE StreamStep
  <2>1. pc[t] = "decode"
    BY <1>6 DEF DecodeEnd, At
  <2> QED
    BY <2>1 DEF BufferInv, PlainBodies, TypesInv
<1>7. ASSUME ReadFromBuffer PROVE StreamStep
  <2>1. /\ asyncCount = 0 /\ tcs # "canceled" /\ UNCHANGED <<body, taken, asked, tcs>>
        /\ ReadInProgress
        /\ pc' = [pc EXCEPT ![App] = "done"] \/ pc' = [pc EXCEPT ![App] = "app"]
    BY <1>7 DEF ReadFromBuffer, Returned, At, Go, readVars, ReadInProgress, CountsInv
  <2>2. Reading = "yes" /\ Want = 0
    BY <2>1 DEF Reading, ReadInProgress, StreamInv
  <2>3. ~ReadInProgress'
    BY <2>1 DEF ReadInProgress, PlacesInv, Threads
  <2>4. Reading' = "no" /\ Want' = 0
    BY <2>1, <2>3 DEF Reading, Want
  <2>5. Stream!Return
    BY <2>1, <2>2, <2>4 DEF Stream!Return, Reading, Want
  <2> QED
    BY <2>5 DEF StreamStep, Stream!Next
<1>8. ASSUME ReadOverflowAsync PROVE StreamStep
  <2>1. UNCHANGED <<body, taken, asked, asyncCount>>
    BY <1>8 DEF ReadOverflowAsync, transportVars, receiveVars, readVars
  <2>2. ReadInProgress' <=> ReadInProgress
    BY <1>8 DEF ReadOverflowAsync, At, Go, ReadInProgress
  <2>3. Reading' = Reading
    BY <1>8, <2>2 DEF ReadOverflowAsync, At, Go, Reading, ReadInProgress
  <2> QED
    BY <2>1, <2>2, <2>3, StreamStutters
<1>9. ASSUME StartNextReceive PROVE StreamStep
  <2>1. UNCHANGED <<body, taken, asked, asyncCount>>
    BY <1>9 DEF StartNextReceive, LockFree, transportVars, receiveVars, readVars
  <2>2. ReadInProgress' <=> ReadInProgress
    BY <1>9 DEF StartNextReceive, LockFree, At, Go, ReadInProgress
  <2>3. Reading' = Reading
    BY <1>9, <2>2 DEF StartNextReceive, LockFree, At, Go, Reading, ReadInProgress
  <2> QED
    BY <2>1, <2>2, <2>3, StreamStutters
<1>10. ASSUME ReadCompleted PROVE StreamStep
  <2>1. /\ asyncCount = 0 /\ tcs # "canceled" /\ UNCHANGED <<body, taken, asked, tcs>>
        /\ ReadInProgress
        /\ pc' = [pc EXCEPT ![App] = "done"] \/ pc' = [pc EXCEPT ![App] = "app"]
    BY <1>10 DEF ReadCompleted, Returned, At, Go, readVars, ReadInProgress, CountsInv
  <2>2. Reading = "yes" /\ Want = 0
    BY <2>1 DEF Reading, ReadInProgress, StreamInv
  <2>3. ~ReadInProgress'
    BY <2>1 DEF ReadInProgress, PlacesInv, Threads
  <2>4. Reading' = "no" /\ Want' = 0
    BY <2>1, <2>3 DEF Reading, Want
  <2>5. Stream!Return
    BY <2>1, <2>2, <2>4 DEF Stream!Return, Reading, Want
  <2> QED
    BY <2>5 DEF StreamStep, Stream!Next
<1>11. ASSUME ReadFailed PROVE StreamStep
  <2>1. /\ pc[App] = "await" /\ pc'[App] = "failed" /\ tcs = "canceled"
        /\ UNCHANGED <<body, taken, asked, tcs>>
    BY <1>11 DEF ReadFailed, At, Go, readVars
  <2>2. Reading = "yes" /\ Reading' = "failed" /\ Want' = 0
    BY <2>1 DEF Reading, ReadInProgress, Want
  <2>3. Stream!Fail
    BY <2>1, <2>2 DEF Stream!Fail, Reading, Want
  <2> QED
    BY <2>3 DEF StreamStep, Stream!Next
<1>12. ASSUME AppEnds PROVE StreamStep
  <2>1. /\ pc[App] = "app" /\ UNCHANGED <<body, taken, asked, asyncCount, tcs>>
        /\ pc'[App] \in {"app", "failed", "done"}
    BY <1>12 DEF AppEnds, At, Go, readVars
  <2>2. tcs # "canceled" /\ ~ReadInProgress /\ ~ReadInProgress'
    BY <2>1 DEF ReadInProgress
  <2>3. Reading' = Reading
    BY <2>1, <2>2 DEF Reading
  <2> QED
    BY <2>1, <2>2, <2>3, StreamStutters
<1>13. ASSUME NEW t \in Threads, TakeRead(t) PROVE StreamStep
  <2>1. UNCHANGED <<body, taken, asked, asyncCount>>
    BY <1>13
         DEF TakeRead, ReadWaits, ReceiveDataLength, transportVars, receiveVars, readVars
  <2>2. ReadInProgress' <=> ReadInProgress
    BY <1>13 DEF TakeRead, ReadWaits, ReceiveDataLength, At, Go, ReadInProgress
  <2>3. Reading' = Reading
    BY <1>13, <2>2
         DEF TakeRead, ReadWaits, ReceiveDataLength, At, Go, Reading, ReadInProgress
  <2> QED
    BY <2>1, <2>2, <2>3, StreamStutters
<1>14. ASSUME NEW t \in Threads, Processed(t) PROVE StreamStep
  <2>1. UNCHANGED <<body, taken, asked, asyncCount>>
    BY <1>14 DEF Processed, transportVars, receiveVars, readVars
  <2>2. ReadInProgress' <=> ReadInProgress
    BY <1>14 DEF Processed, At, Go, ReadInProgress
  <2>3. Reading' = Reading
    BY <1>14, <2>2 DEF Processed, At, Go, Reading, ReadInProgress
  <2> QED
    BY <2>1, <2>2, <2>3, StreamStutters
<1>15. ASSUME NEW t \in Threads, Relock(t) PROVE StreamStep
  <2>1. UNCHANGED <<body, taken, asked, asyncCount>>
    BY <1>15 DEF Relock, LockFree, transportVars, receiveVars, readVars
  <2>2. ReadInProgress' <=> ReadInProgress
    BY <1>15 DEF Relock, LockFree, At, Go, ReadInProgress
  <2>3. Reading' = Reading
    BY <1>15, <2>2 DEF Relock, LockFree, At, Go, Reading, ReadInProgress
  <2> QED
    BY <2>1, <2>2, <2>3, StreamStutters
<1>16. ASSUME NEW t \in Threads, LeaveUnread(t) PROVE StreamStep
  <2>1. UNCHANGED <<body, taken, asked, asyncCount>>
    BY <1>16 DEF LeaveUnread, Home, transportVars, receiveVars, readVars
  <2>2. ReadInProgress' <=> ReadInProgress
    BY <1>16 DEF LeaveUnread, Home, At, Go, ReadInProgress
  <2>3. Reading' = Reading
    BY <1>16, <2>2 DEF LeaveUnread, Home, At, Go, Reading, ReadInProgress
  <2> QED
    BY <2>1, <2>2, <2>3, StreamStutters
<1>17. ASSUME NEW t \in Threads, ResetPos(t) PROVE StreamStep
  <2>1. UNCHANGED <<body, taken, asked, asyncCount>>
    BY <1>17 DEF ResetPos, transportVars, readVars
  <2>2. ReadInProgress' <=> ReadInProgress
    BY <1>17 DEF ResetPos, At, Go, ReadInProgress
  <2>3. Reading' = Reading
    BY <1>17, <2>2 DEF ResetPos, At, Go, Reading, ReadInProgress
  <2> QED
    BY <2>1, <2>2, <2>3, StreamStutters
<1>18. ASSUME NEW t \in Threads, ResetFullness(t) PROVE StreamStep
  <2>1. UNCHANGED <<body, taken, asked, asyncCount>>
    BY <1>18 DEF ResetFullness, Home, transportVars, readVars
  <2>2. ReadInProgress' <=> ReadInProgress
    BY <1>18 DEF ResetFullness, Home, At, Go, ReadInProgress
  <2>3. Reading' = Reading
    BY <1>18, <2>2 DEF ResetFullness, Home, At, Go, Reading, ReadInProgress
  <2> QED
    BY <2>1, <2>2, <2>3, StreamStutters
<1>19. ASSUME NEW t \in Threads, RealStartNextReceive(t) PROVE StreamStep
  <2>1. UNCHANGED <<body, taken, asked, asyncCount>>
    BY <1>19 DEF RealStartNextReceive, Home, receiveVars, readVars
  <2>2. ReadInProgress' <=> ReadInProgress
    BY <1>19 DEF RealStartNextReceive, Home, At, Go, ReadInProgress
  <2>3. Reading' = Reading
    BY <1>19, <2>2 DEF RealStartNextReceive, Home, At, Go, Reading, ReadInProgress
  <2> QED
    BY <2>1, <2>2, <2>3, StreamStutters
<1>20. ASSUME NEW r \in Receivers, NEW n \in 1..BufferSize, FinishReceive(r, n) PROVE StreamStep
  <2>1. UNCHANGED <<body, taken, asked, asyncCount>>
    BY <1>20 DEF FinishReceive, LockFree, readVars
  <2>2. ReadInProgress' <=> ReadInProgress
    BY <1>20 DEF FinishReceive, LockFree, At, Go, ReadInProgress
  <2>3. Reading' = Reading
    BY <1>20, <2>2 DEF FinishReceive, LockFree, At, Go, Reading, ReadInProgress
  <2> QED
    BY <2>1, <2>2, <2>3, StreamStutters
<1>21. ASSUME NEW r \in Receivers, FinishReceiveClosed(r) PROVE StreamStep
  <2>1. UNCHANGED <<body, taken, asked, asyncCount>>
    BY <1>21 DEF FinishReceiveClosed, LockFree, readVars
  <2>2. ReadInProgress' <=> ReadInProgress
    BY <1>21 DEF FinishReceiveClosed, LockFree, At, Go, ReadInProgress
  <2>3. Reading' = Reading
    BY <1>21, <2>2 DEF FinishReceiveClosed, LockFree, At, Go, Reading, ReadInProgress
  <2> QED
    BY <2>1, <2>2, <2>3, StreamStutters
<1>22. ASSUME NEW r \in Receivers, SetClientClosed(r) PROVE StreamStep
  <2>1. UNCHANGED <<body, taken, asked, asyncCount>>
    BY <1>22 DEF SetClientClosed, transportVars, readVars
  <2>2. ReadInProgress' <=> ReadInProgress
    BY <1>22 DEF SetClientClosed, At, Go, ReadInProgress
  <2>3. Reading' = Reading
    BY <1>22, <2>2 DEF SetClientClosed, At, Go, Reading, ReadInProgress
  <2> QED
    BY <2>1, <2>2, <2>3, StreamStutters
<1>23. ASSUME NEW r \in Receivers, TellReader(r) PROVE StreamStep
  <2>1. UNCHANGED <<body, taken, asked, asyncCount>>
    BY <1>23 DEF TellReader, transportVars, readVars
  <2>2. ReadInProgress' <=> ReadInProgress
    BY <1>23 DEF TellReader, At, Go, ReadInProgress
  <2>3. Reading' = Reading
    BY <1>23, <2>2 DEF TellReader, At, Go, Reading, ReadInProgress
  <2> QED
    BY <2>1, <2>2, <2>3, StreamStutters
<1>24. CASE UNCHANGED vars
  <2>1. UNCHANGED <<body, taken, asked, asyncCount, pc, tcs>>
    BY <1>24 DEF vars, readVars
  <2>2. Reading' = Reading /\ (ReadInProgress' <=> ReadInProgress)
    BY <2>1 DEF Reading, ReadInProgress
  <2> QED
    BY <2>1, <2>2, StreamStutters
<1> QED
  BY <1>1, <1>2, <1>3, <1>4, <1>5, <1>6, <1>7, <1>8, <1>9, <1>10, <1>11, <1>12, <1>13,
     <1>14, <1>15, <1>16, <1>17, <1>18, <1>19, <1>20, <1>21, <1>22, <1>23, <1>24
     DEF Next, Reader, Serve, Closing, Client

(* A body with a length is read as a stream: whatever is copied by the      *)
(* reader and whatever by the receivers, its bytes come in order, none is   *)
(* lost, and a read gets as many as it asked for or the rest.               *)
THEOREM PlainImplementsStream == ASSUME ~ResetRaces, PlainBodies PROVE Spec => ImplementsStream
<1>1. Init => Stream!Init
  <2> SUFFICES ASSUME Init PROVE Stream!Init
    OBVIOUS
  <2>1. pc[App] = "app"
    BY DEF Init, Threads
  <2> QED
    BY <2>1 DEF Init, Stream!Init, ReadInProgress
<1>2. IInv => StreamInv
  BY StreamInvHolds
<1>3. IInv /\ StreamInv /\ StreamInv' /\ [Next]_vars => [Stream!Next]_(Stream!vars)
  BY StreamStepped DEF StreamStep
<1> QED
  BY <1>1, <1>2, <1>3, Invariance, PTL DEF Spec, ImplementsStream, Stream!Spec
=============================================================================
