---------------------------- MODULE RequestBody -----------------------------
(***************************************************************************)
(* The body of one request, from the buffer that the transport fills to    *)
(* the application that reads it: the reading half of ReqRespStream.cs     *)
(* with the receive path of Transport2HttpHandler.cs that serves it.       *)
(* The reader takes what is in the buffer without a lock; if that is not   *)
(* enough it leaves the read to whoever next holds _receiveProcessingLock, *)
(* the thread of a completed receive or the reader itself.  The model      *)
(* begins when the head has been parsed and ends when the response is      *)
(* about to be sent, with the rest of the body drained.                    *)
(***************************************************************************)
EXTENDS ChunkedDecoder, Sequences, FiniteSets, SequencesExt

CONSTANTS
    App,            \* the thread of the application, and of the drain
    Receivers,      \* threads on which receives complete
    Bodies,         \* bodies a request may have, see Body
    Counts,         \* sizes of the application's reads
    BufferSize,     \* ReceiveBufferSize
    ULongMax,       \* ulong.MaxValue, the length of a chunked body so far
    ResetRaces      \* whether a reset of the buffer can come between the accesses
                    \* of a reader that has found it empty

Threads == Receivers \cup {App}

(* What a client sends from the body on, the places of the body's data in   *)
(* it, and the place of the body's last byte.  A byte is named by its       *)
(* place; place 0 stands for the head.                                      *)
Body == [chunked : BOOLEAN, wire : Seq(Byte), data : Seq(Nat), end : Nat]

ASSUME BodyAssumption ==
    /\ App \notin Receivers /\ IsFiniteSet(Receivers) /\ Receivers # {}
    /\ Bodies \subseteq Body
    /\ Counts \subseteq Nat \ {0}
    /\ BufferSize \in Nat \ {0, 1}
    /\ ULongMax \in Nat /\ \A b \in Bodies : Len(b.data) < ULongMax
    /\ ResetRaces \in BOOLEAN

None == -1

VARIABLES
    body,           \* the request's body
    sent,           \* bytes of it that the transport has delivered
    gone,           \* the client has closed
    requested,      \* offset of the outstanding StartReceive, or None
    buffer,         \* the receive half of _buffer
    pos,            \* ReceiveBufferPos
    full,           \* _receiveBufferFullness - StartBufferOffset
    receiving,      \* _receiving
    clientClosed,   \* _clientClosedConnection
    cancelled,      \* _cancellation.IsCancellationRequested
    started,        \* _startedReceiveRequestData
    contentLength,  \* RequestContentLength
    asked,          \* count argument of the read in progress
    asyncCount,     \* _asyncCount
    asyncResult,    \* _asyncResult
    tcs,            \* _tcs of the read in progress
    taken,          \* history: the bytes copied into the readers' buffers
    avail,          \* encodedDataAvail, ReceiveDataLength as the reader saw it
    ofs,            \* encodedDataOfs
    draining,       \* DrainRequestStreamAsync is running
    pc              \* where each thread is

transportVars == <<sent, gone, requested, buffer>>
receiveVars == <<pos, full, receiving, clientClosed, cancelled>>
readVars == <<contentLength, asked, asyncCount, asyncResult, taken, decoder>>
vars == <<body, transportVars, receiveVars, started, readVars, tcs, avail, ofs,
          draining, pc>>

(* Of a thread: "app", the application runs; "loaded", ReceiveDataLength is *)
(* half evaluated; "decode", "copied", in ProcessDataInternal; "overflow",  *)
(* in ReadOverflowAsync; "await"; "loop" and "fullness", in ProcessReceive  *)
(* with the lock; "process" and "relock", there without it; "start", about  *)
(* to start a receive; "closed" and "told", in FinishReceive(-1).           *)
Points == {"app", "loaded", "decode", "copied", "overflow", "startNext", "await",
           "loop", "fullness", "process", "relock", "start", "closed", "told",
           "idle", "done", "failed"}

TypeOK ==
    /\ body \in Bodies
    /\ sent \in 0..Len(body.wire) /\ requested \in 0..BufferSize \cup {None}
    /\ buffer \in [0..(BufferSize - 1) -> 0..Len(body.wire)]
    /\ pos \in 0..(2 * BufferSize) /\ full \in 0..BufferSize
    /\ {gone, receiving, clientClosed, cancelled, started, draining} \subseteq BOOLEAN
    /\ contentLength \in Nat /\ asked \in Nat /\ asyncCount \in Nat /\ asyncResult \in Nat
    /\ tcs \in {"none", "pending", "result", "canceled"}
    /\ taken \in Seq(0..Len(body.wire))
    /\ avail \in (-BufferSize)..BufferSize /\ ofs \in 0..(2 * BufferSize)
    /\ DecoderOK
    /\ pc \in [Threads -> Points]

RequestPosition == Len(taken)
ReceiveDataLength == full - pos
ByteAt(place) == IF place = 0 THEN Other ELSE body.wire[place]

At(t, point) == pc[t] = point
Go(t, point) == pc' = [pc EXCEPT ![t] = point]

(* Whoever is in ProcessReceive at one of these holds the lock.             *)
LockFree == \A t \in Threads : pc[t] \notin {"loop", "fullness"}

(* The head came alone, and the next receive was started with it (1112), or *)
(* with the first bytes of the body.  The first receiver has called         *)
(* HandleRequest and is to take the lock again.                             *)
Init ==
    /\ body \in Bodies
    /\ buffer = [i \in 0..(BufferSize - 1) |-> 0]
        \/ \E n \in 1..(BufferSize - 1) :
              /\ n <= Len(body.wire)
              /\ buffer = [i \in 0..(BufferSize - 1) |-> IF i \in 1..n THEN i ELSE 0]
    /\ sent = Cardinality({i \in DOMAIN buffer : buffer[i] # 0})
    /\ receiving = (sent = 0)
    /\ requested = IF receiving THEN 0 ELSE None
    /\ pos = (IF receiving THEN 0 ELSE 1) /\ full = (IF receiving THEN 0 ELSE sent + 1)
    /\ gone = FALSE /\ clientClosed = FALSE /\ cancelled = FALSE /\ started = FALSE
    /\ contentLength = (IF body.chunked THEN ULongMax ELSE Len(body.data))
    /\ asked = 0 /\ asyncCount = 0 /\ asyncResult = 0 /\ tcs = "none" /\ taken = <<>>
    /\ DecoderInit
    /\ avail = 0 /\ ofs = 0 /\ draining = FALSE
    /\ \E r \in Receivers :
          pc = [t \in Threads |-> IF t = App THEN "app" ELSE IF t = r THEN "relock" ELSE "idle"]

----------------------------------------------------------------------------
(* The reader: ReqRespStream.ReadSyncPart and ReadOverflowAsync            *)

(* ReceiveDataLength is two loads, which nothing protects from the two      *)
(* stores that reset the buffer; the first one is made here.                *)
ReadSyncPart(count) ==
    LET clipped == IF count > contentLength - RequestPosition
                   THEN contentLength - RequestPosition ELSE count
    IN  /\ asked' = count
        /\ asyncCount' = clipped /\ asyncResult' = 0
        /\ tcs' = "none"
        /\ IF clipped = 0 THEN Go(App, "copied") /\ UNCHANGED avail
           ELSE Go(App, "loaded") /\ avail' = full
        /\ UNCHANGED <<body, transportVars, receiveVars, started, contentLength, taken,
                       decoder, ofs, draining>>

AppRead(count) == At(App, "app") /\ ~draining /\ ReadSyncPart(count)

(* DrainRequestStreamAsync reads into the header half of the buffer, as     *)
(* much as it holds, until a read gets less.                                *)
DrainRead == At(App, "app") /\ draining /\ ReadSyncPart(BufferSize)

(* Copies n bytes from place i of the buffer on to the reader.              *)
Copy(i, n) ==
    /\ taken' = taken \o [k \in 1..n |-> buffer[i + k - 1]]
    /\ asyncCount' = asyncCount - n /\ asyncResult' = asyncResult + n

(* ProcessDataInternal for a body with a length, n of it being there.       *)
ProcessPlain(t, n) ==
    LET len == Min({asyncCount, n})
    IN  /\ IF len > 0 THEN Copy(pos, len) /\ pos' = pos + len
           ELSE UNCHANGED <<taken, asyncCount, asyncResult, pos>>
        /\ Go(t, "copied")
        /\ UNCHANGED <<contentLength, decoder, avail, ofs>>

(* A reader of a chunked body stores the position even if it read nothing   *)
(* (147): with ResetRaces, over a reset made meanwhile.                     *)
StartDecoding(t, n) ==
    /\ avail' = n /\ ofs' = pos
    /\ Go(t, IF n > 0 \/ ResetRaces THEN "decode" ELSE "copied")
    /\ UNCHANGED <<contentLength, taken, asyncCount, asyncResult, decoder, pos>>

ProcessDataInternal(t, n) ==
    /\ IF body.chunked THEN StartDecoding(t, n) ELSE ProcessPlain(t, n)
    /\ UNCHANGED <<body, transportVars, full, receiving, clientClosed, cancelled, asked,
                   tcs, draining>>

(* What is there to read: nothing while a reset is half done.               *)
Unread == IF \E t \in Threads : pc[t] = "fullness" THEN 0 ELSE ReceiveDataLength

(* The second load.  Without ResetRaces, ReceiveDataLength is what it would *)
(* be had the reset been one step.                                          *)
ReadBuffered ==
    /\ At(App, "loaded")
    /\ ProcessDataInternal(App, IF ResetRaces THEN avail - pos ELSE Unread)
    /\ UNCHANGED started

----------------------------------------------------------------------------
(* ProcessChunkedDataInternal: one turn of its loop, and its end           *)

EndOfBody(d) == d.state = "End"

DecodeByte ==
    /\ DataAvailable(decoder) = 0
    /\ Frame(ByteAt(buffer[ofs]))
    /\ IF EndOfBody(decoder') THEN contentLength' = RequestPosition /\ asyncCount' = 0
       ELSE UNCHANGED <<contentLength, asyncCount>>
    /\ ofs' = ofs + 1 /\ avail' = avail - 1
    /\ UNCHANGED <<taken, asyncResult>>

(* Mutation: more is copied than the reader has room for.                   *)
DecodeDataUnlimited ==
    /\ DataAvailable(decoder) > 0
    /\ LET n == Min({DataAvailable(decoder), avail})
       IN  Eat(n) /\ Copy(ofs, n) /\ ofs' = ofs + n /\ avail' = avail - n
    /\ UNCHANGED contentLength

DecodeData ==
    /\ DataAvailable(decoder) > 0
    /\ LET n == Min({DataAvailable(decoder), avail, asyncCount})
       IN  Eat(n) /\ Copy(ofs, n) /\ ofs' = ofs + n /\ avail' = avail - n
    /\ UNCHANGED contentLength

DecodeAfterEnd ==
    /\ DataAvailable(decoder) < 0
    /\ contentLength' = RequestPosition /\ asyncCount' = 0
    /\ UNCHANGED <<ofs, avail, taken, asyncResult, decoder>>

Decode(t) ==
    /\ At(t, "decode")
    /\ avail > 0 /\ asyncCount > 0
    /\ DecodeByte \/ DecodeData \/ DecodeAfterEnd
    /\ UNCHANGED <<body, transportVars, receiveVars, started, asked, tcs, draining, pc>>

DecodeEnd(t) ==
    /\ At(t, "decode")
    /\ ~(avail > 0 /\ asyncCount > 0)
    /\ pos' = ofs
    /\ Go(t, "copied")
    /\ UNCHANGED <<body, transportVars, full, receiving, clientClosed, cancelled, started,
                   readVars, tcs, avail, ofs, draining>>

----------------------------------------------------------------------------
(* The end of a read                                                       *)

(* Mutation: a drain ends with its first read.                              *)
ReturnedAfterOne == Go(App, IF draining /\ asyncResult <= BufferSize THEN "done" ELSE "app")

(* A drain that got less than it asked for is the end of the request.       *)
Returned == Go(App, IF draining /\ asyncResult < BufferSize THEN "done" ELSE "app")

ReadFromBuffer ==
    /\ At(App, "copied") /\ tcs = "none"
    /\ asyncCount = 0
    /\ Returned
    /\ UNCHANGED <<body, transportVars, receiveVars, started, readVars, tcs, avail, ofs,
                   draining>>

ReadOverflowAsync ==
    /\ At(App, "copied") /\ tcs = "none"
    /\ asyncCount > 0
    /\ tcs' = "pending"
    /\ started' = TRUE
    /\ Go(App, "startNext")
    /\ UNCHANGED <<body, transportVars, receiveVars, readVars, avail, ofs, draining>>

(* StartNextReceive: a closed client is the end of it.                      *)
StartNextReceive ==
    /\ At(App, "startNext")
    /\ IF clientClosed THEN Go(App, "await") ELSE LockFree /\ Go(App, "loop")
    /\ UNCHANGED <<body, transportVars, receiveVars, started, readVars, tcs, avail, ofs,
                   draining>>

ReadCompleted ==
    /\ At(App, "await")
    /\ tcs = "result"
    /\ Returned
    /\ UNCHANGED <<body, transportVars, receiveVars, started, readVars, tcs, avail, ofs,
                   draining>>

(* The application does not handle the exception, and answers 500; so does  *)
(* the continuation of the drain.                                           *)
ReadFailed ==
    /\ At(App, "await")
    /\ tcs = "canceled"
    /\ Go(App, "failed")
    /\ UNCHANGED <<body, transportVars, receiveVars, started, readVars, tcs, avail, ofs,
                   draining>>

(* ResponseFinished.                                                        *)
AppEnds ==
    /\ At(App, "app") /\ ~draining
    /\ \/ cancelled /\ Go(App, "failed") /\ UNCHANGED draining
       \/ ~cancelled /\ RequestPosition # contentLength /\ draining' = TRUE /\ UNCHANGED pc
       \/ ~cancelled /\ RequestPosition = contentLength /\ Go(App, "done") /\ UNCHANGED draining
    /\ UNCHANGED <<body, transportVars, receiveVars, started, readVars, tcs, avail, ofs>>

----------------------------------------------------------------------------
(* ProcessReceive, while a request is being answered                       *)

(* Where a thread goes that has left ProcessReceive.                        *)
Home(t) == IF t = App THEN "await" ELSE "idle"

ReadWaits == ReceiveDataLength > 0 /\ started

(* Mutation: the read stays announced while it is being served.             *)
TakeReadAnnounced(t) ==
    /\ At(t, "loop") /\ ReadWaits
    /\ Go(t, "process")
    /\ UNCHANGED <<body, transportVars, receiveVars, started, readVars, tcs, avail, ofs, draining>>

TakeRead(t) ==
    /\ At(t, "loop") /\ ReadWaits
    /\ started' = FALSE
    /\ Go(t, "process")
    /\ UNCHANGED <<body, transportVars, receiveVars, readVars, tcs, avail, ofs, draining>>

(* ProcessDataAndShouldReadMore.                                            *)
Process(t) ==
    /\ At(t, "process")
    /\ ProcessDataInternal(t, ReceiveDataLength)
    /\ UNCHANGED <<started>>

(* Mutation: a read that is not finished is not announced again.            *)
ProcessedForgotten(t) ==
    /\ At(t, "copied") /\ tcs # "none"
    /\ tcs' = IF asyncCount = 0 /\ tcs = "pending" THEN "result" ELSE tcs
    /\ Go(t, "relock")
    /\ UNCHANGED <<body, transportVars, receiveVars, started, readVars, avail, ofs, draining>>

Processed(t) ==
    /\ At(t, "copied") /\ tcs # "none"
    /\ IF asyncCount = 0 THEN tcs' = (IF tcs = "pending" THEN "result" ELSE tcs) /\ UNCHANGED started
       ELSE started' = TRUE /\ UNCHANGED tcs
    /\ Go(t, "relock")
    /\ UNCHANGED <<body, transportVars, receiveVars, readVars, avail, ofs, draining>>

Relock(t) ==
    /\ At(t, "relock") /\ LockFree
    /\ Go(t, "loop")
    /\ UNCHANGED <<body, transportVars, receiveVars, started, readVars, tcs, avail, ofs,
                   draining>>

(* Bytes are left that nobody waits for.                                    *)
LeaveUnread(t) ==
    /\ At(t, "loop") /\ ~ReadWaits /\ pos # full
    /\ Go(t, Home(t))
    /\ UNCHANGED <<body, transportVars, receiveVars, started, readVars, tcs, avail, ofs,
                   draining>>

(* The buffer is empty: it is reset by two stores, here the first.          *)
ResetPos(t) ==
    /\ At(t, "loop") /\ ~ReadWaits /\ pos = full
    /\ pos' = 0
    /\ Go(t, "fullness")
    /\ UNCHANGED <<body, transportVars, full, receiving, clientClosed, cancelled, started,
                   readVars, tcs, avail, ofs, draining>>

(* Mutation: only the position is reset.                                    *)
ResetFullnessMissing(t) ==
    /\ At(t, "fullness")
    /\ IF ~receiving /\ ~clientClosed THEN receiving' = TRUE /\ Go(t, "start")
       ELSE Go(t, Home(t)) /\ UNCHANGED receiving
    /\ UNCHANGED <<body, transportVars, pos, full, clientClosed, cancelled, started, readVars,
                   tcs, avail, ofs, draining>>

ResetFullness(t) ==
    /\ At(t, "fullness")
    /\ full' = 0
    /\ IF pos = 0 /\ ~receiving /\ ~clientClosed
       THEN receiving' = TRUE /\ Go(t, "start")
       ELSE Go(t, Home(t)) /\ UNCHANGED receiving
    /\ UNCHANGED <<body, transportVars, pos, clientClosed, cancelled, started, readVars, tcs,
                   avail, ofs, draining>>

RealStartNextReceive(t) ==
    /\ At(t, "start")
    /\ requested' = full
    /\ Go(t, Home(t))
    /\ UNCHANGED <<body, sent, gone, buffer, receiveVars, started, readVars, tcs, avail, ofs,
                   draining>>

----------------------------------------------------------------------------
(* FinishReceive                                                           *)

FinishReceive(r, n) ==
    /\ At(r, "idle") /\ requested # None /\ ~gone
    /\ n <= BufferSize - requested /\ sent + n <= Len(body.wire)
    /\ LockFree
    /\ buffer' = [i \in DOMAIN buffer |->
                    IF i \in requested..(requested + n - 1) THEN sent + 1 + i - requested
                    ELSE buffer[i]]
    /\ sent' = sent + n
    /\ requested' = None
    /\ receiving' = FALSE
    /\ full' = requested + n
    /\ Go(r, "loop")
    /\ UNCHANGED <<body, gone, pos, clientClosed, cancelled, started, readVars, tcs, avail,
                   ofs, draining>>

(* With length -1: the client has closed, and sends no more.                *)
FinishReceiveClosed(r) ==
    /\ At(r, "idle") /\ requested # None /\ LockFree
    /\ gone' = TRUE
    /\ requested' = None
    /\ receiving' = FALSE
    /\ Go(r, "closed")
    /\ UNCHANGED <<body, sent, buffer, pos, full, clientClosed, cancelled, started, readVars,
                   tcs, avail, ofs, draining>>

SetClientClosed(r) ==
    /\ At(r, "closed")
    /\ clientClosed' = TRUE
    /\ Go(r, "told")
    /\ UNCHANGED <<body, transportVars, pos, full, receiving, cancelled, started, readVars, tcs,
                   avail, ofs, draining>>

(* Cancel, and ConnectionClosed for a read that waits.                      *)
TellReader(r) ==
    /\ At(r, "told")
    /\ cancelled' = TRUE
    /\ started' = FALSE
    /\ tcs' = (IF started /\ tcs = "pending" THEN "canceled" ELSE tcs)
    /\ Go(r, "idle")
    /\ UNCHANGED <<body, transportVars, pos, full, receiving, clientClosed, readVars, avail, ofs,
                   draining>>

----------------------------------------------------------------------------
Serve(t) ==
    \/ Decode(t)
    \/ DecodeEnd(t)
    \/ TakeRead(t)
    \/ Process(t)
    \/ Processed(t)
    \/ Relock(t)
    \/ LeaveUnread(t)
    \/ ResetPos(t)
    \/ ResetFullness(t)
    \/ RealStartNextReceive(t)

Reader ==
    \/ DrainRead
    \/ ReadBuffered
    \/ ReadFromBuffer
    \/ ReadOverflowAsync
    \/ StartNextReceive
    \/ ReadCompleted
    \/ ReadFailed

Closing(r) == SetClientClosed(r) \/ TellReader(r)

Client ==
    \/ \E r \in Receivers, n \in 1..BufferSize : FinishReceive(r, n)
    \/ \E r \in Receivers : FinishReceiveClosed(r)

Next ==
    \/ \E count \in Counts : AppRead(count)
    \/ AppEnds
    \/ Reader
    \/ \E t \in Threads : Serve(t)
    \/ \E r \in Receivers : Closing(r)
    \/ Client

(* Threads run.  A client that is silent for ever keeps a read waiting for  *)
(* ever, so the client is asked to go on, or to close.                      *)
Fairness ==
    /\ WF_vars(Reader)
    /\ \A t \in Threads : WF_vars(Serve(t))
    /\ \A r \in Receivers : WF_vars(Closing(r))
    /\ WF_vars(Client)

Spec == Init /\ [][Next]_vars /\ Fairness

----------------------------------------------------------------------------
(* What holds                                                              *)

ReadInProgress == pc[App] \notin {"app", "done", "failed"}

(* The reads of the application, and of the drain after it, take each byte  *)
(* of the body once and in order, and get what they asked for or the rest   *)
(* of the body: whatever is read by the reader itself, and whatever by the  *)
(* receiver it left the read to (ReqRespStream 60-159).                     *)
Stream == INSTANCE BodyStream WITH
            content <- body.data,
            Counts <- Counts \cup {BufferSize},
            reading <- IF pc[App] = "failed" /\ tcs = "canceled" THEN "failed"
                       ELSE IF ReadInProgress THEN "yes" ELSE "no",
            want <- IF ReadInProgress THEN Min({asyncCount, Len(body.data) - Len(taken)}) ELSE 0

ImplementsStream == Stream!Spec

(* A receive is outstanding only over an empty buffer, at the offset where  *)
(* the next byte belongs: the assertions of FinishReceive (1039, 1040) for  *)
(* the time a request is being answered.                                    *)
ReceivesWhereExpected == requested # None => pos = requested /\ full = requested

(* Of the threads that may finish a read at most one is at it: the copies   *)
(* are made without the lock (1183, ReqRespStream 92-99).                   *)
OneServes ==
    Cardinality({t \in Threads : \/ pc[t] \in {"loaded", "decode", "copied", "process"}})
        + (IF started THEN 1 ELSE 0) <= 1

(* When the response is sent, the body has been taken off the connection to *)
(* its last byte, and no byte behind it: the next request begins there.     *)
NextRequestKept ==
    pc[App] = "done" => (IF Unread > 0 THEN buffer[pos] ELSE sent + 1) = body.end + 1

(* A read ends, unless the client closed and the read was left to a         *)
(* receiver after the one that reported this had looked for it (932, 1031). *)
ReadEnds == ReadInProgress ~> (~ReadInProgress \/ (cancelled /\ started))
============================================================================
