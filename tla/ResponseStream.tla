--------------------------- MODULE ResponseStream ---------------------------
(***************************************************************************)
(* One response, from the application's writes to what the client gets:    *)
(* the writing half of ReqRespStream.cs with the send path of              *)
(* Transport2HttpHandler.cs.  Written bytes are collected in a buffer,     *)
(* which is sent in place: head and chunk framing are put around it.  The  *)
(* application awaits its writes and flushes; it may first have asked for  *)
(* the request body of a client that waits for 100-continue, which sends   *)
(* something that nobody awaits.                                           *)
(***************************************************************************)
EXTENDS Integers, Sequences, SequencesExt

CONSTANTS
    BufferSize,     \* _responseMaxLen
    Writes,         \* sizes of the application's writes
    MaxLength,      \* bound on the bytes it writes
    MaxContinues,   \* bound on the interim responses
    Kinds           \* requests and responses considered, see Kind

Unknown == -1       \* ulong.MaxValue as a content length

(* _isMethodHead; _isHttp10; the application's Content-Length; the length   *)
(* of the head; whether the headers "fit", are "long", or a callback of     *)
(* OnSendingHeaders "throws"; ShouldSend100Continue; and whether the        *)
(* application ends in a continuation.                                      *)
Kind == [head : BOOLEAN, http10 : BOOLEAN, declared : Nat \cup {Unknown}, headLen : Nat,
         headers : {"fit", "long", "throw"}, expect : BOOLEAN, async : BOOLEAN]

ASSUME ResponseAssumption ==
    /\ BufferSize \in Nat \ {0} /\ MaxLength \in Nat /\ MaxContinues \in Nat
    /\ Writes \subseteq Nat \ {0}
    /\ Kinds \subseteq Kind

VARIABLES
    kind,           \* the request, and the response the application makes
    buffer,         \* the response part of _buf
    localPos,       \* ResponseLocalPos
    position,       \* _responsePosition
    rest,           \* count of WriteOverflowAsync
    headersSent,    \* _responseHeadersSend
    chunked,        \* _responseIsChunked
    keepAlive,      \* _isKeepAlive
    lastPacket,     \* _lastPacket
    tcsSend,        \* _tcsSend: "none", "awaited" or "unawaited"
    next,           \* what is to be sent when it is completed, or NoNext
    sending,        \* a send is outstanding
    out,            \* what it sends
    wire,           \* what the client has got
    pc,             \* where the application is
    outcome,        \* "open", "reused" or "closed"
    strays          \* history: "early", a flush was reported done before it was
                    \* sent; "interim", 100 was sent behind the head

streamVars == <<buffer, localPos, position, rest>>
responseVars == <<headersSent, chunked>>
sendVars == <<tcsSend, next, sending, out, lastPacket>>
vars == <<kind, streamVars, responseVars, keepAlive, sendVars, wire, pc, outcome, strays>>

(* What goes over the wire: bytes of the body by number, or by their place  *)
(* in the buffer until they have left it, and framing.                      *)
Item == [is : {"byte", "cell", "continue", "head", "size", "crlf", "zero", "error"},
         n : Nat \cup {Unknown}]
Just(what) == [is |-> what, n |-> 0]
Counted(what, n) == [is |-> what, n |-> n]

Cells(n) == [i \in 1..n |-> Counted("cell", i)]
Bytes(from, n) == [i \in 1..n |-> Counted("byte", from + i)]

Only(what) == SelectSeq(wire, LAMBDA i : i.is = what)

NoNext == [what |-> "nothing", items |-> <<>>]

TypeOK ==
    /\ kind \in Kinds
    /\ buffer \in [1..BufferSize -> 0..MaxLength]
    /\ localPos \in 0..BufferSize
    /\ position \in 0..MaxLength /\ rest \in 0..MaxLength
    /\ {headersSent, chunked, keepAlive, lastPacket, sending} \subseteq BOOLEAN
    /\ tcsSend \in {"none", "awaited", "unawaited"}
    /\ next \in [what : {"nothing", "flush", "last", "error"}, items : Seq(Item)]
    /\ out \in Seq(Item) /\ wire \in Seq(Item \ {i \in Item : i.is = "cell"})
    /\ pc \in {"app", "flush", "overflow", "overflowFlush", "overflowFlushed", "wait",
               "waitOverflow", "throwing", "finished", "lost"}
    /\ outcome \in {"open", "reused", "closed"}
    /\ strays \subseteq {"early", "interim"}

Init ==
    /\ kind \in Kinds
    /\ buffer = [i \in 1..BufferSize |-> 0]
    /\ localPos = 0 /\ position = 0 /\ rest = 0
    /\ headersSent = FALSE /\ chunked = FALSE /\ keepAlive = ~kind.http10
    /\ lastPacket = FALSE /\ tcsSend = "none" /\ next = NoNext
    /\ sending = FALSE /\ out = <<>> /\ wire = <<>>
    /\ pc = "app" /\ outcome = "open" /\ strays = {}

----------------------------------------------------------------------------
(* Framing                                                                 *)

(* WrapInChunk, AppendZeroChunk.                                            *)
WrapInChunk(items) == <<Counted("size", Len(items))>> \o items \o <<Just("crlf")>>
AppendZeroChunk(items) == Append(items, Just("zero"))

(* What the items are when they leave.                                      *)
Resolve(items) ==
    [i \in DOMAIN items |->
        IF items[i].is = "cell" THEN Counted("byte", buffer[items[i].n]) ELSE items[i]]

(* OptimallyMergeTwoRegions: a shorter head is copied in front of the body, *)
(* a shorter body behind the head, so that it has left the buffer.          *)
OptimallyMerge(items, length) ==
    LET head == <<Counted("head", length)>>
    IN  IF kind.headLen < Len(items) THEN head \o items ELSE head \o Resolve(items)

(* FillResponse without the content's end: no length makes the response     *)
(* chunked, or ends it with the connection.                                 *)
BecomesChunked == kind.declared = Unknown /\ ~kind.http10
StaysAlive == keepAlive /\ ~(kind.declared = Unknown /\ kind.http10)

----------------------------------------------------------------------------
(* Sends                                                                   *)

StartSend(items) == sending' = TRUE /\ out' = items

Close == outcome' = "closed"

(* The two branches at the end of WriteAsync: the task of a chained flush   *)
(* ends with its continuation.                                              *)
SendOrChain(items) ==
    IF tcsSend # "none"
    THEN next' = [what |-> "flush", items |-> items] /\ UNCHANGED <<tcsSend, sending, out>>
    ELSE tcsSend' = "awaited" /\ StartSend(items) /\ UNCHANGED next

TooLong == ~kind.head /\ kind.declared # Unknown /\ position' > kind.declared

(* The body of WriteAsync for the items of a flush; the application goes on *)
(* at "to" when it is done, after waiting for it if there is something.     *)

(* Mutation: the application does not wait for its flush.                   *)
WaitingNot(to) == to

Waiting(to) == IF to = "app" THEN "wait" ELSE "waitOverflow"

WriteHead(items, to) ==
    /\ ~headersSent
    /\ IF kind.headers # "fit"
       THEN /\ pc' = "throwing"
            /\ UNCHANGED <<responseVars, keepAlive, tcsSend, next, sending, out, outcome>>
       ELSE LET body == IF kind.head THEN <<>> ELSE items
                framed == IF BecomesChunked /\ body # <<>> THEN WrapInChunk(body) ELSE body
            IN  /\ headersSent' = TRUE /\ chunked' = BecomesChunked /\ keepAlive' = StaysAlive
                /\ IF TooLong
                   THEN pc' = "throwing" /\ Close /\ UNCHANGED <<tcsSend, next, sending, out>>
                   ELSE /\ SendOrChain(OptimallyMerge(framed, kind.declared))
                        /\ pc' = Waiting(to) /\ UNCHANGED outcome

WriteBody(items, to) ==
    /\ headersSent
    /\ IF kind.head \/ (chunked /\ items = <<>>)
       THEN pc' = to /\ UNCHANGED <<tcsSend, next, sending, out, outcome>>
       ELSE IF TooLong
       THEN pc' = "throwing" /\ Close /\ UNCHANGED <<tcsSend, next, sending, out>>
       ELSE /\ SendOrChain(IF chunked THEN WrapInChunk(items) ELSE items)
            /\ pc' = Waiting(to) /\ UNCHANGED outcome
    /\ UNCHANGED <<responseVars, keepAlive>>

WriteAsync(items, to) ==
    /\ WriteHead(items, to) \/ WriteBody(items, to)
    /\ UNCHANGED <<kind, buffer, lastPacket, wire, strays>>

(* FlushAsyncCore.                                                          *)
FlushAsyncCore(to) ==
    /\ localPos' = 0
    /\ UNCHANGED <<position, rest>>
    /\ WriteAsync(Cells(localPos), to)

----------------------------------------------------------------------------
(* The application                                                         *)

Fill(n) ==
    /\ buffer' = [i \in DOMAIN buffer |->
                    IF i \in (localPos + 1)..(localPos + n) THEN position + i - localPos
                    ELSE buffer[i]]
    /\ localPos' = localPos + n
    /\ position' = position + n

(* Mutation: what is already in the buffer does not count.                  *)
WriteUnchecked(n) ==
    /\ pc = "app"
    /\ position + n <= MaxLength
    /\ IF n <= BufferSize THEN Fill(n) /\ UNCHANGED <<rest, pc>>
       ELSE rest' = n /\ pc' = "overflow" /\ UNCHANGED <<buffer, localPos, position>>
    /\ UNCHANGED <<kind, responseVars, keepAlive, sendVars, wire, outcome, strays>>

(* Write and WriteAsync: what fits is only copied.                          *)
Write(n) ==
    /\ pc = "app"
    /\ position + n <= MaxLength
    /\ IF n <= BufferSize - localPos THEN Fill(n) /\ UNCHANGED <<rest, pc>>
       ELSE rest' = n /\ pc' = "overflow" /\ UNCHANGED <<buffer, localPos, position>>
    /\ UNCHANGED <<kind, responseVars, keepAlive, sendVars, wire, outcome, strays>>

Flush == pc = "app" /\ FlushAsyncCore("app")

(* WriteOverflowAsync: fill up, flush, and write what is at least a buffer  *)
(* directly.                                                                *)
OverflowFill ==
    /\ \/ pc = "overflow" /\ localPos < BufferSize
       \/ pc = "overflowFlushed" /\ ~(rest >= BufferSize /\ headersSent /\ ~chunked)
    /\ LET n == IF rest < BufferSize - localPos THEN rest ELSE BufferSize - localPos
       IN  /\ Fill(n)
           /\ rest' = rest - n
           /\ pc' = IF rest = n THEN "app" ELSE "overflow"
    /\ UNCHANGED <<kind, responseVars, keepAlive, sendVars, wire, outcome, strays>>

OverflowFlush == pc = "overflow" /\ localPos = BufferSize /\ FlushAsyncCore("overflowFlushed")

DirectWrite ==
    /\ pc = "overflowFlushed" /\ rest >= BufferSize /\ headersSent /\ ~chunked
    /\ position' = position + rest
    /\ rest' = 0
    /\ UNCHANGED localPos
    /\ WriteAsync(Bytes(position, rest), "app")

(* A read of the request body sends it, again as long as no byte of the     *)
(* body was read.  It does not look at _tcsSend: the transport refuses a    *)
(* second send, and the read throws.                                        *)
Send100Continue ==
    /\ pc = "app" /\ kind.expect
    /\ Len(Only("continue")) < MaxContinues
    /\ tcsSend' = "unawaited"
    /\ IF sending THEN pc' = "throwing" /\ UNCHANGED <<sending, out>>
       ELSE StartSend(<<Just("continue")>>) /\ UNCHANGED pc
    /\ strays' = (strays \cup IF headersSent THEN {"interim"} ELSE {})
    /\ UNCHANGED <<kind, streamVars, responseVars, keepAlive, next, lastPacket, wire, outcome>>

AppThrows ==
    /\ pc = "app"
    /\ pc' = "throwing"
    /\ UNCHANGED <<kind, streamVars, responseVars, keepAlive, sendVars, wire, outcome, strays>>

----------------------------------------------------------------------------
(* The end of the application: ResponseFinished                            *)

(* Mutation: the last send is not marked.                                   *)
SendLastUnmarked(what, items) ==
    IF tcsSend # "none"
    THEN next' = [what |-> what, items |-> items] /\ UNCHANGED <<tcsSend, sending, out, lastPacket>>
    ELSE StartSend(items) /\ UNCHANGED <<tcsSend, next, lastPacket>>

SendLast(what, items) ==
    IF tcsSend # "none"
    THEN next' = [what |-> what, items |-> items] /\ UNCHANGED <<tcsSend, sending, out, lastPacket>>
    ELSE StartSend(items) /\ lastPacket' = TRUE /\ UNCHANGED <<tcsSend, next>>

SendInternalServerError ==
    /\ SendLast("error", <<Just("error")>>)
    /\ keepAlive' = (keepAlive /\ tcsSend # "none")

(* The status is 5000 before the head was sent, 599 after.                  *)
FaultedResponseFinished ==
    /\ pc = "throwing"
    /\ pc' = "finished"
    /\ IF headersSent
       THEN /\ Close /\ keepAlive' = FALSE /\ UNCHANGED sendVars
       ELSE SendInternalServerError /\ UNCHANGED outcome
    /\ UNCHANGED <<kind, streamVars, responseVars, wire, strays>>

(* SendHttpResponseAndPrepareForNext before the head was sent: the head has *)
(* the length of what was written; a different Content-Length is an error.  *)
SendWhole ==
    LET body == IF kind.head THEN <<>> ELSE Cells(localPos)
        length == IF kind.head THEN kind.declared ELSE position
        wrong == ~kind.head /\ kind.declared \notin {Unknown, position}
    IN  /\ SendLast("last", OptimallyMerge(body, length))
        /\ headersSent' = TRUE
        /\ chunked' = (kind.head /\ BecomesChunked)
        /\ keepAlive' = (keepAlive /\ ~wrong /\ (kind.head => StaysAlive))

FinishWhole ==
    /\ pc = "app" /\ ~headersSent
    /\ CASE kind.headers = "fit" -> SendWhole /\ pc' = "finished"
         [] kind.headers = "long" ->
                SendInternalServerError /\ pc' = "finished" /\ UNCHANGED responseVars
         [] kind.headers = "throw" ->
                /\ pc' = IF kind.async THEN "lost" ELSE "throwing"
                /\ UNCHANGED <<responseVars, keepAlive, sendVars>>
    /\ UNCHANGED <<kind, streamVars, wire, outcome, strays>>

(* Mutation: Content-Length is not compared with what was written.          *)
FinishStartedUnchecked ==
    /\ pc = "app" /\ headersSent
    /\ pc' = "finished"
    /\ LET body == IF kind.head THEN <<>> ELSE Cells(localPos)
           wrapped == IF body = <<>> THEN <<>> ELSE WrapInChunk(body)
       IN  SendLast("last", IF chunked THEN AppendZeroChunk(wrapped) ELSE body)
    /\ UNCHANGED <<kind, streamVars, responseVars, keepAlive, wire, outcome, strays>>

(* And after it.                                                            *)
FinishStarted ==
    /\ pc = "app" /\ headersSent
    /\ pc' = "finished"
    /\ LET body == IF kind.head THEN <<>> ELSE Cells(localPos)
           wrapped == IF body = <<>> THEN <<>> ELSE WrapInChunk(body)
       IN  IF kind.declared \notin {Unknown, position}
           THEN Close /\ UNCHANGED sendVars
           ELSE /\ SendLast("last", IF chunked THEN AppendZeroChunk(wrapped) ELSE body)
                /\ UNCHANGED outcome
    /\ UNCHANGED <<kind, streamVars, responseVars, keepAlive, wire, strays>>

----------------------------------------------------------------------------
(* FinishSend, and the continuations that wait for it                      *)

(* What awaits the send goes on, or throws.                                 *)
Resume(to) ==
    CASE tcsSend = "awaited" /\ pc = "wait" -> pc' = to["wait"]
      [] tcsSend = "awaited" /\ pc = "waitOverflow" -> pc' = to["waitOverflow"]
      [] OTHER -> UNCHANGED pc

Resumed == [wait |-> "app", waitOverflow |-> "overflowFlushed"]
Failed == [wait |-> "throwing", waitOverflow |-> "throwing"]

FinishLast(alive) ==
    IF lastPacket
    THEN lastPacket' = FALSE /\ outcome' = IF alive /\ outcome = "open" THEN "reused" ELSE "closed"
    ELSE UNCHANGED <<lastPacket, outcome>>

FinishSend ==
    /\ sending
    /\ sending' = FALSE /\ out' = <<>>
    /\ wire' = wire \o Resolve(out)
    /\ tcsSend' = "none"
    /\ Resume(Resumed)
    /\ FinishLast(keepAlive)
    /\ UNCHANGED <<kind, streamVars, responseVars, keepAlive, next, strays>>

(* The client is gone; some of what was sent may have reached it.           *)
FinishSendFailed ==
    /\ sending
    /\ sending' = FALSE /\ out' = <<>>
    /\ tcsSend' = "none"
    /\ keepAlive' = FALSE
    /\ Resume(Failed)
    /\ FinishLast(FALSE)
    /\ UNCHANGED <<kind, streamVars, responseVars, next, wire, strays>>

(* The continuation of a flush that found an earlier send: its task is done *)
(* when it has started the send.                                            *)
ContinueFlush ==
    /\ next.what = "flush" /\ tcsSend = "none"
    /\ tcsSend' = "unawaited"
    /\ StartSend(next.items)
    /\ next' = NoNext
    /\ strays' = strays \cup {"early"}
    /\ pc' = IF pc = "wait" THEN Resumed["wait"] ELSE Resumed["waitOverflow"]
    /\ UNCHANGED <<kind, streamVars, responseVars, keepAlive, lastPacket, wire, outcome>>

ContinueLast ==
    /\ next.what \in {"last", "error"} /\ tcsSend = "none"
    /\ StartSend(next.items)
    /\ lastPacket' = TRUE
    /\ keepAlive' = (keepAlive /\ next.what = "last")
    /\ next' = NoNext
    /\ UNCHANGED <<kind, streamVars, responseVars, tcsSend, wire, pc, outcome, strays>>

----------------------------------------------------------------------------
Application ==
    \/ OverflowFill
    \/ OverflowFlush
    \/ DirectWrite
    \/ FaultedResponseFinished

Sends == FinishSend \/ FinishSendFailed

Next ==
    \/ \E n \in Writes : Write(n)
    \/ Flush
    \/ Send100Continue
    \/ AppThrows
    \/ FinishWhole
    \/ FinishStarted
    \/ Application
    \/ Sends
    \/ ContinueFlush
    \/ ContinueLast

(* Threads run, and the transport answers every send.                       *)
Fairness ==
    /\ WF_vars(Application) /\ WF_vars(Sends)
    /\ WF_vars(ContinueFlush) /\ WF_vars(ContinueLast)

Spec == Init /\ [][Next]_vars /\ Fairness

----------------------------------------------------------------------------
(* What holds                                                              *)

(* The body's bytes are numbered 1, 2, ... without a gap.                   *)
IsByte(item, n) == item.is = "byte" /\ item.n = n
InOrder(items) ==
    \A j \in DOMAIN items : items[j].is = "byte" =>
        /\ items[j].n = 1 \/ \E i \in 1..(j - 1) : IsByte(items[i], items[j].n - 1)
        /\ \A i \in 1..(j - 1) : items[i].is = "byte" => items[i].n < items[j].n

(* A chunk is as many bytes as its size says, as far as there is something. *)
InChunk(items, i, j) == items[i].is = "size" /\ i < j /\ j <= i + items[i].n
ChunksAsSized(items) ==
    \A i, j \in DOMAIN items :
        /\ InChunk(items, i, j) => items[j].is = "byte"
        /\ items[i].is = "size" /\ j = i + items[i].n + 1 => items[j].is = "crlf"

(* Interim responses, one head or error, a body that is chunked when the    *)
(* head says so, and nothing behind the end.                                *)
Chunked(item) == item.n = Unknown /\ ~kind.http10
OneResponse(items) ==
    \A i, j \in DOMAIN items :
        /\ {items[i].is, items[j].is} \subseteq {"head", "error"} => i = j
        /\ items[i].is = "head" /\ j < i => items[j].is = "continue"
        /\ items[i].is = "head" /\ i < j =>
              IF Chunked(items[i])
              THEN /\ items[j].is \in {"byte", "size", "crlf", "zero"}
                   /\ items[j].is = "byte" => \E k \in DOMAIN items : InChunk(items, k, j)
              ELSE items[j].is = "byte"
        /\ items[i].is \in {"zero", "error"} => j <= i

(* The client gets interim responses, one head, the body's bytes in the     *)
(* order they were written, in chunks as long as they say, and nothing      *)
(* behind the end: the buffer is not written while it is being sent         *)
(* (ReqRespStream 231-252, T2H 830-885).  Unless a flush that found an      *)
(* earlier send was reported done too early (870), or the body was asked    *)
(* for behind the head (926).                                               *)
Intact == strays = {} => InOrder(wire) /\ ChunksAsSized(wire) /\ OneResponse(wire)

(* A connection is used for another request only after a response that its  *)
(* own framing delimits: as long as Content-Length says, or chunked to the  *)
(* end, and all that was written.  The answer to HEAD has no body.          *)
BodyLength == IF kind.head THEN 0 ELSE position
HasBody(items, n) ==
    /\ \A i \in DOMAIN items : items[i].is = "byte" => items[i].n <= n
    /\ n > 0 => \E i \in DOMAIN items : IsByte(items[i], n)

Delimited(items, head) ==
    \/ head.n # Unknown /\ (kind.head \/ head.n = BodyLength)
    \/ Chunked(head) /\ (kind.head \/ items[Len(items)].is = "zero")

Complete(items) ==
    /\ \E i \in DOMAIN items : items[i].is = "head" /\ Delimited(items, items[i])
    /\ HasBody(items, BodyLength)

ReusedComplete == outcome = "reused" /\ strays = {} => Complete(wire)

(* The answer to HEAD is its head.                                          *)
HeadHasNoBody == kind.head /\ outcome = "reused" => Last(wire).is = "head"

(* When the application has ended, the response is completed or the         *)
(* connection closed; except when a callback of OnSendingHeaders throws in  *)
(* the continuation of the application (OwinHandler 211-222).               *)
Answered == pc \in {"finished", "throwing"} ~> outcome # "open"
=============================================================================
