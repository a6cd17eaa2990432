----------------------------- MODULE WebSocket -----------------------------
(***************************************************************************)
(* A web socket: OwinHandler.cs 311-654 with the part of                   *)
(* Transport2HttpHandler.cs that receives and sends for it.                *)
(*                                                                         *)
(* The client's frames arrive in pieces.  They are parsed by the thread    *)
(* that received them, or by the application's thread in ReceiveAsync,     *)
(* without a lock between the two.  Other tasks of the application send,   *)
(* and one may close and wait for the client's close.                      *)
(***************************************************************************)
EXTENDS Integers, Sequences, SequencesExt

CONSTANTS
    Receivers,      \* threads of the transport
    Senders,        \* tasks of the application that send
    Plans,          \* what the client sends, and how often the application
    HeaderSize,     \* bytes of a frame's header
    BufferSize,     \* ReceiveBufferSize
    Segments,       \* sizes the application receives into
    Sizes,          \* sizes it sends
    SendLimit,      \* maxlen of WebSocketSendAsync
    MaxDepth        \* bound on the nesting of parsing: the stack

App == "app"        \* the thread that calls ReceiveAsync
Threads == Receivers \cup {App}
Free == "free"      \* of the send lock

Frame == [op : {"data", "close", "bad"}, last : BOOLEAN, len : Nat]
Plan == [frames : Seq(Frame), sends : Nat]

ASSUME WebSocketAssumption ==
    /\ App \notin Receivers /\ Free \notin Senders
    /\ Plans \subseteq Plan
    /\ HeaderSize \in Nat \ {0} /\ BufferSize \in Nat \ {0} /\ SendLimit \in Nat \ {0}
    /\ Segments \subseteq Nat \ {0} /\ Sizes \subseteq Nat
    /\ MaxDepth \in Nat

VARIABLES
    plan,           \* the client's frames, and the number of sends and closes
    taken,          \* bytes of them that were consumed, ConsumeReceiveData
    gone,           \* the client has closed the connection
    receiving,      \* _receiving: a receive is outstanding
    have,           \* ReceiveDataLength
    started,        \* _startedReceiveData
    clientClosed,   \* _clientClosedConnection
    phase,          \* "upgrading", "open" or "ended": CloseConnection was called
    state,          \* _webSocketReceiveState
    webReceiving,   \* _webSocketReceiving
    tcs,            \* _webSocketReceiveTcs: "none", "pending" or "cancelled"
    frame,          \* _webSocketFrame...: len is what is left of the frame
    segment,        \* what is left of _webSocketReceiveSegment
    filled,         \* what was copied into it
    at,             \* where each thread is
    depth,          \* how many calls of ProcessReceive it is in
    jobs,           \* the senders' calls
    sendLock,       \* the holder of _sendLock
    sending,        \* a send is outstanding
    used,           \* _webSocketSendBufferUsedSize
    nextIsStart,    \* _webSocketNextSendIsStartOfMessage
    closeTcs,       \* _webSocketTcsReceivedClose: "none", "pending" or "set"
    owner,          \* the task whose message has begun and has another part to come
    closeCalled,    \* the application has called CloseAsync
    sent,           \* frames sent
    sends,          \* number of calls of SendAsync and CloseAsync
    got,            \* what ReceiveAsync has returned
    strays          \* history: "overlap", two threads parsed at a time; "split", a
                    \* header or a close frame came in pieces; "missed",
                    \* data arrived that nobody parses; "gone", a receive
                    \* began on a closed connection; "restart", a message was
                    \* cut and its next part not marked as continuation

clientVars == <<plan, taken, gone>>
transportVars == <<receiving, have, started, clientClosed>>
frameVars == <<frame, segment, filled>>
threadVars == <<at, depth>>
sendVars == <<jobs, sendLock, sending, used, nextIsStart, owner, closeCalled, sent, sends>>
vars == <<clientVars, transportVars, phase, state, webReceiving, tcs, frameVars, threadVars,
          sendVars, closeTcs, got, strays>>

Idle == [pc |-> "idle", rest |-> 0, op |-> "start", end |-> TRUE, whole |-> TRUE, cut |-> FALSE]
NoFrame == [op |-> "data", last |-> TRUE, len |-> 0]

----------------------------------------------------------------------------
(* The client's bytes: of a header, or of the body of a frame.             *)

Item(k, what, n) == [frame |-> k, what |-> what, n |-> n]
Body(k) == [n \in 1..plan.frames[k].len |-> Item(k, "body", n)]
Bytes == FlattenSeq([k \in DOMAIN plan.frames |->
            [n \in 1..HeaderSize |-> Item(k, "header", n)] \o Body(k)])

Left == Len(Bytes) - taken - have       \* bytes that have not arrived

(* What ReceiveAsync shall return: the bytes of the data frames, the ends   *)
(* of messages, and the close.                                              *)
EndOf(k) == IF plan.frames[k].op = "close" THEN <<Item(k, "close", 0)>>
            ELSE IF plan.frames[k].last THEN <<Item(k, "end", 0)>> ELSE <<>>
Expected == FlattenSeq([k \in DOMAIN plan.frames |->
                (IF plan.frames[k].op = "data" THEN Body(k) ELSE <<>>) \o EndOf(k)])

TypeOK ==
    /\ plan \in Plans /\ taken \in 0..Len(Bytes) /\ have \in 0..BufferSize
    /\ {gone, receiving, started, clientClosed, webReceiving, sending, nextIsStart,
        closeCalled} \subseteq BOOLEAN
    /\ phase \in {"upgrading", "open", "ended"}
    /\ state \in {"Header", "Body", "Closing", "Close", "Error"}
    /\ tcs \in {"none", "pending", "cancelled"} /\ closeTcs \in {"none", "pending", "set"}
    /\ frame \in Frame /\ segment \in Nat /\ filled \in Seq(Range(Bytes))
    /\ at \in [Threads -> {"out", "receive", "check", "parse", "header", "last", "start", "flagged",
                           "enter", "finish", "closing", "fail", "tell"}]
    /\ depth \in [Threads -> 0..MaxDepth]
    /\ \A s \in Senders : jobs[s].pc \in {"idle", "wait", "frame", "sending", "closing",
                                          "closeSending", "closeSent", "closeWait"}
    /\ sendLock \in Senders \cup {Free}
    /\ used \in 0..SendLimit
    /\ sends \in 0..plan.sends
    /\ strays \subseteq {"overlap", "split", "missed", "gone", "restart"}

Init ==
    /\ plan \in Plans
    /\ have = 0 /\ taken = 0 /\ gone = FALSE
    /\ receiving = TRUE /\ started = FALSE /\ clientClosed = FALSE
    /\ phase = "upgrading" /\ state = "Header" /\ webReceiving = FALSE /\ tcs = "none"
    /\ frame = NoFrame /\ segment = 0 /\ filled = <<>>
    /\ at = [t \in Threads |-> "out"] /\ depth = [t \in Threads |-> 0]
    /\ jobs = [s \in Senders |-> Idle] /\ sendLock = Free
    /\ sending = TRUE           \* of the 101
    /\ used = 0 /\ nextIsStart = TRUE /\ owner = Free /\ closeTcs = "none" /\ closeCalled = FALSE
    /\ sent = <<>> /\ sends = 0 /\ got = <<>> /\ strays = {}

Goto(t, to) == at' = [at EXCEPT ![t] = to]

----------------------------------------------------------------------------
(* Upgrade and end                                                         *)

(* FinishSend of the 101, UpgradedToWebSocket: the application is called,   *)
(* or the connection closed.                                                *)
FinishUpgrade ==
    /\ phase = "upgrading" /\ sending
    /\ sending' = FALSE
    /\ \/ ~clientClosed /\ phase' = "open"
       \/ (gone \/ clientClosed) /\ phase' = "ended"
    /\ UNCHANGED <<clientVars, transportVars, state, webReceiving, tcs, frameVars, threadVars, jobs,
                   sendLock, used, nextIsStart, owner, closeCalled, sent, sends, closeTcs, got, strays>>

(* The application's function ends or throws: CloseConnection.              *)
AppEnds ==
    /\ phase = "open" /\ at[App] = "out"
    /\ \A s \in Senders : jobs[s].pc = "idle"
    /\ phase' = "ended"
    /\ UNCHANGED <<clientVars, transportVars, state, webReceiving, tcs, frameVars, threadVars,
                   sendVars, closeTcs, got, strays>>

ClientCloses ==
    /\ ~gone /\ gone' = TRUE
    /\ UNCHANGED <<plan, taken, transportVars, phase, state, webReceiving, tcs, frameVars,
                   threadVars, sendVars, closeTcs, got, strays>>

----------------------------------------------------------------------------
(* ReceiveAsync: the state is checked, then the call is registered.        *)

ReceiveAsync(n) ==
    /\ phase = "open" /\ at[App] = "out" /\ tcs # "pending"
    /\ state \notin {"Close", "Closing"}
    /\ segment' = n /\ filled' = <<>>
    /\ Goto(App, "receive")
    /\ UNCHANGED <<clientVars, transportVars, phase, state, webReceiving, tcs, frame, depth,
                   sendVars, closeTcs, got, strays>>

Register ==
    /\ at[App] = "receive"
    /\ tcs' = "pending"
    /\ Goto(App, "check")
    /\ UNCHANGED <<clientVars, transportVars, phase, state, webReceiving, frameVars, depth,
                   sendVars, closeTcs, got, strays>>

----------------------------------------------------------------------------
(* ParseWebSocketReceivedData, by any thread                               *)

(* Back to ReceiveAsync, or to the loop of ProcessReceive.                  *)
Return(t) ==
    IF depth[t] = 0 THEN Goto(t, "out") /\ UNCHANGED depth
    ELSE Goto(t, "enter") /\ depth' = [depth EXCEPT ![t] = @ - 1]

Parsing(t) == at[t] \in {"parse", "header"}

Check(t) ==
    /\ at[t] = "check"
    /\ IF have = 0 THEN Goto(t, "start") /\ UNCHANGED <<depth, strays>>
       ELSE IF tcs = "none" THEN Return(t) /\ UNCHANGED strays
       ELSE /\ Goto(t, "parse")
            /\ strays' = (strays \cup IF \E u \in Threads \ {t} : Parsing(u) THEN {"overlap"} ELSE {})
            /\ UNCHANGED depth
    /\ UNCHANGED <<clientVars, transportVars, phase, state, webReceiving, tcs, frameVars, sendVars,
                   closeTcs, got>>

(* ParseHeader on what is there: a frame, not enough, or an error.  Bytes   *)
(* that are not those of a header can be taken for anything.                *)
Aligned == have > 0 /\ Bytes[taken + 1].what = "header" /\ Bytes[taken + 1].n = 1

ParseHeader ==
    LET As(what) == [NoFrame EXCEPT !.op = what]
        f == plan.frames[Bytes[taken + 1].frame]
    IN  IF ~Aligned THEN {As("bad"), As("more")} \cup IF have < HeaderSize THEN {} ELSE {NoFrame}
        ELSE IF f.op # "bad" /\ have < HeaderSize THEN {As("more")} ELSE {f}

(* The call in progress is completed with what was copied.                  *)
Complete(items) ==
    IF tcs = "pending"
    THEN tcs' = "none" /\ got' = got \o items
    ELSE UNCHANGED <<tcs, got>>

Cancel == tcs' = IF tcs = "pending" THEN "cancelled" ELSE tcs

(* Mutation: more is copied than has arrived.                               *)
DataFrameUnchecked(t, f, p, data) ==
    LET n == Min({f.len, segment})
        all == filled \o SubSeq(Bytes, p + 1, p + n)
        end == IF f.last THEN <<Item(Bytes[p + n].frame, "end", 0)>> ELSE <<>>
    IN  /\ taken' = p + n /\ have' = data - n
        /\ segment' = segment - n /\ filled' = all
        /\ frame' = [f EXCEPT !.len = @ - n]
        /\ state' = "Body"
        /\ IF n = f.len THEN Goto(t, "header") /\ Complete(all \o end)
           ELSE Goto(t, "last") /\ IF n = segment THEN Complete(all) ELSE UNCHANGED <<tcs, got>>
        /\ UNCHANGED <<depth, strays>>

(* A data frame, from byte p on: as much as there is, as it has left, and   *)
(* as fits.                                                                 *)
DataFrame(t, f, p, data) ==
    LET n == Min({f.len, segment, data})
        all == filled \o SubSeq(Bytes, p + 1, p + n)
        end == IF f.last THEN <<Item(Bytes[p + n].frame, "end", 0)>> ELSE <<>>
    IN  /\ taken' = p + n /\ have' = data - n
        /\ segment' = segment - n /\ filled' = all
        /\ frame' = [f EXCEPT !.len = @ - n]
        /\ state' = "Body"
        /\ IF n = f.len THEN Goto(t, "header") /\ Complete(all \o end)
           ELSE Goto(t, "last") /\ IF n = segment THEN Complete(all) ELSE UNCHANGED <<tcs, got>>
        /\ UNCHANGED <<depth, strays>>

(* A close frame is parsed when all of it is there.                         *)
CloseFrame(t, f, p, data) ==
    /\ IF data < f.len
       THEN /\ taken' = p /\ have' = data
            /\ state' = "Body"
            /\ Goto(t, "start")
            /\ strays' = (strays \cup IF data > 0 THEN {"split"} ELSE {})
            /\ UNCHANGED <<tcs, got>>
       ELSE /\ taken' = p + f.len /\ have' = data - f.len
            /\ state' = "Closing"
            /\ Goto(t, "closing")
            /\ Complete(<<Item(Bytes[p].frame, "close", 0)>>)
            /\ UNCHANGED strays
    /\ frame' = f
    /\ UNCHANGED <<segment, filled, depth>>

ParseBody(t, f, p, data) ==
    IF f.op = "close" THEN CloseFrame(t, f, p, data) ELSE DataFrame(t, f, p, data)

ParseError(t) ==
    /\ state' = "Error"
    /\ tcs' = IF tcs = "pending" THEN "none" ELSE tcs       \* cancelled
    /\ Return(t)
    /\ UNCHANGED <<taken, have, frameVars, got, strays>>

(* Too little for a header: nothing is received, nothing is answered.       *)
ParseMore(t) ==
    /\ strays' = strays \cup {"split"}
    /\ Return(t)
    /\ UNCHANGED <<taken, have, state, tcs, frameVars, got>>

Parse(t) ==
    /\ at[t] = "parse"
    /\ CASE state = "Header" ->
                \E f \in ParseHeader :
                    CASE f.op = "bad" -> ParseError(t)
                      [] f.op = "more" -> ParseMore(t)
                      [] OTHER -> ParseBody(t, f, taken + HeaderSize, have - HeaderSize)
         [] state = "Body" -> ParseBody(t, frame, taken, have)
         [] state = "Error" -> ParseError(t)
         [] OTHER -> Return(t) /\ UNCHANGED <<taken, have, state, tcs, frameVars, got, strays>>
    /\ UNCHANGED <<plan, gone, receiving, started, clientClosed, phase, webReceiving, sendVars,
                   closeTcs>>

(* Mutation: the end of a frame does not lead back to a header.             *)
AfterFrameForgotten(t) ==
    /\ at[t] = "header"
    /\ Goto(t, "last")
    /\ UNCHANGED <<clientVars, transportVars, phase, state, webReceiving, tcs, frameVars, depth,
                   sendVars, closeTcs, got, strays>>

(* After the call was completed: the next header.                           *)
AfterFrame(t) ==
    /\ at[t] = "header"
    /\ state' = "Header"
    /\ Goto(t, "last")
    /\ UNCHANGED <<clientVars, transportVars, phase, webReceiving, tcs, frameVars, depth, sendVars,
                   closeTcs, got, strays>>

(* More is received when nothing is left; not for a call that waits, if     *)
(* other data has arrived since the last was taken.                         *)
AfterData(t) ==
    /\ at[t] = "last"
    /\ IF have = 0 THEN Goto(t, "start") /\ UNCHANGED <<depth, strays>>
       ELSE /\ Return(t)
            /\ strays' = (strays \cup IF tcs = "pending" THEN {"missed"} ELSE {})
    /\ UNCHANGED <<clientVars, transportVars, phase, state, webReceiving, tcs, frameVars, sendVars,
                   closeTcs, got>>

SetCloseTcs == closeTcs' = IF closeTcs = "pending" THEN "set" ELSE closeTcs

AfterClose(t) ==
    /\ at[t] = "closing"
    /\ SetCloseTcs
    /\ Return(t)
    /\ UNCHANGED <<clientVars, transportVars, phase, state, webReceiving, tcs, frameVars, sendVars,
                   got, strays>>

----------------------------------------------------------------------------
(* Receiving                                                               *)

(* StartReciveDataIfNotAlreadyReceiving.                                    *)
StartReceiveData(t) ==
    /\ at[t] = "start"
    /\ IF webReceiving
       THEN Return(t) /\ UNCHANGED <<webReceiving, started>>
       ELSE webReceiving' = TRUE /\ started' = TRUE /\ Goto(t, "flagged") /\ UNCHANGED depth
    /\ UNCHANGED <<clientVars, receiving, have, clientClosed, phase, state, tcs, frameVars,
                   sendVars, closeTcs, got, strays>>

(* StartNextReceive looks at the connection before it takes the lock.       *)
StartNextReceive(t) ==
    /\ at[t] = "flagged"
    /\ IF clientClosed
       THEN Return(t) /\ strays' = strays \cup {"gone"}
       ELSE Goto(t, "enter") /\ UNCHANGED <<depth, strays>>
    /\ UNCHANGED <<clientVars, transportVars, phase, state, webReceiving, tcs, frameVars, sendVars,
                   closeTcs, got>>

(* A turn of ProcessReceive under the lock, with the given data: what was   *)
(* asked for is parsed, outside the lock; or more is received.              *)
ProcessReceive(t, data, outstanding) ==
    IF data > 0 /\ started
    THEN /\ started' = FALSE
         /\ Goto(t, "finish")
         /\ receiving' = outstanding
         /\ UNCHANGED depth
    ELSE /\ receiving' = (outstanding \/ (data = 0 /\ ~clientClosed))
         /\ Return(t)
         /\ UNCHANGED started

Enter(t) ==
    /\ at[t] = "enter"
    /\ ProcessReceive(t, have, receiving)
    /\ UNCHANGED <<clientVars, have, clientClosed, phase, state, webReceiving, tcs, frameVars,
                   sendVars, closeTcs, got, strays>>

(* Mutation: _webSocketReceiving is kept.                                   *)
FinishReceiveDataKept(t) ==
    /\ at[t] = "finish" /\ depth[t] < MaxDepth
    /\ Goto(t, "check")
    /\ depth' = [depth EXCEPT ![t] = @ + 1]
    /\ UNCHANGED <<clientVars, transportVars, phase, state, webReceiving, tcs, frameVars, sendVars,
                   closeTcs, got, strays>>

(* FinishReceiveData: one call deeper.                                      *)
FinishReceiveData(t) ==
    /\ at[t] = "finish" /\ depth[t] < MaxDepth
    /\ webReceiving' = FALSE
    /\ Goto(t, "check")
    /\ depth' = [depth EXCEPT ![t] = @ + 1]
    /\ UNCHANGED <<clientVars, transportVars, phase, state, tcs, frameVars, sendVars, closeTcs,
                   got, strays>>

(* The transport delivers n bytes.                                          *)
FinishReceive(t, n) ==
    /\ at[t] = "out" /\ receiving /\ ~gone /\ phase # "ended"
    /\ n <= Left
    /\ have' = have + n
    /\ ProcessReceive(t, have', FALSE)
    /\ UNCHANGED <<clientVars, clientClosed, phase, state, webReceiving, tcs, frameVars, sendVars,
                   closeTcs, got, strays>>

(* The connection is closed: FinishReceive(-1), in three steps.             *)
FinishReceiveFailed(t) ==
    /\ at[t] = "out" /\ receiving
    /\ gone \/ phase = "ended"
    /\ receiving' = FALSE
    /\ Goto(t, "fail")
    /\ UNCHANGED <<clientVars, have, started, clientClosed, phase, state, webReceiving, tcs,
                   frameVars, depth, sendVars, closeTcs, got, strays>>

SetClientClosed(t) ==
    /\ at[t] = "fail"
    /\ clientClosed' = TRUE
    /\ Goto(t, "tell")
    /\ UNCHANGED <<clientVars, receiving, have, started, phase, state, webReceiving, tcs, frameVars,
                   depth, sendVars, closeTcs, got, strays>>

(* Mutation: _webSocketReceiving is reset for data only.                    *)
TellReaderKept(t) ==
    /\ at[t] = "tell"
    /\ Goto(t, "out")
    /\ started' = FALSE
    /\ IF started THEN state' = "Close" /\ Cancel /\ SetCloseTcs
       ELSE UNCHANGED <<state, tcs, closeTcs>>
    /\ UNCHANGED <<clientVars, receiving, have, clientClosed, phase, webReceiving, frameVars, depth,
                   sendVars, got, strays>>

TellReader(t) ==
    /\ at[t] = "tell"
    /\ Goto(t, "out")
    /\ IF started
       THEN /\ started' = FALSE /\ webReceiving' = FALSE
            /\ state' = "Close"
            /\ Cancel
            /\ SetCloseTcs
       ELSE UNCHANGED <<started, webReceiving, state, tcs, closeTcs>>
    /\ UNCHANGED <<clientVars, receiving, have, clientClosed, phase, frameVars, depth, sendVars,
                   got, strays>>

----------------------------------------------------------------------------
(* SendAsync and CloseAsync                                                *)

readVars == <<clientVars, transportVars, phase, state, webReceiving, tcs, frameVars, threadVars, got>>
Job(s, job) == jobs' = [jobs EXCEPT ![s] = job]
Step(s, to) == jobs' = [jobs EXCEPT ![s].pc = to]

(* Messages in parts are sent by one task while no other sends; after       *)
(* CloseAsync was called nothing is sent.  Whether the frame continues a    *)
(* message is decided before the lock is taken.                             *)
Whole(end) == end /\ owner = Free
Alone(s) == \A u \in Senders \ {s} : jobs[u].pc = "idle"

SendAsync(s, n, end) ==
    /\ phase = "open" /\ ~closeCalled /\ jobs[s].pc = "idle" /\ sends < plan.sends
    /\ owner \in {Free, s}
    /\ Alone(s) \/ (Whole(end) /\ \A u \in Senders : jobs[u].pc = "idle" \/ jobs[u].whole)
    /\ Job(s, [pc |-> "wait", rest |-> n, op |-> IF nextIsStart THEN "start" ELSE "continue",
               end |-> end, whole |-> Whole(end), cut |-> FALSE])
    /\ owner' = IF end THEN Free ELSE s
    /\ sends' = sends + 1
    /\ UNCHANGED <<readVars, sendLock, sending, used, nextIsStart, closeCalled, sent, closeTcs, strays>>

CloseAsync(s) ==
    /\ phase = "open" /\ ~closeCalled /\ jobs[s].pc = "idle" /\ Alone(s)
    /\ sends < plan.sends
    /\ sends' = sends + 1
    /\ closeCalled' = TRUE
    /\ IF state = "Close" THEN UNCHANGED jobs ELSE Step(s, "closing")
    /\ UNCHANGED <<readVars, sendLock, sending, used, nextIsStart, owner, sent, closeTcs, strays>>

(* Mutation: no lock.                                                       *)
AcquireAnyway(s) ==
    /\ jobs[s].pc \in {"wait", "closing"}
    /\ sendLock' = s
    /\ Step(s, IF jobs[s].pc = "wait" THEN "frame" ELSE "closeSending")
    /\ UNCHANGED <<readVars, sending, used, nextIsStart, owner, closeCalled, sent, sends, closeTcs,
                   strays>>

Acquire(s) ==
    /\ jobs[s].pc \in {"wait", "closing"} /\ sendLock = Free
    /\ sendLock' = s
    /\ Step(s, IF jobs[s].pc = "wait" THEN "frame" ELSE "closeSending")
    /\ UNCHANGED <<readVars, sending, used, nextIsStart, owner, closeCalled, sent, sends, closeTcs, strays>>

Release(s) == sendLock' = Free /\ Job(s, Idle)

Send(f) == sending' = TRUE /\ sent' = Append(sent, f)

(* A turn of SendAsync's loop: what fits is added to what was kept; the end *)
(* of a part is kept, anything else sent.                                   *)
SendFrame(s) ==
    LET job == jobs[s]
        last == used + job.rest <= SendLimit
        l == IF last THEN used + job.rest ELSE SendLimit
    IN  /\ job.pc = "frame"
        /\ CASE state = "Close" ->
                    Release(s) /\ UNCHANGED <<sending, sent, used, strays>>
             [] state # "Close" /\ last /\ ~job.end ->
                    /\ used' = l
                    /\ Release(s)
                    /\ strays' = (strays \cup IF job.cut THEN {"restart"} ELSE {})
                    /\ UNCHANGED <<sending, sent>>
             [] OTHER ->
                    /\ Send([op |-> job.op, fin |-> last /\ job.end])
                    /\ used' = 0
                    /\ Job(s, [job EXCEPT !.pc = "sending", !.rest = @ - (l - used), !.cut = TRUE,
                                          !.op = "continue"])
                    /\ UNCHANGED <<sendLock, strays>>
        /\ UNCHANGED <<readVars, nextIsStart, owner, closeCalled, sends, closeTcs>>

(* The send completes: SendAsync goes on while something is left, and notes *)
(* whether the next send starts a message; or it throws.                    *)
FinishSend(s) ==
    /\ jobs[s].pc = "sending" /\ sending
    /\ sending' = FALSE
    /\ \/ /\ ~clientClosed /\ Last(sent).fin
          /\ Release(s) /\ nextIsStart' = jobs[s].end
       \/ /\ ~clientClosed /\ ~Last(sent).fin
          /\ Step(s, "frame") /\ UNCHANGED <<sendLock, nextIsStart>>
       \/ /\ clientClosed \/ gone \/ phase = "ended"
          /\ Release(s) /\ UNCHANGED nextIsStart
    /\ UNCHANGED <<readVars, used, owner, closeCalled, sent, sends, closeTcs, strays>>

(* Mutation: a close that came while the frame was sent is not looked for.  *)
FinishSendCloseUnaware(s) ==
    /\ jobs[s].pc = "closeSent" /\ sending
    /\ sending' = FALSE
    /\ \/ ~clientClosed /\ Step(s, "closeWait") /\ UNCHANGED sendLock
       \/ (clientClosed \/ gone \/ phase = "ended") /\ Release(s)
    /\ UNCHANGED <<readVars, used, nextIsStart, owner, closeCalled, sent, sends, closeTcs, strays>>

(* CloseAsync sends its frame, looks whether the client's was received      *)
(* meanwhile, and waits for it with the lock held.                          *)
SendClose(s) ==
    /\ jobs[s].pc = "closeSending"
    /\ closeTcs' = "pending"
    /\ Send([op |-> "close", fin |-> TRUE])
    /\ Step(s, "closeSent")
    /\ UNCHANGED <<readVars, sendLock, used, nextIsStart, owner, closeCalled, sends, strays>>

FinishSendClose(s) ==
    /\ jobs[s].pc = "closeSent" /\ sending
    /\ sending' = FALSE
    /\ \/ /\ ~clientClosed
          /\ Step(s, "closeWait")
          /\ IF state \in {"Close", "Closing"} THEN SetCloseTcs ELSE UNCHANGED closeTcs
          /\ UNCHANGED sendLock
       \/ /\ clientClosed \/ gone \/ phase = "ended"
          /\ Release(s) /\ UNCHANGED closeTcs
    /\ UNCHANGED <<readVars, used, nextIsStart, owner, closeCalled, sent, sends, strays>>

EndClose(s) ==
    /\ jobs[s].pc = "closeWait" /\ closeTcs = "set"
    /\ Release(s)
    /\ UNCHANGED <<readVars, sending, used, nextIsStart, owner, closeCalled, sent, sends, closeTcs, strays>>

----------------------------------------------------------------------------
Run(t) ==
    \/ Check(t) \/ Parse(t) \/ AfterFrame(t) \/ AfterData(t) \/ AfterClose(t)
    \/ StartReceiveData(t) \/ StartNextReceive(t)
    \/ Enter(t) \/ FinishReceiveData(t)
    \/ SetClientClosed(t) \/ TellReader(t)

(* Threads of the transport are alike: any idle one stands for all.         *)
IdleReceivers == {t \in Receivers : at[t] = "out"}
AnIdle == {t \in IdleReceivers : t = CHOOSE u \in IdleReceivers : TRUE}

Transport ==
    \/ FinishUpgrade
    \/ \E t \in AnIdle : FinishReceiveFailed(t) \/ \E n \in 1..BufferSize : FinishReceive(t, n)

Work(s) ==
    \/ Acquire(s) \/ SendFrame(s) \/ FinishSend(s)
    \/ SendClose(s) \/ FinishSendClose(s) \/ EndClose(s)

Next ==
    \/ \E t \in Threads : Run(t)
    \/ Transport
    \/ \E s \in Senders :
          \/ Work(s)
          \/ CloseAsync(s)
          \/ \E n \in Sizes, end \in BOOLEAN : SendAsync(s, n, end)
    \/ Register
    \/ \E n \in Segments : ReceiveAsync(n)
    \/ AppEnds
    \/ ClientCloses

(* Threads run, the transport answers, a client sends all and goes.         *)
Fairness ==
    /\ \A t \in Threads : WF_vars(Run(t))
    /\ WF_vars(Transport) /\ WF_vars(Register) /\ WF_vars(ClientCloses)
    /\ \A s \in Senders : WF_vars(Work(s))

Spec == Init /\ [][Next]_vars /\ Fairness

----------------------------------------------------------------------------
(* What holds                                                              *)

(* ReceiveAsync returns the client's messages and its close, once and in    *)
(* order, however they were cut into receives and segments (OwinHandler     *)
(* 489-594); unless two threads parsed at a time.                           *)
Delivered == "overlap" \notin strays => IsPrefix(got, Expected)

(* A message is sent as one first frame, continuations and a last one,      *)
(* whoever sends meanwhile (368-421); unless a part was cut and its end     *)
(* kept, or the client is gone.  Nothing follows the close.                 *)
WellFormed ==
    /\ "restart" \notin strays /\ ~gone =>
         \A i \in DOMAIN sent :
            sent[i].op = "start" <=>
                sent[i].op # "close" /\ (i = 1 \/ sent[i - 1].fin)
    /\ \A i \in DOMAIN sent : sent[i].op = "close" => i = Len(sent)

(* When the connection is over nothing of it is left for the next one of    *)
(* the slot: no demand for data, no call that waits (FinishReceive          *)
(* 1025-1029, FinishReceiveData 355-366).                                   *)
Over == phase = "ended" /\ clientClosed /\ ~receiving /\ \A t \in Threads : at[t] = "out"
LeftClean == Over /\ strays = {} => ~started /\ ~webReceiving /\ tcs # "pending"

(* A call of ReceiveAsync ends (423-437); not when a header or a close      *)
(* frame came in pieces, or the connection was closed before.               *)
ReceiveEnds == tcs = "pending" /\ strays = {} ~> tcs # "pending" \/ strays # {}

(* CloseAsync ends when the client's close was received or its connection   *)
(* lost, whichever of the two closes came first (475-481, 548).             *)
CloseEnds ==
    \A s \in Senders :
        jobs[s].pc = "closeWait" /\ state \in {"Closing", "Close"} ~> jobs[s].pc # "closeWait"
=============================================================================
