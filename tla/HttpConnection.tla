--------------------------- MODULE HttpConnection ---------------------------
(***************************************************************************)
(* One connection slot above the transport: Transport2HttpHandler.cs with  *)
(* the request life cycle of OwinHandler.cs.  The transport is             *)
(* TransportSlot; its calls up, the handler's own continuations and the    *)
(* application run on thread pool threads.  A thread is the sequence of    *)
(* points it still has to pass; one step takes it to the next access that  *)
(* another thread can be ordered against.  What the code does while it     *)
(* holds _receiveProcessingLock is one step.  Requests have no body, do    *)
(* not upgrade to web sockets, and the application awaits its flushes.     *)
(***************************************************************************)
EXTENDS Naturals, Sequences, FiniteSets

CONSTANTS
    Threads,        \* thread pool threads
    AppOps,         \* what the application does besides returning
    MaxAccepts,     \* bound on the clients that connect
    MaxRequests,    \* bound on the requests they send
    MaxStrays       \* bound on the kinds of stray effects in one behaviour

ASSUME ConstantsAssumption ==
    /\ IsFiniteSet(Threads)
    /\ AppOps \subseteq {"flush", "disconnect", "fault"}
    /\ MaxAccepts \in Nat /\ MaxRequests \in Nat /\ MaxStrays \in Nat

VARIABLES
    phase, slotReceiving, slotSending, closing,   \* see TransportSlot
    gone,           \* the transport has reported the client's close
    receiving,      \* _receiving
    after,          \* _afterReceiveContinueWithAccept
    heads,          \* complete request heads in the receive buffer
    partial,        \* the beginning of a head behind them
    clientClosed,   \* _clientClosedConnection
    disconnecting,  \* _disconnecting
    acceptCounter,  \* _acceptCounter
    waiting,        \* _waitingForRequest
    keepAlive,      \* _isKeepAlive
    headersSent,    \* _responseHeadersSend
    lastPacket,     \* _lastPacket
    tcsSend,        \* _tcsSend, as the set of the thread that awaits it
    cancelled,      \* _cancellation.IsCancellationRequested
    request,        \* requests parsed so far
    lastFinished,   \* OwinHandler._lastRequestFinished
    disconnected,   \* OwinHandler._disconnected
    thr,            \* the threads
    strays          \* history: effects that hit what they were not meant for

slotVars == <<phase, slotReceiving, slotSending, closing>>
receiveVars == <<receiving, after, heads, partial>>
connectionVars == <<gone, clientClosed, disconnecting, acceptCounter>>
responseVars == <<keepAlive, headersSent, lastPacket, tcsSend>>
requestVars == <<waiting, cancelled, request>>
owinVars == <<lastFinished, disconnected>>
vars == <<slotVars, receiveVars, connectionVars, responseVars, requestVars,
          owinVars, thr, strays>>

Slot == INSTANCE TransportSlot WITH
            receiving <- slotReceiving, sending <- slotSending

(* "full" leaves no room in the receive buffer.                             *)
Partial == {"none", "some", "full"}

(* The effects that hit what they were not meant for.  "early": a last      *)
(* packet taken for sent when an earlier one was; "report": the end of an   *)
(* application reported for a later request; "late": a thread of an earlier *)
(* client acting on a later one; "leak": a closed client whose connection   *)
(* nobody is going to close; "unstarted": a receive announced and never     *)
(* started; "unanswered": an accept before the last client's send was       *)
(* answered; "twice": a second answer to the head that fills the buffer;    *)
(* "unlawful": a call down that TransportSlot forbids.                      *)
Stray == {"early", "report", "late", "leak", "unstarted", "unanswered",
          "twice", "unlawful"}

Point == {"accepted", "received", "awaitApp", "realPrepareAccept", "check",
          "checkStart", "startReceive", "reenter", "closed", "told", "sent",
          "flushed", "reset", "next", "app", "await", "caught", "report",
          "send", "sendError", "close"}

TypeOK ==
    /\ Slot!TypeOK
    /\ {gone, receiving, after, clientClosed, disconnecting, waiting, keepAlive,
        headersSent, lastPacket, cancelled, disconnected} \subseteq BOOLEAN
    /\ partial \in Partial
    /\ heads \in 0..MaxRequests
    /\ acceptCounter \in 0..(MaxAccepts + 1)
    /\ request \in 0..MaxRequests
    /\ tcsSend \subseteq Threads
    /\ lastFinished \in {"null", "pending", "done"}
    /\ thr \in [Threads -> [todo : Seq(Point), accept : 0..(MaxAccepts + 1),
                            request : 0..MaxRequests]]
    /\ strays \subseteq Stray

Idle == [todo |-> <<>>, accept |-> 0, request |-> 0]

Init ==
    /\ Slot!Init
    /\ gone = FALSE /\ receiving = FALSE /\ after = FALSE /\ heads = 0 /\ partial = "none"
    /\ clientClosed = FALSE /\ disconnecting = FALSE /\ acceptCounter = 0
    /\ waiting = FALSE /\ keepAlive = FALSE /\ headersSent = FALSE
    /\ lastPacket = FALSE /\ tcsSend = {}
    /\ cancelled = FALSE /\ request = 0
    /\ lastFinished = "null" /\ disconnected = FALSE
    /\ thr = [t \in Threads |-> Idle]
    /\ strays = {}

----------------------------------------------------------------------------
(* Threads                                                                 *)

(* Behaviours are followed until they show more than MaxStrays kinds of     *)
(* stray effects.                                                           *)
Followed == Cardinality(strays) <= MaxStrays

At(t, point) == thr[t].todo # <<>> /\ Head(thr[t].todo) = point
Runs(t, point) == Followed /\ At(t, point)
Rest(t) == Tail(thr[t].todo)

Free(t) == Followed /\ thr[t].todo = <<>>

Passes(todo, points) == \E i \in 1..Len(todo) : todo[i] \in points

(* The points whose step touches the state of the client it is bound to.    *)
Bound == {"app", "reenter", "caught", "closed", "told", "sent", "flushed",
          "reset", "next", "close"}

(* A thread remembers the client and the request it runs for as long as it  *)
(* is going to compare them.                                                *)
Thread(todo, accept, req) ==
    [todo |-> todo,
     accept |-> IF Passes(todo, Bound) THEN accept ELSE 0,
     request |-> IF Passes(todo, {"app", "report"}) THEN req ELSE 0]

Goes(t, todo) ==
    thr' = [thr EXCEPT ![t] = Thread(todo, @.accept, @.request)]

(* Records that a step of t changed the state of a later client.            *)
Late(t, changed) ==
    IF changed /\ thr[t].accept # acceptCounter THEN {"late"} ELSE {}

(* A free thread takes the next call up, for the client of the last accept. *)
Begins(t, todo) ==
    thr' = [thr EXCEPT ![t] = Thread(todo, acceptCounter, request)]

(* A call down that TransportSlot forbids throws; nothing follows it here.  *)
CallDown(t, may, call, todo, stray) ==
    IF may THEN call /\ Goes(t, todo) /\ strays' = strays \union stray
           ELSE /\ Goes(t, <<>>)
                /\ strays' = strays \union stray \union {"unlawful"}
                /\ UNCHANGED slotVars

(* The send of SendInternalServerError, which closes when it is refused.    *)
SendsError(t, rest) ==
    IF Slot!MaySend THEN Slot!StartSend /\ Goes(t, rest)
    ELSE Goes(t, <<"close">> \o rest) /\ UNCHANGED slotVars

----------------------------------------------------------------------------
(* The response                                                            *)

(* ResponseFinished after a success: the packet with the headers, which may *)
(* decide against keep-alive or be too long for the buffer; after a flush   *)
(* the rest of the body, or a close when its length is not the announced.   *)
RespondNormally(point) ==
    /\ \/ point = "send" /\ lastPacket' = TRUE /\ ~headersSent
          /\ keepAlive' \in {keepAlive, FALSE} /\ headersSent' = TRUE
       \/ point = "sendError" /\ lastPacket' = TRUE /\ ~headersSent
          /\ keepAlive' = FALSE /\ UNCHANGED headersSent
       \/ point = "send" /\ lastPacket' = TRUE /\ headersSent
          /\ UNCHANGED <<keepAlive, headersSent>>
       \/ point = "close" /\ headersSent
          /\ UNCHANGED <<keepAlive, headersSent, lastPacket>>
    /\ UNCHANGED cancelled

(* ResponseFinished after an uncaught exception (failed), or for a client   *)
(* that has gone: an error page, or nothing but the close after a flush.    *)
RespondFailure(point, failed) ==
    /\ cancelled' = TRUE
    /\ point = IF headersSent THEN "close" ELSE "sendError"
    /\ lastPacket' = (lastPacket \/ ~headersSent)
    /\ keepAlive' = (keepAlive /\ headersSent /\ ~failed)
    /\ UNCHANGED headersSent

(* ResponseFinished; point is what its thread does next.                    *)
ResponseFinished(point, failed) ==
    /\ IF failed \/ cancelled THEN RespondFailure(point, failed)
                              ELSE RespondNormally(point)
    /\ UNCHANGED tcsSend

----------------------------------------------------------------------------
(* ProcessReceive, with the lock held, on a buffer of h heads and the       *)
(* beginning p of another.  rest is what its caller does afterwards:        *)
(* FinishReceive looks at _afterReceiveContinueWithAccept first.  late is   *)
(* what Late says of the thread.                                            *)

Return(rest, start) ==
    IF ~start THEN rest
    ELSE IF rest = <<>> THEN <<"startReceive">> ELSE <<"checkStart">>

(* ParseRequest calls PrepareForRequest and takes a new cancellation, then  *)
(* reads the head.  When the buffer is empty the next receive is started,   *)
(* after the lock was released and before HandleRequest calls the           *)
(* application.  keepAlive stands for the default: RespondNormally covers   *)
(* the head's Connection as well as the response's.                         *)
Parse(t, rest, h, p, r) ==
    LET empty == h = 1 /\ p = "none" /\ ~r IN
    /\ cancelled' = FALSE
    /\ keepAlive' = TRUE
    /\ receiving' = (r \/ empty)
    /\ thr' = [thr EXCEPT ![t] =
                 Thread((IF empty THEN <<"startReceive">> ELSE <<>>)
                          \o <<"app", "reenter">> \o rest,
                        acceptCounter, request + 1)]
    /\ UNCHANGED <<slotVars, headersSent, lastPacket>>

(* A head that cannot be parsed is answered with a 500, under the lock.     *)
ParseFails(t, rest, r) ==
    /\ RespondFailure("sendError", TRUE)
    /\ receiving' = r
    /\ SendsError(t, rest)

ParseRequest(t, rest, h, p, r, late) ==
    /\ Parse(t, rest, h, p, r) \/ ParseFails(t, rest, r)
    /\ waiting' = FALSE
    /\ heads' = h - 1 /\ partial' = p
    /\ request' = request + 1
    /\ lastFinished' = "null" /\ disconnected' = FALSE
    /\ strays' = strays \union late
    /\ UNCHANGED tcsSend

(* A head that fills the buffer is answered with a 400, under the lock, and *)
(* stays in the buffer.                                                     *)
RefuseLongHead(t, rest, r, late) ==
    /\ keepAlive' = FALSE
    /\ lastPacket' = TRUE
    /\ heads' = 0 /\ partial' = "full"
    /\ receiving' = r
    /\ SendsError(t, rest)
    /\ strays' = strays \union late \union
         IF \/ lastPacket \/ disconnecting
            \/ \E u \in Threads : At(u, "close")
           THEN {"twice"} ELSE {}
    /\ UNCHANGED <<headersSent, tcsSend, requestVars, owinVars>>

(* Mutation: a receive is started although one is outstanding. *)
LeaveTwice(t, rest, h, p, r, late) ==
    LET start == ((h = 0 /\ p = "none") \/ waiting) /\ ~clientClosed IN
    /\ heads' = h /\ partial' = p
    /\ receiving' = (r \/ start)
    /\ Goes(t, Return(rest, start))
    /\ strays' = strays \union late
    /\ UNCHANGED <<slotVars, responseVars, requestVars, owinVars>>

(* The loop ends: a receive is started unless one is outstanding, or what   *)
(* was received already is for later.                                       *)
Leave(t, rest, h, p, r, late) ==
    LET start == ((h = 0 /\ p = "none") \/ waiting) /\ ~r /\ ~clientClosed IN
    /\ heads' = h /\ partial' = p
    /\ receiving' = (r \/ start)
    /\ Goes(t, Return(rest, start))
    /\ strays' = strays \union late
    /\ UNCHANGED <<slotVars, responseVars, requestVars, owinVars>>

(* Mutation: the beginning of a head is parsed. *)
ProcessReceiveIncomplete(t, rest, h, p, r, late) ==
    \/ waiting /\ (h > 0 \/ p = "some") /\ ParseRequest(t, rest, h, p, r, late)
    \/ waiting /\ h = 0 /\ p = "full" /\ RefuseLongHead(t, rest, r, late)
    \/ ~waiting /\ Leave(t, rest, h, p, r, late)

ProcessReceive(t, rest, h, p, r, late) ==
    \/ waiting /\ h > 0 /\ ParseRequest(t, rest, h, p, r, late)
    \/ waiting /\ h = 0 /\ p = "full" /\ RefuseLongHead(t, rest, r, late)
    \/ ~(waiting /\ (h > 0 \/ p = "full")) /\ Leave(t, rest, h, p, r, late)

----------------------------------------------------------------------------
(* Accept                                                                  *)

(* The next client waits for the application of a request that was          *)
(* disconnected or upgraded.                                                *)
PrepareAccept ==
    /\ Slot!PrepareAccept
    /\ phase = "accepting" => acceptCounter <= MaxAccepts
    /\ \E t \in Threads :
         /\ Free(t)
         /\ Begins(t, IF lastFinished = "pending"
                        THEN <<"awaitApp", "realPrepareAccept">>
                        ELSE <<"realPrepareAccept">>)
    /\ UNCHANGED <<receiveVars, connectionVars, responseVars, requestVars,
                   owinVars, strays>>

AppAwaited(t) ==
    /\ Runs(t, "awaitApp") /\ lastFinished = "done"
    /\ Goes(t, Rest(t))
    /\ UNCHANGED <<slotVars, receiveVars, connectionVars, responseVars,
                   requestVars, owinVars, strays>>

(* Mutation: the accept does not wait for the outstanding receive. *)
RealPrepareAcceptAnyway(t) ==
    /\ Runs(t, "realPrepareAccept")
    /\ acceptCounter' = acceptCounter + 1
    /\ disconnecting' = FALSE /\ clientClosed' = FALSE
    /\ CallDown(t, Slot!MayAccept, Slot!StartAccept, <<>>,
                       IF slotSending THEN {"unanswered"} ELSE {})
    /\ UNCHANGED <<gone, receiveVars, responseVars, requestVars, owinVars>>

(* Mutation: _clientClosedConnection is kept. *)
RealPrepareAcceptKeepsClosed(t) ==
    /\ Runs(t, "realPrepareAccept")
    /\ IF receiving
         THEN /\ after' = TRUE
              /\ Goes(t, <<>>)
              /\ UNCHANGED <<slotVars, connectionVars, strays>>
         ELSE /\ acceptCounter' = acceptCounter + 1
              /\ disconnecting' = FALSE
              /\ CallDown(t, Slot!MayAccept, Slot!StartAccept, <<>>,
                       IF slotSending THEN {"unanswered"} ELSE {})
              /\ UNCHANGED <<after, gone, clientClosed>>
    /\ UNCHANGED <<receiving, heads, partial, responseVars, requestVars, owinVars>>

RealPrepareAccept(t) ==
    /\ Runs(t, "realPrepareAccept")
    /\ IF receiving
         THEN /\ after' = TRUE
              /\ Goes(t, <<>>)
              /\ UNCHANGED <<slotVars, connectionVars, strays>>
         ELSE /\ acceptCounter' = acceptCounter + 1
              /\ disconnecting' = FALSE /\ clientClosed' = FALSE
              /\ CallDown(t, Slot!MayAccept, Slot!StartAccept, <<>>,
                       IF slotSending THEN {"unanswered"} ELSE {})
              /\ UNCHANGED <<after, gone>>
    /\ UNCHANGED <<receiving, heads, partial, responseVars, requestVars, owinVars>>

(* The accept may bring the first bytes; they are processed as received.    *)
FinishAccept ==
    /\ Slot!FinishAccept
    /\ acceptCounter <= MaxAccepts
    /\ \E t \in Threads : Free(t) /\ Begins(t, <<"accepted">>)
    /\ gone' = FALSE
    /\ waiting' = TRUE /\ headersSent' = FALSE /\ lastPacket' = FALSE
    /\ heads' = 0 /\ partial' = "none"
    /\ receiving' = TRUE
    /\ UNCHANGED <<after, clientClosed, disconnecting, acceptCounter,
                   keepAlive, tcsSend, cancelled, request, owinVars, strays>>

----------------------------------------------------------------------------
(* Receive                                                                 *)

(* What one receive may bring: n heads and the beginning of another; only   *)
(* one that completes no head can fill the buffer.                          *)
Arrives(n, p) ==
    /\ n \in 0..MaxRequests /\ p \in Partial
    /\ request + heads + n <= MaxRequests
    /\ p = "full" => n = 0

FinishReceive ==
    /\ Slot!FinishReceive /\ phase = "open" /\ ~gone
    /\ \E t \in Threads : Free(t) /\ Begins(t, <<"received">>)
    /\ UNCHANGED <<receiveVars, connectionVars, responseVars, requestVars,
                   owinVars, strays>>

(* The lock region of FinishReceive: nothing is processed when the next     *)
(* client is to be accepted.                                                *)
ProcessReceived(t) ==
    /\ Runs(t, "accepted") \/ Runs(t, "received")
    /\ IF after
         THEN /\ receiving' = FALSE
              /\ Goes(t, <<"check">>)
              /\ UNCHANGED <<slotVars, heads, partial, responseVars,
                             requestVars, owinVars, strays>>
         ELSE \E n \in 0..MaxRequests, p \in Partial :
                /\ Arrives(n, p)
                /\ At(t, "accepted") \/ n > 0 \/ p # "none"
                /\ ProcessReceive(t, <<"check">>, heads + n,
                                  IF n = 0 /\ p = "none" THEN partial ELSE p,
                                  FALSE, {})
    /\ UNCHANGED <<after, connectionVars>>

(* FinishReceive with -1: the client, or the disconnect, closed the socket. *)
FinishReceiveClosed ==
    /\ Slot!FinishReceive
    /\ gone' = TRUE
    /\ receiving' = FALSE
    /\ \E t \in Threads : Free(t) /\ Begins(t, <<"closed", "told">>)
    /\ UNCHANGED <<after, heads, partial, clientClosed, disconnecting,
                   acceptCounter, responseVars, requestVars, owinVars, strays>>

(* The accept that waited for this receive comes first.                     *)
CheckAfter(t) ==
    /\ Runs(t, "check") \/ Runs(t, "checkStart")
    /\ after' = FALSE
    /\ Goes(t, IF after THEN <<"realPrepareAccept">>
               ELSE IF At(t, "check") THEN <<>> ELSE <<"startReceive">>)
    /\ strays' = strays \union
         IF after /\ At(t, "checkStart") THEN {"unstarted"} ELSE {}
    /\ UNCHANGED <<slotVars, receiving, heads, partial, connectionVars,
                   responseVars, requestVars, owinVars>>

(* Mutation: the accept that waited for this receive is forgotten. *)
NoteClosedForgets(t) ==
    /\ Runs(t, "closed")
    /\ clientClosed' = TRUE
    /\ Goes(t, Rest(t))
    /\ strays' = strays \union Late(t, TRUE)
    /\ UNCHANGED <<slotVars, receiveVars, gone, disconnecting, acceptCounter,
                   responseVars, requestVars, owinVars>>

NoteClosed(t) ==
    /\ Runs(t, "closed")
    /\ after' = FALSE
    /\ IF after
         THEN Goes(t, <<"realPrepareAccept">>) /\ UNCHANGED <<clientClosed,
                                                               strays>>
         ELSE /\ clientClosed' = TRUE
              /\ Goes(t, Rest(t))
              /\ strays' = strays \union Late(t, TRUE)
    /\ UNCHANGED <<slotVars, receiving, heads, partial, gone, disconnecting,
                   acceptCounter, responseVars, requestVars, owinVars>>

(* Mutation: the two cases are exchanged. *)
TellClosedExchanged(t) ==
    /\ Runs(t, "told")
    /\ IF waiting THEN Goes(t, <<>>) /\ cancelled' = TRUE
                  ELSE Goes(t, <<"close">>) /\ UNCHANGED cancelled
    /\ UNCHANGED <<slotVars, receiveVars, connectionVars, responseVars,
                   waiting, request, owinVars, strays>>

TellClosed(t) ==
    /\ Runs(t, "told")
    /\ IF waiting THEN Goes(t, <<"close">>) /\ UNCHANGED cancelled
                  ELSE Goes(t, <<>>) /\ cancelled' = TRUE
    /\ strays' = strays \union Late(t, ~waiting)
    /\ UNCHANGED <<slotVars, receiveVars, connectionVars, responseVars,
                   waiting, request, owinVars>>

StartReceive(t) ==
    /\ Runs(t, "startReceive")
    /\ CallDown(t, Slot!MayReceive, Slot!StartReceive, Rest(t), {})
    /\ UNCHANGED <<receiveVars, connectionVars, responseVars, requestVars,
                   owinVars>>

(* Mutation: a thread of an earlier client goes on with the receive buffer. *)
ReenterAlways(t) ==
    /\ Runs(t, "reenter")
    /\ ProcessReceive(t, Rest(t), heads, partial, receiving, {})
    /\ UNCHANGED <<after, connectionVars>>

(* HandleRequest returned: the lock is taken again, and the loop left when  *)
(* another client was accepted meanwhile.                                   *)
Reenter(t) ==
    /\ Runs(t, "reenter")
    /\ IF thr[t].accept # acceptCounter
         THEN /\ Goes(t, Rest(t))
              /\ UNCHANGED <<slotVars, receiving, heads, partial,
                             responseVars, requestVars, owinVars, strays>>
         ELSE ProcessReceive(t, Rest(t), heads, partial, receiving, {})
    /\ UNCHANGED <<after, connectionVars>>

----------------------------------------------------------------------------
(* The application                                                         *)

(* The task is not complete: the calling thread goes on, and the rest runs  *)
(* on a thread of its own.                                                  *)
AppContinuesLater(t) ==
    /\ Runs(t, "app") /\ Rest(t) # <<>>
    /\ \E u \in Threads :
         /\ Free(u)
         /\ thr' = [thr EXCEPT ![t] = Thread(Rest(t), @.accept, @.request),
                               ![u] = Thread(<<"app">>, thr[t].accept,
                                             thr[t].request)]
    /\ UNCHANGED <<slotVars, receiveVars, connectionVars, responseVars,
                   requestVars, owinVars, strays>>

(* FlushAsync, WriteAsync: the headers go with the first data, and the      *)
(* thread awaits the send.  The application flushes once before its end.    *)
AppFlushes(t) ==
    /\ Runs(t, "app") /\ "flush" \in AppOps
    /\ ~headersSent /\ tcsSend = {}
    /\ keepAlive' \in {keepAlive, FALSE}
    /\ headersSent' = TRUE
    /\ tcsSend' = {t}
    /\ Goes(t, <<"send", "await">> \o thr[t].todo)
    /\ UNCHANGED <<slotVars, receiveVars, connectionVars, lastPacket,
                   requestVars, owinVars, strays>>

(* Mutation: the next client does not wait for the application. *)
AppDisconnectsUnawaited(t) ==
    /\ Runs(t, "app") /\ "disconnect" \in AppOps
    /\ ~disconnected
    /\ disconnected' = TRUE
    /\ Goes(t, <<"close">> \o thr[t].todo)
    /\ UNCHANGED <<slotVars, receiveVars, connectionVars, responseVars,
                   requestVars, lastFinished, strays>>

(* DisconnectAction                                                         *)
AppDisconnects(t) ==
    /\ Runs(t, "app") /\ "disconnect" \in AppOps
    /\ ~disconnected
    /\ disconnected' = TRUE
    /\ lastFinished' = IF lastFinished = "null" THEN "pending" ELSE lastFinished
    /\ Goes(t, <<"close">> \o thr[t].todo)
    /\ UNCHANGED <<slotVars, receiveVars, connectionVars, responseVars,
                   requestVars, strays>>

(* The task completes, with or without an exception; nothing is sent to a   *)
(* client that was disconnected.                                            *)
AppEnds(t) ==
    /\ Runs(t, "app")
    /\ IF disconnected
         THEN /\ Goes(t, <<"report">> \o Rest(t))
              /\ UNCHANGED <<responseVars, cancelled>>
         ELSE \E point \in {"send", "sendError", "close"}, failed \in BOOLEAN :
                /\ failed => "fault" \in AppOps
                /\ ResponseFinished(point, failed)
                /\ Goes(t, <<point, "report">> \o Rest(t))
    /\ UNCHANGED <<slotVars, receiveVars, connectionVars, waiting, request,
                   owinVars, strays>>

(* The application throws before it returns a task: the catch of            *)
(* HandleRequest does not report the end after ResponseFinished.            *)
AppThrows(t) ==
    /\ Runs(t, "app") /\ Rest(t) # <<>> /\ "fault" \in AppOps
    /\ IF disconnected
         THEN /\ Goes(t, <<"report">> \o Rest(t))
              /\ UNCHANGED <<responseVars, cancelled>>
         ELSE \E point \in {"sendError", "close"} :
                /\ ResponseFinished(point, TRUE)
                /\ Goes(t, <<point>> \o Rest(t))
    /\ UNCHANGED <<slotVars, receiveVars, connectionVars, waiting, request,
                   owinVars, strays>>

(* ReportFinishOfAppFunc, on whatever request _lastRequestFinished belongs  *)
(* to by now.  The second result is refused with an exception, which a      *)
(* continuation swallows and the calling thread brings to ProcessReceive.   *)
Report(t) ==
    /\ Runs(t, "report")
    /\ lastFinished' = IF lastFinished = "pending" THEN "done" ELSE lastFinished
    /\ Goes(t, IF lastFinished = "done" /\ Rest(t) # <<>>
                 THEN <<"caught">> \o Tail(Rest(t)) ELSE Rest(t))
    /\ strays' = strays \union
         IF lastFinished = "pending" /\ thr[t].request # request
           THEN {"report"} ELSE {}
    /\ UNCHANGED <<slotVars, receiveVars, connectionVars, responseVars,
                   requestVars, disconnected>>

(* The catch of ProcessReceive, for an exception of HandleRequest.          *)
Caught(t) ==
    /\ Runs(t, "caught")
    /\ IF thr[t].accept # acceptCounter
         THEN Goes(t, Rest(t)) /\ UNCHANGED <<slotVars, responseVars, cancelled>>
         ELSE \E point \in {"sendError", "close"} :
                /\ ResponseFinished(point, TRUE)
                /\ IF point = "close"
                     THEN Goes(t, <<point>> \o Rest(t)) /\ UNCHANGED slotVars
                     ELSE SendsError(t, Rest(t))
    /\ UNCHANGED <<receiveVars, connectionVars, waiting, request, owinVars,
                   strays>>

----------------------------------------------------------------------------
(* Send and disconnect                                                     *)

StartSend(t) ==
    /\ Runs(t, "send")
    /\ CallDown(t, Slot!MaySend, Slot!StartSend, Rest(t), {})
    /\ UNCHANGED <<receiveVars, connectionVars, responseVars, requestVars,
                   owinVars>>

StartSendError(t) ==
    /\ Runs(t, "sendError")
    /\ SendsError(t, Rest(t))
    /\ UNCHANGED <<receiveVars, connectionVars, responseVars, requestVars,
                   owinVars, strays>>

(* A thread that awaits a send, or is about to, does so no longer.          *)
Resumed(todo) ==
    IF ~Passes(todo, {"await"}) THEN todo
    ELSE IF Head(todo) = "await" THEN Tail(todo)
    ELSE <<Head(todo)>> \o Tail(Tail(todo))

(* FinishSend up to the continuation of the application it resumes.         *)
FinishSend ==
    /\ Slot!FinishSend
    /\ \E t \in Threads, success \in BOOLEAN :
         /\ Free(t)
         /\ keepAlive' = (keepAlive /\ success /\ ~clientClosed)
         /\ tcsSend' = {}
         /\ thr' = [u \in Threads |->
              IF u = t
                THEN Thread(<<IF tcsSend = {} THEN "sent" ELSE "flushed">>,
                            acceptCounter, request)
              ELSE IF u \in tcsSend
                THEN [thr[u] EXCEPT !.todo = Resumed(@)]
              ELSE thr[u]]
    /\ UNCHANGED <<receiveVars, connectionVars, headersSent, lastPacket,
                   requestVars, owinVars, strays>>

(* Mutation: the decision does not look whether the client has gone. *)
AfterSendAlways(t) ==
    /\ Runs(t, "sent") \/ Runs(t, "flushed")
    /\ lastPacket' = FALSE
    /\ Goes(t, <<"reset", "next">>)
    /\ UNCHANGED <<slotVars, receiveVars, connectionVars, keepAlive,
                   headersSent, tcsSend, requestVars, owinVars, strays>>

(* Was that the last packet?  Then the next request, or the end.            *)
AfterSend(t) ==
    /\ Runs(t, "sent") \/ Runs(t, "flushed")
    /\ lastPacket' = FALSE
    /\ Goes(t, IF ~lastPacket THEN <<>>
               ELSE IF keepAlive /\ ~clientClosed THEN <<"reset", "next">>
               ELSE <<"close">>)
    /\ strays' = strays \union
                   (IF lastPacket /\ At(t, "flushed") THEN {"early"} ELSE {})
                   \union Late(t, lastPacket)
    /\ UNCHANGED <<slotVars, receiveVars, connectionVars, keepAlive,
                   headersSent, tcsSend, requestVars, owinVars>>

(* ResetForNextRequest and the first line of StartNextReceive.              *)
ResetForNextRequest(t) ==
    /\ Runs(t, "reset")
    /\ waiting' = TRUE /\ headersSent' = FALSE /\ lastPacket' = FALSE
    /\ Goes(t, IF clientClosed THEN <<>> ELSE Rest(t))
    /\ strays' = strays \union Late(t, TRUE) \union
         IF clientClosed /\ \A u \in Threads : ~At(u, "told")
           THEN {"leak"} ELSE {}
    /\ UNCHANGED <<slotVars, receiveVars, connectionVars, keepAlive,
                   tcsSend, cancelled, request, owinVars>>

(* Mutation: a receive is started whatever the buffer holds. *)
StartNextReceiveOnly(t) ==
    /\ Runs(t, "next")
    /\ Leave(t, <<>>, heads, partial, receiving, Late(t, TRUE))
    /\ UNCHANGED <<after, connectionVars>>

StartNextReceive(t) ==
    /\ Runs(t, "next")
    /\ ProcessReceive(t, <<>>, heads, partial, receiving, Late(t, TRUE))
    /\ UNCHANGED <<after, connectionVars>>

(* CloseConnection: the first to get here calls StartDisconnect.            *)
CloseConnection(t) ==
    /\ Runs(t, "close")
    /\ disconnecting' = TRUE
    /\ IF disconnecting
         THEN Goes(t, Rest(t)) /\ UNCHANGED <<slotVars, strays>>
         ELSE CallDown(t, Slot!MayDisconnect, Slot!StartDisconnect, Rest(t),
                       Late(t, TRUE))
    /\ UNCHANGED <<receiveVars, gone, clientClosed, acceptCounter, responseVars,
                   requestVars, owinVars>>

----------------------------------------------------------------------------
App(t) ==
    \/ AppContinuesLater(t) \/ AppFlushes(t) \/ AppDisconnects(t) \/ AppEnds(t)
    \/ AppThrows(t)

Run(t) ==
    \/ AppAwaited(t) \/ RealPrepareAccept(t) \/ ProcessReceived(t)
    \/ CheckAfter(t) \/ NoteClosed(t) \/ TellClosed(t)
    \/ StartReceive(t) \/ Reenter(t) \/ App(t) \/ Report(t) \/ Caught(t)
    \/ StartSend(t) \/ StartSendError(t) \/ AfterSend(t) \/ ResetForNextRequest(t)
    \/ StartNextReceive(t) \/ CloseConnection(t)

Next ==
    \/ PrepareAccept \/ FinishAccept \/ FinishReceive \/ FinishReceiveClosed
    \/ FinishSend
    \/ \E t \in Threads : Run(t)

(* Threads that run are not stopped for ever, the application returns, and  *)
(* the transport completes what it must: sends, disconnects, and the        *)
(* receives of a disconnected client.  Clients may stay silent.             *)
Fairness ==
    /\ \A t \in Threads : WF_vars(Run(t))
    /\ WF_vars(FinishSend)
    /\ WF_vars(closing /\ PrepareAccept)
    /\ WF_vars(closing /\ FinishReceiveClosed)

Spec == Init /\ [][Next]_vars /\ Fairness

----------------------------------------------------------------------------
(* Properties.  The handler guards little of its state with its lock, and   *)
(* there are orders of the threads in which an effect hits a later request  *)
(* or client; strays records them, and the properties are about behaviours  *)
(* without.                                                                 *)

Clean == strays = {}

(* Threads that run an application, or hold its continuation.               *)
Apps == {t \in Threads : Passes(thr[t].todo, {"app"})}

(* Threads that process what was received or are about to receive more.     *)
Taking == {t \in Threads : Passes(thr[t].todo,
             {"accepted", "received", "checkStart", "startReceive"})}

(* Every call down that the slot forbids (a second StartSend, a receive     *)
(* during an accept, ...) has another stray effect as its cause.            *)
Lawful == "unlawful" \in strays => strays # {"unlawful"}

(* The application is never called again before its last call has ended,    *)
(* not even for the slot's next client (NowinTestsBase insideDelay).        *)
AppsExclusive == Clean => Cardinality(Apps) <= 1

(* _receiving is set exactly while a receive is outstanding, or one thread  *)
(* is between the lock and StartReceive; there never are two of them.       *)
ReceivingExact ==
    Clean => /\ receiving <=> slotReceiving \/ Taking # {}
             /\ Cardinality(Taking) <= 1
             /\ slotReceiving => Taking = {}

(* While a receive is outstanding nothing that could be processed lies in   *)
(* the buffer, and there is room in it: the assertions of FinishReceive and *)
(* RealStartNextReceive.                                                    *)
BufferStill ==
    Clean /\ slotReceiving =>
        /\ heads = 0 /\ partial # "full"
        /\ partial = "some" => waiting

(* Nothing of a client is left in its slot when the next is waited for: no  *)
(* application, no receive, no awaited send, no close.                      *)
FreshSlot ==
    Clean /\ phase = "accepting" =>
        /\ ~receiving /\ ~slotReceiving /\ ~after
        /\ ~clientClosed /\ ~disconnecting
        /\ tcsSend = {} /\ Apps = {}

(* The connection is not closed, and the next request not waited for, while *)
(* a part of the response is still to be sent.                              *)
Uncut == [][(~closing /\ closing') \/ (~waiting /\ waiting')
                => ~slotSending \/ strays' # {}]_vars

(* A slot that was told to disconnect is asked to accept another client.    *)
ClosedIsReused == closing ~> phase = "accepting" \/ strays # {}

(* A connection the client has closed is closed by the server as well.      *)
GoneIsClosed == gone /\ phase = "open" ~> closing \/ strays # {}

(* A pipelined request is taken from the buffer, unless the connection is   *)
(* closed before (README: "untested pipe-lining").                          *)
PipelinedIsTaken == heads > 0 /\ phase = "open"
                        ~> heads = 0 \/ closing \/ strays # {}

(* What the repository says without the condition.  NowinTestsBase asserts  *)
(* that an application does not run before the one that disconnected ended. *)
AppsNeverOverlap == Cardinality(Apps) <= 1

(* Connections are "reused but never deallocated" (README): the slot of a   *)
(* client that has gone waits for another.                                  *)
GoneIsReused == gone /\ phase = "open" ~> phase = "accepting"

============================================================================
