--------------------------- MODULE WebSocketProofs --------------------------
(***************************************************************************)
(* What holds of WebSocket for every number of threads and senders, every  *)
(* size of messages, frames, segments and buffers, however the client's    *)
(* bytes are cut and whenever it closes: first of the sending half, then   *)
(* of the receiving one.                                                   *)
(***************************************************************************)
EXTENDS WebSocket, SequenceTheorems, WellFoundedInduction, TLAPS

----------------------------------------------------------------------------
(* The inductive invariant of the sending half                             *)

Points == {"out", "receive", "check", "parse", "header", "last", "start", "flagged",
           "enter", "finish", "closing", "fail", "tell"}

SenderPoints == {"idle", "wait", "frame", "sending", "closing", "closeSending", "closeSent",
                 "closeWait"}

SenderJob == [pc : SenderPoints, rest : Nat, op : {"start", "continue"}, end : BOOLEAN,
              whole : BOOLEAN, cut : BOOLEAN]

SentFrame == [op : {"start", "continue", "close"}, fin : BOOLEAN]

SendTypes ==
    /\ jobs \in [Senders -> SenderJob]
    /\ sendLock \in Senders \cup {Free}
    /\ used \in 0..SendLimit
    /\ sent \in Seq(SentFrame)

(* The server takes the connection for closed only when it is.              *)
Lost == gone \/ phase = "ended"
LostInv ==
    /\ at \in [Threads -> Points]
    /\ clientClosed => Lost
    /\ state = "Close" => Lost
    /\ \A t \in Threads : at[t] \in {"fail", "tell"} => Lost

(* The senders are calls of the application.                                *)
QuietInv == phase # "open" => \A s \in Senders : jobs[s].pc = "idle"

(* Who holds the send lock, and the frame it has sent.                      *)
HasLock(s) == jobs[s].pc \in {"frame", "sending", "closeSending", "closeSent", "closeWait"}
LockInv ==
    /\ \A s \in Senders : HasLock(s) => sendLock = s
    /\ \A s \in Senders :
          jobs[s].pc = "sending" => /\ sent # <<>>
                                    /\ sent[Len(sent)].fin => jobs[s].end

(* CloseAsync is called once, and alone.                                    *)
InClose(s) == jobs[s].pc \in {"closing", "closeSending", "closeSent", "closeWait"}
CloseInv ==
    /\ \A s \in Senders : InClose(s) => closeCalled
    /\ \A s, u \in Senders : InClose(s) /\ InClose(u) => s = u
    /\ closeCalled => \A s \in Senders : jobs[s].pc \notin {"wait", "frame", "sending"}
    /\ \A i \in 1..Len(sent) : sent[i].op = "close" => i = Len(sent) /\ closeCalled
    /\ \A s \in Senders : jobs[s].pc \in {"closing", "closeSending"} =>
          \A i \in 1..Len(sent) : sent[i].op # "close"

(* The message on the wire has ended whenever the lock is free, and goes on *)
(* while its sender has it.                                                 *)
Ended == sent # <<>> => sent[Len(sent)].fin
Starts(i) == sent[i].op = "start" <=> sent[i].op # "close" /\ (i = 1 \/ sent[i - 1].fin)
Continued(s) == jobs[s].op = "continue" /\ sent # <<>>
MessageInv ==
    /\ \A i \in 1..Len(sent) : Starts(i)
    /\ sendLock = Free => Ended
    /\ \A s \in Senders :
          /\ jobs[s].pc = "wait" => jobs[s].op = "start" /\ ~jobs[s].cut
          /\ jobs[s].pc = "frame" /\ ~jobs[s].cut => jobs[s].op = "start" /\ Ended
          /\ jobs[s].pc = "frame" /\ jobs[s].cut => Continued(s) /\ ~Ended
          /\ jobs[s].pc = "sending" => jobs[s].cut /\ Continued(s)
          /\ jobs[s].pc \in {"closeSending", "closeSent", "closeWait"} => Ended

SendInv ==
    /\ SendTypes /\ LostInv /\ QuietInv /\ LockInv /\ CloseInv
    /\ nextIsStart
    /\ ~gone /\ "restart" \notin strays => MessageInv

----------------------------------------------------------------------------
(* What the receiving half does to the senders                             *)

(* What it does to the senders: nothing, but that the connection ends.      *)
LeavesSenders ==
    /\ UNCHANGED <<jobs, sendLock, used, nextIsStart, closeCalled, sent>>
    /\ gone => gone'
    /\ "restart" \in strays => "restart" \in strays'
    /\ phase' # "open" => phase' = phase \/ \A s \in Senders : jobs[s].pc = "idle"

(* A thread goes on somewhere in parsing.                                   *)
MovesOn(t) == \E p \in Points \ {"fail", "tell"} : at' = [at EXCEPT ![t] = p]

LEMMA ReturnMovesOn == ASSUME NEW t, Return(t) PROVE MovesOn(t)
  BY DEF Return, Goto, MovesOn, Points

LEMMA GotoMovesOn ==
    ASSUME NEW t, NEW p \in Points \ {"fail", "tell"}, Goto(t, p) PROVE MovesOn(t)
  BY DEF Goto, MovesOn

LEMMA MovesOnKeeps ==
    ASSUME LostInv, NEW t \in Threads, MovesOn(t),
           UNCHANGED <<gone, phase, clientClosed>>, state' # "Close" \/ state' = state
    PROVE  LostInv'
  BY DEF LostInv, MovesOn, Lost

LEMMA ParseMovesOn ==
    ASSUME NEW t \in Threads, Parse(t)
    PROVE  /\ MovesOn(t)
           /\ state' # "Close" \/ state' = state
           /\ "restart" \in strays => "restart" \in strays'
<1> DEFINE Good == /\ MovesOn(t)
                   /\ state' # "Close" \/ state' = state
                   /\ "restart" \in strays => "restart" \in strays'
<1>1. ASSUME ParseError(t) PROVE Good
  BY <1>1, ReturnMovesOn DEF ParseError
<1>2. ASSUME ParseMore(t) PROVE Good
  BY <1>2, ReturnMovesOn DEF ParseMore
<1>3. ASSUME NEW f, NEW p, NEW data, ParseBody(t, f, p, data) PROVE Good
  <2>1. CASE f.op = "close"
    <3>1. CloseFrame(t, f, p, data)
      BY <1>3, <2>1 DEF ParseBody
    <3>2. CASE data < f.len
      BY <3>1, <3>2, GotoMovesOn DEF CloseFrame, Points
    <3>3. CASE ~(data < f.len)
      BY <3>1, <3>3, GotoMovesOn DEF CloseFrame, Points
    <3> QED
      BY <3>2, <3>3
  <2>2. CASE f.op # "close"
    <3>1. DataFrame(t, f, p, data)
      BY <1>3, <2>2 DEF ParseBody
    <3>2. state' = "Body" /\ UNCHANGED strays /\ (Goto(t, "header") \/ Goto(t, "last"))
      BY <3>1 DEF DataFrame
    <3> QED
      BY <3>2, GotoMovesOn DEF Points
  <2> QED
    BY <2>1, <2>2
<1>4. CASE state = "Header"
  <2>1. PICK f : \/ ParseError(t) \/ ParseMore(t)
                 \/ ParseBody(t, f, taken + HeaderSize, have - HeaderSize)
    BY <1>4 DEF Parse
  <2> QED
    BY <1>1, <1>2, <1>3, <2>1
<1>5. CASE state = "Body"
  BY <1>3, <1>5 DEF Parse
<1>6. CASE state = "Error"
  BY <1>1, <1>6 DEF Parse
<1>7. CASE state \notin {"Header", "Body", "Error"}
  BY <1>7, ReturnMovesOn DEF Parse
<1> QED
  BY <1>4, <1>5, <1>6, <1>7

(* Each of its steps.                                                       *)
LEMMA ReceivingStep ==
    ASSUME SendTypes, LostInv, QuietInv, [Next]_vars
    PROVE  \/ LeavesSenders /\ LostInv'
           \/ \E s \in Senders :
                 \/ Work(s) \/ CloseAsync(s)
                 \/ \E n \in Sizes, end \in BOOLEAN : SendAsync(s, n, end)
<1> DEFINE Good == LeavesSenders /\ LostInv'
<1> USE DEF LeavesSenders, clientVars, transportVars, frameVars, threadVars, sendVars
<1>1. ASSUME NEW t \in Threads, Check(t) PROVE Good
  <2>1. MovesOn(t)
    BY <1>1, ReturnMovesOn, GotoMovesOn DEF Check, Points
  <2> QED
    BY <1>1, <2>1, MovesOnKeeps DEF Check
<1>2. ASSUME NEW t \in Threads, Parse(t) PROVE Good
  BY <1>2, ParseMovesOn, MovesOnKeeps DEF Parse
<1>3. ASSUME NEW t \in Threads, AfterFrame(t) PROVE Good
  <2>1. MovesOn(t)
    BY <1>3, ReturnMovesOn, GotoMovesOn DEF AfterFrame, Points
  <2> QED
    BY <1>3, <2>1, MovesOnKeeps DEF AfterFrame
<1>4. ASSUME NEW t \in Threads, AfterData(t) PROVE Good
  <2>1. MovesOn(t)
    BY <1>4, ReturnMovesOn, GotoMovesOn DEF AfterData, Points
  <2> QED
    BY <1>4, <2>1, MovesOnKeeps DEF AfterData
<1>5. ASSUME NEW t \in Threads, AfterClose(t) PROVE Good
  <2>1. MovesOn(t)
    BY <1>5, ReturnMovesOn, GotoMovesOn DEF AfterClose, Points
  <2> QED
    BY <1>5, <2>1, MovesOnKeeps DEF AfterClose
<1>6. ASSUME NEW t \in Threads, StartReceiveData(t) PROVE Good
  <2>1. MovesOn(t)
    BY <1>6, ReturnMovesOn, GotoMovesOn DEF StartReceiveData, Points
  <2> QED
    BY <1>6, <2>1, MovesOnKeeps DEF StartReceiveData
<1>7. ASSUME NEW t \in Threads, StartNextReceive(t) PROVE Good
  <2>1. MovesOn(t)
    BY <1>7, ReturnMovesOn, GotoMovesOn DEF StartNextReceive, Points
  <2> QED
    BY <1>7, <2>1, MovesOnKeeps DEF StartNextReceive
<1>8. ASSUME NEW t \in Threads, Enter(t) PROVE Good
  <2>1. MovesOn(t)
    BY <1>8, ReturnMovesOn, GotoMovesOn DEF Enter, ProcessReceive, Points
  <2> QED
    BY <1>8, <2>1, MovesOnKeeps DEF Enter
<1>9. ASSUME NEW t \in Threads, FinishReceiveData(t) PROVE Good
  <2>1. MovesOn(t)
    BY <1>9, ReturnMovesOn, GotoMovesOn DEF FinishReceiveData, Points
  <2> QED
    BY <1>9, <2>1, MovesOnKeeps DEF FinishReceiveData
<1>10. ASSUME NEW t \in Threads, SetClientClosed(t) PROVE Good
  BY <1>10 DEF SetClientClosed, Goto, LostInv, Lost, Points
<1>11. ASSUME NEW t \in Threads, TellReader(t) PROVE Good
  BY <1>11 DEF TellReader, Goto, LostInv, Lost, Points
<1>12. ASSUME FinishUpgrade PROVE Good
  BY <1>12 DEF FinishUpgrade, LostInv, Lost, QuietInv
<1>13. ASSUME NEW t \in Threads, FinishReceiveFailed(t) PROVE Good
  BY <1>13 DEF FinishReceiveFailed, Goto, LostInv, Lost, Points
<1>14. ASSUME NEW t \in Threads, NEW n \in 1..BufferSize, FinishReceive(t, n) PROVE Good
  <2>1. MovesOn(t)
    BY <1>14, ReturnMovesOn, GotoMovesOn DEF FinishReceive, ProcessReceive, Points
  <2> QED
    BY <1>14, <2>1, MovesOnKeeps DEF FinishReceive
<1>15. ASSUME Register PROVE Good
  BY <1>15 DEF Register, Goto, LostInv, Lost, Points, Threads
<1>16. ASSUME NEW n \in Segments, ReceiveAsync(n) PROVE Good
  BY <1>16 DEF ReceiveAsync, Goto, LostInv, Lost, Points, Threads
<1>17. ASSUME AppEnds PROVE Good
  BY <1>17 DEF AppEnds, LostInv, Lost
<1>18. ASSUME ClientCloses PROVE Good
  BY <1>18 DEF ClientCloses, LostInv, Lost
<1>19. CASE UNCHANGED vars
  BY <1>19 DEF vars, LostInv, Lost
<1> HIDE DEF Good
<1>20. Receivers \subseteq Threads
  BY DEF Threads
<1>21. ASSUME Transport PROVE Good
  BY <1>21, <1>12, <1>13, <1>14, <1>20 DEF Transport, AnIdle, IdleReceivers
<1>22. ASSUME NEW t \in Threads, Run(t) PROVE Good
  BY <1>22, <1>1, <1>2, <1>3, <1>4, <1>5, <1>6, <1>7, <1>8, <1>9, <1>10, <1>11 DEF Run
<1>23. CASE Next
  <2> HIDE DEF LeavesSenders, clientVars, transportVars, frameVars, threadVars, sendVars
  <2>1. CASE \E t \in Threads : Run(t)
    BY <2>1, <1>22 DEF Good
  <2>2. CASE \E n \in Segments : ReceiveAsync(n)
    BY <2>2, <1>16 DEF Good
  <2>3. CASE Transport \/ Register \/ AppEnds \/ ClientCloses
    BY <2>3, <1>21, <1>15, <1>17, <1>18 DEF Good
  <2> QED
    BY <1>23, <2>1, <2>2, <2>3 DEF Next
<1> QED
  BY <1>19, <1>23 DEF Good

----------------------------------------------------------------------------
(* The sending half                                                        *)

LEMMA SendersKeepLost ==
    ASSUME LostInv, UNCHANGED readVars
    PROVE  LostInv' /\ UNCHANGED <<gone, phase, clientClosed, state>>
  BY DEF LostInv, Lost, readVars, clientVars, transportVars, threadVars

(* One task's call moves on, and no other's.                                *)
Moved(s) ==
    /\ jobs' \in [Senders -> SenderJob]
    /\ \A u \in Senders \ {s} : jobs'[u] = jobs[u]

LEMMA JobMoves ==
    ASSUME SendTypes, NEW s \in Senders, NEW job \in SenderJob, Job(s, job)
    PROVE  Moved(s) /\ jobs'[s] = job
  BY DEF SendTypes, Job, Moved

LEMMA StepMoves ==
    ASSUME SendTypes, NEW s \in Senders, NEW to \in SenderPoints, Step(s, to)
    PROVE  /\ Moved(s)
           /\ jobs'[s].pc = to
           /\ jobs'[s].op = jobs[s].op /\ jobs'[s].end = jobs[s].end /\ jobs'[s].cut = jobs[s].cut
<1>1. jobs \in [Senders -> SenderJob] /\ jobs' = [jobs EXCEPT ![s] = [@ EXCEPT !.pc = to]]
  BY DEF SendTypes, Step
<1>2. [jobs[s] EXCEPT !.pc = to] \in SenderJob
  BY <1>1 DEF SenderJob
<1> QED
  BY <1>1, <1>2 DEF Moved, SenderJob

LEMMA ReleaseMoves ==
    ASSUME SendTypes, NEW s \in Senders, Release(s)
    PROVE  Moved(s) /\ jobs'[s].pc = "idle" /\ sendLock' = Free
<1>1. Idle \in SenderJob /\ Idle.pc = "idle"
  BY DEF Idle, SenderJob, SenderPoints
<1> QED
  BY <1>1, JobMoves DEF Release

(* A frame is added to those that were sent.                                *)
LEMMA SendAppends ==
    ASSUME SendTypes, NEW f \in SentFrame, Send(f)
    PROVE  /\ sent' \in Seq(SentFrame) /\ Len(sent') = Len(sent) + 1 /\ Len(sent) \in Nat
           /\ \A i \in 1..Len(sent) : sent'[i] = sent[i]
           /\ sent'[Len(sent')] = f /\ sent' # <<>>
  BY DEF SendTypes, Send

LEMMA SendAsyncKeeps ==
    ASSUME SendInv, NEW s \in Senders, NEW n \in Sizes, NEW end \in BOOLEAN, SendAsync(s, n, end)
    PROVE  SendInv'
<1> DEFINE job == [pc |-> "wait", rest |-> n, op |-> IF nextIsStart THEN "start" ELSE "continue",
                   end |-> end, whole |-> Whole(end), cut |-> FALSE]
<1>1. LostInv' /\ UNCHANGED <<gone, phase, clientClosed, state>>
  BY SendersKeepLost DEF SendInv, SendAsync
<1>2. job \in SenderJob /\ job.pc = "wait" /\ job.op = "start" /\ job.cut = FALSE
  BY WebSocketAssumption DEF SenderJob, SenderPoints, Whole, SendInv
<1>3. Job(s, job)
  BY DEF SendAsync
<1> HIDE DEF job
<1>4. Moved(s) /\ jobs'[s] = job /\ jobs[s].pc = "idle" /\ ~closeCalled /\ phase = "open"
  BY <1>2, <1>3, JobMoves DEF SendInv, SendAsync
<1>5. UNCHANGED <<sendLock, used, sent, nextIsStart, closeCalled, strays>>
  BY DEF SendAsync
<1>6. SendTypes'
  BY <1>4, <1>5 DEF SendInv, SendTypes, Moved
<1>7. QuietInv'
  BY <1>1, <1>4 DEF QuietInv
<1>8. LockInv'
  BY <1>2, <1>4, <1>5 DEF SendInv, LockInv, HasLock, Moved
<1>9. CloseInv'
  BY <1>2, <1>4, <1>5 DEF SendInv, CloseInv, InClose, Moved
<1>10. ASSUME MessageInv PROVE MessageInv'
  BY <1>2, <1>4, <1>5, <1>10 DEF MessageInv, Starts, Ended, Continued, Moved
<1> QED
  BY <1>1, <1>5, <1>6, <1>7, <1>8, <1>9, <1>10 DEF SendInv

LEMMA CloseAsyncKeeps ==
    ASSUME SendInv, NEW s \in Senders, CloseAsync(s)
    PROVE  SendInv'
<1>1. LostInv' /\ UNCHANGED <<gone, phase, clientClosed, state>>
  BY SendersKeepLost DEF SendInv, CloseAsync
<1>2. \A u \in Senders : jobs[u].pc = "idle"
  BY DEF CloseAsync, Alone
<1>3. ~closeCalled /\ closeCalled' = TRUE /\ phase = "open"
  BY DEF CloseAsync
<1>4. \/ UNCHANGED jobs
      \/ Moved(s) /\ jobs'[s].pc = "closing"
  BY StepMoves DEF SendInv, CloseAsync, SenderPoints
<1>5. UNCHANGED <<sendLock, used, sent, nextIsStart, strays>>
  BY DEF CloseAsync
<1>6. SendTypes'
  BY <1>4, <1>5 DEF SendInv, SendTypes, Moved
<1>7. QuietInv'
  BY <1>1, <1>3 DEF QuietInv
<1>8. LockInv'
  BY <1>2, <1>4, <1>5 DEF SendInv, LockInv, HasLock, Moved
<1>9. CloseInv'
  BY <1>2, <1>3, <1>4, <1>5 DEF SendInv, CloseInv, InClose, Moved
<1>10. ASSUME MessageInv PROVE MessageInv'
  BY <1>2, <1>4, <1>5, <1>10 DEF MessageInv, Starts, Ended, Continued, Moved
<1> QED
  BY <1>1, <1>5, <1>6, <1>7, <1>8, <1>9, <1>10 DEF SendInv

LEMMA AcquireKeeps ==
    ASSUME SendInv, NEW s \in Senders, Acquire(s)
    PROVE  SendInv'
<1>1. LostInv' /\ UNCHANGED <<gone, phase, clientClosed, state>>
  BY SendersKeepLost DEF SendInv, Acquire
<1>2. /\ \/ jobs[s].pc = "wait" /\ jobs'[s].pc = "frame"
         \/ jobs[s].pc = "closing" /\ jobs'[s].pc = "closeSending"
      /\ Moved(s) /\ jobs'[s].op = jobs[s].op /\ jobs'[s].end = jobs[s].end
      /\ jobs'[s].cut = jobs[s].cut
  BY StepMoves DEF SendInv, Acquire, SenderPoints
<1>3. sendLock = Free /\ sendLock' = s
  BY DEF Acquire
<1>4. UNCHANGED <<used, sent, nextIsStart, closeCalled, strays>>
  BY DEF Acquire
<1>5. \A u \in Senders : u # Free
  BY WebSocketAssumption
<1>6. SendTypes'
  BY <1>2, <1>3, <1>4 DEF SendInv, SendTypes, Moved
<1>7. QuietInv'
  BY <1>1, <1>2 DEF SendInv, QuietInv
<1>8. LockInv'
  BY <1>2, <1>3, <1>4, <1>5 DEF SendInv, LockInv, HasLock, Moved
<1>9. CloseInv'
  BY <1>2, <1>4 DEF SendInv, CloseInv, InClose, Moved
<1>10. ASSUME MessageInv PROVE MessageInv'
  BY <1>2, <1>3, <1>4, <1>5, <1>10 DEF MessageInv, Starts, Ended, Continued, Moved
<1> QED
  BY <1>1, <1>4, <1>6, <1>7, <1>8, <1>9, <1>10 DEF SendInv

(* Whoever gives the lock back leaves an ended message behind.              *)
LEMMA ReleaseKeeps ==
    ASSUME SendInv, NEW s \in Senders, Release(s),
           jobs[s].pc \in {"frame", "sending", "closeSent", "closeWait"},
           UNCHANGED <<readVars, sent, closeCalled>>,
           used' \in 0..SendLimit, nextIsStart',
           "restart" \in strays => "restart" \in strays',
           MessageInv /\ "restart" \notin strays' => Ended \/ gone
    PROVE  SendInv'
<1>1. LostInv' /\ UNCHANGED <<gone, phase, clientClosed, state>>
  BY SendersKeepLost DEF SendInv
<1>2. Moved(s) /\ jobs'[s].pc = "idle" /\ sendLock' = Free
  BY ReleaseMoves DEF SendInv
<1>3. \A u \in Senders : u # s => ~HasLock(u)
  BY DEF SendInv, LockInv, HasLock
<1>4. UNCHANGED <<sent, closeCalled>>
  OBVIOUS
<1>5. SendTypes'
  BY <1>2, <1>4 DEF SendInv, SendTypes, Moved
<1>6. QuietInv'
  BY <1>1, <1>2 DEF SendInv, QuietInv, Moved
<1>7. LockInv'
  BY <1>2, <1>3 DEF SendInv, LockInv, HasLock, Moved
<1>8. CloseInv'
  BY <1>2, <1>4 DEF SendInv, CloseInv, InClose, Moved
<1>9. ASSUME MessageInv, Ended PROVE MessageInv'
  BY <1>2, <1>3, <1>4, <1>9 DEF MessageInv, HasLock, Starts, Ended, Continued, Moved
<1> QED
  BY <1>1, <1>5, <1>6, <1>7, <1>8, <1>9 DEF SendInv

(* A thread that sends does so on a connection that is not ended, so that   *)
(* only the client can have closed it.                                      *)
LEMMA LostIsGone ==
    ASSUME SendInv, NEW s \in Senders, jobs[s].pc # "idle"
    PROVE  /\ clientClosed \/ phase = "ended" \/ state = "Close" => gone
           /\ phase = "open"
  BY DEF SendInv, LostInv, QuietInv, Lost

LEMMA SendFrameKeeps ==
    ASSUME SendInv, NEW s \in Senders, SendFrame(s)
    PROVE  SendInv'
<1> DEFINE job == jobs[s]
           last == used + job.rest <= SendLimit
           l == IF last THEN used + job.rest ELSE SendLimit
<1>1. LostInv' /\ UNCHANGED <<gone, phase, clientClosed, state>>
  BY SendersKeepLost DEF SendInv, SendFrame
<1>2. /\ job \in SenderJob /\ job.pc = "frame" /\ sendLock = s
      /\ used \in Nat /\ job.rest \in Nat /\ SendLimit \in Nat
  BY WebSocketAssumption DEF SendInv, SendTypes, LockInv, HasLock, SendFrame, SenderJob
<1>3. UNCHANGED <<readVars, nextIsStart, closeCalled>>
  BY DEF SendFrame
<1>4. CASE state = "Close"
  <2>1. Release(s) /\ UNCHANGED <<sent, used, strays>>
    BY <1>4 DEF SendFrame
  <2>2. gone
    BY <1>2, <1>4, LostIsGone
  <2> QED
    BY <1>2, <1>3, <2>1, <2>2, ReleaseKeeps DEF SendInv, SendTypes
<1>5. CASE state # "Close" /\ last /\ ~job.end
  <2>1. /\ Release(s) /\ UNCHANGED sent /\ used' = l
        /\ strays' = (strays \cup IF job.cut THEN {"restart"} ELSE {})
    BY <1>5 DEF SendFrame
  <2>2. l \in 0..SendLimit
    BY <1>2, <1>5
  <2>3. "restart" \notin strays' => ~job.cut
    BY <2>1
  <2>4. MessageInv /\ ~job.cut => Ended
    BY <1>2 DEF MessageInv
  <2>5. "restart" \in strays => "restart" \in strays'
    BY <2>1
  <2> HIDE DEF l
  <2> QED
    BY <1>2, <1>3, <2>1, <2>2, <2>3, <2>4, <2>5, ReleaseKeeps DEF SendInv
<1>6. CASE state # "Close" /\ ~(last /\ ~job.end)
  <2> DEFINE f == [op |-> job.op, fin |-> last /\ job.end]
             left == job.rest - (l - used)
             next == [job EXCEPT !.pc = "sending", !.rest = left, !.cut = TRUE, !.op = "continue"]
  <2>1. Send(f) /\ used' = 0 /\ Job(s, next) /\ UNCHANGED <<sendLock, strays>>
    BY <1>6 DEF SendFrame
  <2>2. left \in Nat
    BY <1>2 DEF SendInv, SendTypes
  <2> HIDE DEF left
  <2>3. /\ next \in SenderJob /\ next.pc = "sending" /\ next.cut = TRUE /\ next.op = "continue"
        /\ next.end = job.end
    BY <1>2, <2>2 DEF SenderJob, SenderPoints
  <2>4. f \in SentFrame /\ f.op = job.op /\ (f.fin => job.end)
    BY <1>2 DEF SentFrame, SenderJob
  <2> HIDE DEF next, l, f
  <2>5. Moved(s) /\ jobs'[s] = next
    BY <2>1, <2>3, JobMoves DEF SendInv
  <2>6. /\ sent' \in Seq(SentFrame) /\ Len(sent') = Len(sent) + 1 /\ Len(sent) \in Nat
        /\ \A i \in 1..Len(sent) : sent'[i] = sent[i]
        /\ sent'[Len(sent')] = f /\ sent' # <<>>
    BY <2>1, <2>4, SendAppends DEF SendInv
  <2>7. SendTypes'
    BY <1>2, <2>1, <2>5, <2>6 DEF SendInv, SendTypes, Moved
  <2>8. QuietInv'
    BY <1>1, <1>2, LostIsGone DEF QuietInv
  <2>9. LockInv'
    BY <1>2, <2>1, <2>3, <2>4, <2>5, <2>6 DEF SendInv, LockInv, HasLock, Moved
  <2>10. CloseInv'
    <3>1. ~closeCalled /\ closeCalled' = closeCalled
      BY <1>2, <1>3 DEF SendInv, CloseInv
    <3>2. f.op # "close"
      BY <1>2, <2>4 DEF SenderJob
    <3> QED
      BY <1>2, <2>3, <2>5, <2>6, <3>1, <3>2 DEF SendInv, CloseInv, InClose, Moved
  <2>11. ASSUME MessageInv PROVE MessageInv'
    <3>1. \A i \in 1..Len(sent') : Starts(i)'
      <4>1. PICK k \in Nat : k = Len(sent) + 1
        BY <2>6
      <4>2. ASSUME NEW i \in 1..Len(sent) PROVE Starts(i)'
        BY <2>6, <2>11, <4>2 DEF MessageInv, Starts
      <4>3. sent'[k].op = job.op /\ job.op # "close"
        BY <1>2, <2>4, <2>6, <4>1 DEF SenderJob
      <4>4. job.op = "start" <=> k = 1 \/ sent'[k - 1].fin
        BY <1>2, <2>6, <2>11, <4>1 DEF MessageInv, Continued, Ended, SenderJob
      <4>5. Starts(k)'
        BY <4>3, <4>4 DEF Starts
      <4> QED
        BY <2>6, <4>1, <4>2, <4>5
    <3>2. \A u \in Senders : u # s => ~HasLock(u)
      BY <1>2 DEF SendInv, LockInv, HasLock
    <3>3. s # Free /\ sendLock' = s
      BY <1>2, <2>1, WebSocketAssumption
    <3> QED
      BY <2>3, <2>5, <2>6, <2>11, <3>1, <3>2, <3>3 DEF MessageInv, HasLock, Continued, Moved
  <2> QED
    BY <1>1, <1>3, <2>1, <2>7, <2>8, <2>9, <2>10, <2>11 DEF SendInv
<1> QED
  BY <1>4, <1>5, <1>6

LEMMA FinishSendKeeps ==
    ASSUME SendInv, NEW s \in Senders, FinishSend(s)
    PROVE  SendInv'
<1>1. LostInv' /\ UNCHANGED <<gone, phase, clientClosed, state>>
  BY SendersKeepLost DEF SendInv, FinishSend
<1>2. /\ jobs[s].pc = "sending" /\ sendLock = s /\ sent # <<>> /\ sent \in Seq(SentFrame)
      /\ Last(sent).fin => jobs[s].end
  BY DEF SendInv, SendTypes, LockInv, HasLock, FinishSend, Last
<1>3. UNCHANGED <<readVars, used, closeCalled, sent, strays>>
  BY DEF FinishSend
<1>4. CASE Release(s) /\ nextIsStart' = jobs[s].end /\ Last(sent).fin
  <2>1. nextIsStart'
    BY <1>2, <1>4
  <2>2. Ended
    BY <1>2, <1>4 DEF Ended, Last
  <2> QED
    BY <1>2, <1>3, <1>4, <2>1, <2>2, ReleaseKeeps DEF SendInv, SendTypes
<1>5. CASE Release(s) /\ UNCHANGED nextIsStart /\ (clientClosed \/ gone \/ phase = "ended")
  <2>1. gone
    BY <1>2, <1>5, LostIsGone
  <2> QED
    BY <1>2, <1>3, <1>5, <2>1, ReleaseKeeps DEF SendInv, SendTypes
<1>6. CASE Step(s, "frame") /\ UNCHANGED <<sendLock, nextIsStart>> /\ ~Last(sent).fin
  <2>1. /\ Moved(s) /\ jobs'[s].pc = "frame"
        /\ jobs'[s].op = jobs[s].op /\ jobs'[s].end = jobs[s].end /\ jobs'[s].cut = jobs[s].cut
    BY <1>6, StepMoves DEF SendInv, SenderPoints
  <2>2. ~Ended
    BY <1>2, <1>6 DEF Ended, Last
  <2>3. SendTypes'
    BY <1>3, <1>6, <2>1 DEF SendInv, SendTypes, Moved
  <2>4. QuietInv'
    BY <1>1, <1>2, LostIsGone DEF QuietInv
  <2>5. LockInv'
    BY <1>2, <1>3, <1>6, <2>1 DEF SendInv, LockInv, HasLock, Moved
  <2>6. CloseInv'
    BY <1>2, <1>3, <2>1 DEF SendInv, CloseInv, InClose, Moved
  <2>7. ASSUME MessageInv PROVE MessageInv'
    BY <1>2, <1>3, <1>6, <2>1, <2>2, <2>7 DEF MessageInv, Starts, Ended, Continued, Moved
  <2> QED
    BY <1>1, <1>3, <1>6, <2>3, <2>4, <2>5, <2>6, <2>7 DEF SendInv
<1> QED
  BY <1>4, <1>5, <1>6 DEF FinishSend

LEMMA SendCloseKeeps ==
    ASSUME SendInv, NEW s \in Senders, SendClose(s)
    PROVE  SendInv'
<1> DEFINE f == [op |-> "close", fin |-> TRUE]
<1>1. LostInv' /\ UNCHANGED <<gone, phase, clientClosed, state>>
  BY SendersKeepLost DEF SendInv, SendClose
<1>2. jobs[s].pc = "closeSending" /\ sendLock = s /\ closeCalled
  BY DEF SendInv, LockInv, HasLock, CloseInv, InClose, SendClose
<1>3. f \in SentFrame /\ f.op = "close" /\ f.fin = TRUE
  BY DEF SentFrame
<1>4. /\ Send(f) /\ Step(s, "closeSent")
      /\ UNCHANGED <<sendLock, used, nextIsStart, closeCalled, strays>>
  BY DEF SendClose
<1> HIDE DEF f
<1>5. Moved(s) /\ jobs'[s].pc = "closeSent"
  BY <1>4, StepMoves DEF SendInv, SenderPoints
<1>6. /\ sent' \in Seq(SentFrame) /\ Len(sent') = Len(sent) + 1 /\ Len(sent) \in Nat
      /\ \A i \in 1..Len(sent) : sent'[i] = sent[i]
      /\ sent'[Len(sent')] = f /\ sent' # <<>>
  BY <1>3, <1>4, SendAppends DEF SendInv
<1>7. SendTypes'
  BY <1>4, <1>5, <1>6 DEF SendInv, SendTypes, Moved
<1>8. QuietInv'
  BY <1>1, <1>2, LostIsGone DEF QuietInv
<1>9. LockInv'
  BY <1>2, <1>4, <1>5, <1>6 DEF SendInv, LockInv, HasLock, Moved
<1>10. CloseInv'
  <2>1. \A u \in Senders : u # s => ~InClose(u)
    BY <1>2 DEF SendInv, CloseInv, InClose
  <2>2. \A i \in 1..Len(sent) : sent[i].op # "close"
    BY <1>2 DEF SendInv, CloseInv
  <2> QED
    BY <1>2, <1>4, <1>5, <1>6, <2>1, <2>2 DEF SendInv, CloseInv, InClose, Moved
<1>11. ASSUME MessageInv PROVE MessageInv'
  <2>1. PICK k \in Nat : k = Len(sent) + 1
    BY <1>6
  <2>2. \A i \in 1..Len(sent) : Starts(i)'
    BY <1>6, <1>11 DEF MessageInv, Starts
  <2>3. Starts(k)'
    BY <1>3, <1>6, <2>1 DEF Starts
  <2>4. \A i \in 1..Len(sent') : Starts(i)'
    BY <1>6, <2>1, <2>2, <2>3
  <2>5. Ended'
    BY <1>3, <1>6 DEF Ended
  <2>6. \A u \in Senders : u # s => ~HasLock(u)
    BY <1>2 DEF SendInv, LockInv, HasLock
  <2> QED
    BY <1>5, <1>11, <2>4, <2>5, <2>6 DEF MessageInv, HasLock, Moved
<1> QED
  BY <1>1, <1>4, <1>7, <1>8, <1>9, <1>10, <1>11 DEF SendInv

LEMMA FinishSendCloseKeeps ==
    ASSUME SendInv, NEW s \in Senders, FinishSendClose(s)
    PROVE  SendInv'
<1>1. LostInv' /\ UNCHANGED <<gone, phase, clientClosed, state>>
  BY SendersKeepLost DEF SendInv, FinishSendClose
<1>2. jobs[s].pc = "closeSent" /\ sendLock = s
  BY DEF SendInv, LockInv, HasLock, FinishSendClose
<1>3. UNCHANGED <<readVars, used, nextIsStart, closeCalled, sent, strays>>
  BY DEF FinishSendClose
<1>4. CASE Release(s)
  <2>1. MessageInv => Ended
    BY <1>2 DEF MessageInv
  <2> QED
    BY <1>2, <1>3, <1>4, <2>1, ReleaseKeeps DEF SendInv, SendTypes
<1>5. CASE Step(s, "closeWait") /\ UNCHANGED sendLock
  <2>1. Moved(s) /\ jobs'[s].pc = "closeWait"
    BY <1>5, StepMoves DEF SendInv, SenderPoints
  <2>2. SendTypes'
    BY <1>3, <1>5, <2>1 DEF SendInv, SendTypes, Moved
  <2>3. QuietInv'
    BY <1>1, <1>2, LostIsGone DEF QuietInv
  <2>4. LockInv'
    BY <1>2, <1>3, <1>5, <2>1 DEF SendInv, LockInv, HasLock, Moved
  <2>5. CloseInv'
    BY <1>2, <1>3, <2>1 DEF SendInv, CloseInv, InClose, Moved
  <2>6. ASSUME MessageInv PROVE MessageInv'
    BY <1>2, <1>3, <1>5, <2>1, <2>6 DEF MessageInv, Starts, Ended, Continued, Moved
  <2> QED
    BY <1>1, <1>3, <1>5, <2>2, <2>3, <2>4, <2>5, <2>6 DEF SendInv
<1> QED
  BY <1>4, <1>5 DEF FinishSendClose

LEMMA EndCloseKeeps ==
    ASSUME SendInv, NEW s \in Senders, EndClose(s)
    PROVE  SendInv'
<1>1. jobs[s].pc = "closeWait" /\ Release(s)
  BY DEF EndClose
<1>2. UNCHANGED <<readVars, used, nextIsStart, closeCalled, sent, strays>>
  BY DEF EndClose
<1>3. MessageInv => Ended
  BY <1>1 DEF MessageInv
<1> QED
  BY <1>1, <1>2, <1>3, ReleaseKeeps DEF SendInv, SendTypes

----------------------------------------------------------------------------
(* The invariant holds                                                     *)

LEMMA ReceivingKeeps ==
    ASSUME SendInv, LeavesSenders, LostInv'
    PROVE  SendInv'
<1>1. UNCHANGED <<jobs, sendLock, used, nextIsStart, closeCalled, sent>>
  BY DEF LeavesSenders
<1>2. SendTypes'
  BY <1>1 DEF SendInv, SendTypes
<1>3. QuietInv'
  BY <1>1 DEF SendInv, QuietInv, LeavesSenders
<1>4. LockInv'
  BY <1>1 DEF SendInv, LockInv, HasLock
<1>5. CloseInv'
  BY <1>1 DEF SendInv, CloseInv, InClose
<1>6. MessageInv => MessageInv'
  BY <1>1 DEF MessageInv, Starts, Ended, Continued
<1>7. ~gone' /\ "restart" \notin strays' => ~gone /\ "restart" \notin strays
  BY DEF LeavesSenders
<1> QED
  BY <1>1, <1>2, <1>3, <1>4, <1>5, <1>6, <1>7 DEF SendInv

LEMMA SendInvInit == Init => SendInv
<1> SUFFICES ASSUME Init PROVE SendInv
  OBVIOUS
<1>1. \A s \in Senders : jobs[s] = Idle
  BY DEF Init
<1>2. Idle \in SenderJob /\ Idle.pc = "idle"
  BY DEF Idle, SenderJob, SenderPoints
<1>3. SendTypes
  BY <1>2, WebSocketAssumption DEF Init, SendTypes
<1>4. LostInv
  BY DEF Init, LostInv, Points
<1>5. QuietInv /\ LockInv /\ CloseInv /\ nextIsStart
  BY <1>1, <1>2 DEF Init, QuietInv, LockInv, HasLock, CloseInv, InClose
<1>6. MessageInv
  BY <1>1, <1>2 DEF Init, MessageInv, Ended
<1> QED
  BY <1>3, <1>4, <1>5, <1>6 DEF SendInv

LEMMA SendInvStep == SendInv /\ [Next]_vars => SendInv'
<1> SUFFICES ASSUME SendInv, [Next]_vars PROVE SendInv'
  OBVIOUS
<1>1. \/ LeavesSenders /\ LostInv'
      \/ \E s \in Senders :
            \/ Work(s) \/ CloseAsync(s)
            \/ \E n \in Sizes, end \in BOOLEAN : SendAsync(s, n, end)
  BY ReceivingStep DEF SendInv
<1>2. ASSUME NEW s \in Senders, Work(s) PROVE SendInv'
  BY <1>2, AcquireKeeps, SendFrameKeeps, FinishSendKeeps, SendCloseKeeps, FinishSendCloseKeeps,
     EndCloseKeeps DEF Work
<1> QED
  BY <1>1, <1>2, ReceivingKeeps, CloseAsyncKeeps, SendAsyncKeeps

LEMMA SendInvHolds == Spec => []SendInv
  BY SendInvInit, SendInvStep, PTL DEF Spec

(* What the client gets is messages of one first frame, continuations and   *)
(* a last one, whoever sends meanwhile and however a part is cut            *)
(* (OwinHandler 368-421), and nothing behind the close frame (439-487).     *)
THEOREM SendsWellFormed == Spec => []WellFormed
<1>1. SendInv => WellFormed
  <2> SUFFICES ASSUME SendInv PROVE WellFormed
    OBVIOUS
  <2>1. DOMAIN sent = 1..Len(sent)
    BY DEF SendInv, SendTypes
  <2>2. \A i \in DOMAIN sent : sent[i].op = "close" => i = Len(sent)
    <3>1. \A i \in 1..Len(sent) : sent[i].op = "close" => i = Len(sent)
      BY DEF SendInv, CloseInv
    <3> QED
      BY <2>1, <3>1, Zenon
  <2>3. ASSUME "restart" \notin strays, ~gone, NEW i \in DOMAIN sent
        PROVE  sent[i].op = "start" <=> sent[i].op # "close" /\ (i = 1 \/ sent[i - 1].fin)
    <3>1. MessageInv
      BY <2>3 DEF SendInv
    <3>2. Starts(i)
      BY <2>1, <2>3, <3>1 DEF MessageInv
    <3> QED
      BY <3>2 DEF Starts
  <2> QED
    BY <2>2, <2>3 DEF WellFormed
<1> QED
  BY <1>1, SendInvHolds, PTL

(* The buffer and the connection are one sender's at a time: whoever has    *)
(* sent a frame, or is about to, holds the send lock (SendAsync 375,        *)
(* CloseAsync 447).                                                         *)
OneSends == \A s, u \in Senders : HasLock(s) /\ HasLock(u) => s = u

THEOREM OneSendsAlways == Spec => []OneSends
<1>1. SendInv => OneSends
  BY DEF SendInv, LockInv, OneSends
<1> QED
  BY <1>1, SendInvHolds, PTL

(* _webSocketNextSendIsStartOfMessage is never reset: the assignment after  *)
(* the last frame of a call is reached with endOfMessage only (OwinHandler  *)
(* 392-414), so that every call of SendAsync begins with a first frame.     *)
THEOREM EverySendStarts == Spec => []nextIsStart
<1>1. SendInv => nextIsStart
  BY DEF SendInv
<1> QED
  BY <1>1, SendInvHolds, PTL
----------------------------------------------------------------------------
(* The receiving half: who parses, and who is owed an answer                *)

(* A thread that goes on to a receive, or to the data that is there.        *)
WantsData(t) == at[t] \in {"check", "parse", "last", "start", "finish"}

ReadInv ==
    /\ at \in [Threads -> Points]
    /\ tcs \in {"none", "pending", "cancelled"}
    /\ state \in {"Header", "Body", "Closing", "Close", "Error"}
    /\ tcs = "pending" => at[App] # "receive"
    /\ tcs = "cancelled" \/ state = "Close" => clientClosed
    /\ clientClosed => Lost
    /\ \A t \in Threads : /\ at[t] = "tell" => clientClosed
                          /\ at[t] \in {"fail", "tell"} => Lost

OneParses ==
    /\ \A t, u \in Threads : Parsing(t) /\ Parsing(u) => t = u
    /\ receiving \/ clientClosed => have = 0
    /\ \A t \in Threads : /\ at[t] = "fail" => have = 0
                          /\ at[t] = "parse" => have # 0 /\ tcs # "none"
    /\ state = "Closing" => tcs # "pending" /\ at[App] # "receive"

Demand ==
    /\ clientClosed /\ started => \E t \in Threads : at[t] \in {"flagged", "tell"}
    /\ webReceiving => started \/ \E t \in Threads : at[t] = "finish"
    /\ tcs = "pending" => started \/ \E t \in Threads : WantsData(t)

ReceiveInv ==
    /\ ReadInv
    /\ "overlap" \notin strays => OneParses
    /\ strays = {} => Demand

(* A return leads out, or back into the loop of ProcessReceive.             *)
LEMMA ReturnGoes ==
    ASSUME NEW t, Return(t)
    PROVE  \E p \in {"out", "enter"} : at' = [at EXCEPT ![t] = p]
  BY DEF Return, Goto

(* Each step of a thread keeps the invariant of the receiving half.         *)
LEMMA CheckKeepsReceive ==
    ASSUME ReceiveInv, NEW t \in Threads, Check(t) PROVE ReceiveInv'
<1> USE DEF clientVars, transportVars, frameVars, sendVars
<1>1. UNCHANGED <<gone, phase, receiving, have, started, clientClosed, state, webReceiving, tcs>>
  BY DEF Check
<1>2. at[t] = "check" /\ strays \subseteq strays'
  BY DEF Check
<1>3. \E p \in {"start", "parse", "out", "enter"} :
        /\ at' = [at EXCEPT ![t] = p]
        /\ p = "start" => have = 0
        /\ p = "parse" => /\ have # 0 /\ tcs # "none"
                          /\ "overlap" \notin strays' => \A u \in Threads \ {t} : ~Parsing(u)
        /\ p \in {"out", "enter"} => tcs = "none"
  BY ReturnGoes DEF Check, Goto
<1>4. ReadInv'
  BY <1>1, <1>2, <1>3 DEF ReceiveInv, ReadInv, Lost, Points, Threads
<1>5. ASSUME OneParses, "overlap" \notin strays' PROVE OneParses'
  BY <1>1, <1>2, <1>3, <1>5 DEF ReceiveInv, ReadInv, OneParses, Parsing, Threads
<1>6. ASSUME OneParses, Demand, strays' = {} PROVE Demand'
  BY <1>1, <1>2, <1>3, <1>6 DEF ReceiveInv, ReadInv, OneParses, Demand, WantsData, Threads
<1> QED
  BY <1>2, <1>4, <1>5, <1>6 DEF ReceiveInv

LEMMA AfterFrameKeepsReceive ==
    ASSUME ReceiveInv, NEW t \in Threads, AfterFrame(t) PROVE ReceiveInv'
<1> USE DEF clientVars, transportVars, frameVars, sendVars
<1>1. UNCHANGED <<gone, phase, receiving, have, started, clientClosed, webReceiving, tcs>>
  BY DEF AfterFrame
<1>2. at[t] = "header" /\ strays \subseteq strays'
  BY DEF AfterFrame
<1>3. at' = [at EXCEPT ![t] = "last"] /\ state' = "Header"
  BY DEF AfterFrame, Goto
<1>4. ReadInv'
  BY <1>1, <1>2, <1>3 DEF ReceiveInv, ReadInv, Lost, Points, Threads
<1>5. ASSUME OneParses, "overlap" \notin strays' PROVE OneParses'
  BY <1>1, <1>2, <1>3, <1>5 DEF ReceiveInv, ReadInv, OneParses, Parsing, Threads
<1>6. ASSUME OneParses, Demand, strays' = {} PROVE Demand'
  BY <1>1, <1>2, <1>3, <1>6 DEF ReceiveInv, ReadInv, OneParses, Demand, WantsData, Threads
<1> QED
  BY <1>2, <1>4, <1>5, <1>6 DEF ReceiveInv

LEMMA AfterDataKeepsReceive ==
    ASSUME ReceiveInv, NEW t \in Threads, AfterData(t) PROVE ReceiveInv'
<1> USE DEF clientVars, transportVars, frameVars, sendVars
<1>1. UNCHANGED <<gone, phase, receiving, have, started, clientClosed, state, webReceiving, tcs>>
  BY DEF AfterData
<1>2. at[t] = "last" /\ strays \subseteq strays'
  BY DEF AfterData
<1>3. \E p \in {"start", "out", "enter"} :
        /\ at' = [at EXCEPT ![t] = p]
        /\ strays' = {} /\ tcs = "pending" => p = "start"
  BY ReturnGoes DEF AfterData, Goto
<1>4. ReadInv'
  BY <1>1, <1>2, <1>3 DEF ReceiveInv, ReadInv, Lost, Points, Threads
<1>5. ASSUME OneParses, "overlap" \notin strays' PROVE OneParses'
  BY <1>1, <1>2, <1>3, <1>5 DEF ReceiveInv, ReadInv, OneParses, Parsing, Threads
<1>6. ASSUME OneParses, Demand, strays' = {} PROVE Demand'
  BY <1>1, <1>2, <1>3, <1>6 DEF ReceiveInv, ReadInv, OneParses, Demand, WantsData, Threads
<1> QED
  BY <1>2, <1>4, <1>5, <1>6 DEF ReceiveInv

LEMMA AfterCloseKeepsReceive ==
    ASSUME ReceiveInv, NEW t \in Threads, AfterClose(t) PROVE ReceiveInv'
<1> USE DEF clientVars, transportVars, frameVars, sendVars
<1>1. UNCHANGED <<gone, phase, receiving, have, started, clientClosed, state, webReceiving, tcs>>
  BY DEF AfterClose
<1>2. at[t] = "closing" /\ strays \subseteq strays'
  BY DEF AfterClose
<1>3. \E p \in {"out", "enter"} :
        /\ at' = [at EXCEPT ![t] = p]
  BY ReturnGoes DEF AfterClose, Goto
<1>4. ReadInv'
  BY <1>1, <1>2, <1>3 DEF ReceiveInv, ReadInv, Lost, Points, Threads
<1>5. ASSUME OneParses, "overlap" \notin strays' PROVE OneParses'
  BY <1>1, <1>2, <1>3, <1>5 DEF ReceiveInv, ReadInv, OneParses, Parsing, Threads
<1>6. ASSUME OneParses, Demand, strays' = {} PROVE Demand'
  BY <1>1, <1>2, <1>3, <1>6 DEF ReceiveInv, ReadInv, OneParses, Demand, WantsData, Threads
<1> QED
  BY <1>2, <1>4, <1>5, <1>6 DEF ReceiveInv

LEMMA StartReceiveDataKeepsReceive ==
    ASSUME ReceiveInv, NEW t \in Threads, StartReceiveData(t) PROVE ReceiveInv'
<1> USE DEF clientVars, transportVars, frameVars, sendVars
<1>1. UNCHANGED <<gone, phase, receiving, have, clientClosed, state, tcs>>
  BY DEF StartReceiveData
<1>2. at[t] = "start" /\ strays \subseteq strays'
  BY DEF StartReceiveData
<1>3. \/ \E p \in {"out", "enter"} :
           /\ at' = [at EXCEPT ![t] = p]
           /\ webReceiving /\ UNCHANGED <<webReceiving, started>>
      \/ at' = [at EXCEPT ![t] = "flagged"] /\ started' /\ webReceiving'
  BY ReturnGoes DEF StartReceiveData, Goto
<1>4. ReadInv'
  BY <1>1, <1>2, <1>3 DEF ReceiveInv, ReadInv, Lost, Points, Threads
<1>5. ASSUME OneParses, "overlap" \notin strays' PROVE OneParses'
  BY <1>1, <1>2, <1>3, <1>5 DEF ReceiveInv, ReadInv, OneParses, Parsing, Threads
<1>6. ASSUME OneParses, Demand, strays' = {} PROVE Demand'
  BY <1>1, <1>2, <1>3, <1>6 DEF ReceiveInv, ReadInv, OneParses, Demand, WantsData, Threads
<1> QED
  BY <1>2, <1>4, <1>5, <1>6 DEF ReceiveInv

LEMMA StartNextReceiveKeepsReceive ==
    ASSUME ReceiveInv, NEW t \in Threads, StartNextReceive(t) PROVE ReceiveInv'
<1> USE DEF clientVars, transportVars, frameVars, sendVars
<1>1. UNCHANGED <<gone, phase, receiving, have, started, clientClosed, state, webReceiving, tcs>>
  BY DEF StartNextReceive
<1>2. at[t] = "flagged" /\ strays \subseteq strays'
  BY DEF StartNextReceive
<1>3. \E p \in {"out", "enter"} :
        /\ at' = [at EXCEPT ![t] = p]
        /\ strays' = {} => ~clientClosed
  BY ReturnGoes DEF StartNextReceive, Goto
<1>4. ReadInv'
  BY <1>1, <1>2, <1>3 DEF ReceiveInv, ReadInv, Lost, Points, Threads
<1>5. ASSUME OneParses, "overlap" \notin strays' PROVE OneParses'
  BY <1>1, <1>2, <1>3, <1>5 DEF ReceiveInv, ReadInv, OneParses, Parsing, Threads
<1>6. ASSUME OneParses, Demand, strays' = {} PROVE Demand'
  BY <1>1, <1>2, <1>3, <1>6 DEF ReceiveInv, ReadInv, OneParses, Demand, WantsData, Threads
<1> QED
  BY <1>2, <1>4, <1>5, <1>6 DEF ReceiveInv

LEMMA FinishReceiveDataKeepsReceive ==
    ASSUME ReceiveInv, NEW t \in Threads, FinishReceiveData(t) PROVE ReceiveInv'
<1> USE DEF clientVars, transportVars, frameVars, sendVars
<1>1. UNCHANGED <<gone, phase, receiving, have, started, clientClosed, state, tcs>>
  BY DEF FinishReceiveData
<1>2. at[t] = "finish" /\ strays \subseteq strays'
  BY DEF FinishReceiveData
<1>3. at' = [at EXCEPT ![t] = "check"] /\ webReceiving' = FALSE
  BY DEF FinishReceiveData, Goto
<1>4. ReadInv'
  BY <1>1, <1>2, <1>3 DEF ReceiveInv, ReadInv, Lost, Points, Threads
<1>5. ASSUME OneParses, "overlap" \notin strays' PROVE OneParses'
  BY <1>1, <1>2, <1>3, <1>5 DEF ReceiveInv, ReadInv, OneParses, Parsing, Threads
<1>6. ASSUME OneParses, Demand, strays' = {} PROVE Demand'
  BY <1>1, <1>2, <1>3, <1>6 DEF ReceiveInv, ReadInv, OneParses, Demand, WantsData, Threads
<1> QED
  BY <1>2, <1>4, <1>5, <1>6 DEF ReceiveInv

LEMMA EnterKeepsReceive ==
    ASSUME ReceiveInv, NEW t \in Threads, Enter(t) PROVE ReceiveInv'
<1> USE DEF clientVars, transportVars, frameVars, sendVars
<1>1. UNCHANGED <<gone, phase, have, clientClosed, state, webReceiving, tcs>>
  BY DEF Enter, ProcessReceive
<1>2. at[t] = "enter" /\ strays \subseteq strays'
  BY DEF Enter
<1>3. \/ /\ at' = [at EXCEPT ![t] = "finish"] /\ started' = FALSE
         /\ receiving' = receiving
      \/ \E p \in {"out", "enter"} :
            /\ at' = [at EXCEPT ![t] = p] /\ UNCHANGED started
            /\ (receiving' => receiving \/ have = 0)
  BY ReturnGoes DEF Enter, Goto, ProcessReceive
<1>4. ReadInv'
  BY <1>1, <1>2, <1>3 DEF ReceiveInv, ReadInv, Lost, Points, Threads
<1>5. ASSUME OneParses, "overlap" \notin strays' PROVE OneParses'
  BY <1>1, <1>2, <1>3, <1>5 DEF ReceiveInv, ReadInv, OneParses, Parsing, Threads
<1>6. ASSUME OneParses, Demand, strays' = {} PROVE Demand'
  BY <1>1, <1>2, <1>3, <1>6 DEF ReceiveInv, ReadInv, OneParses, Demand, WantsData, Threads
<1> QED
  BY <1>2, <1>4, <1>5, <1>6 DEF ReceiveInv

LEMMA SetClientClosedKeepsReceive ==
    ASSUME ReceiveInv, NEW t \in Threads, SetClientClosed(t) PROVE ReceiveInv'
<1> USE DEF clientVars, transportVars, frameVars, sendVars
<1>1. UNCHANGED <<gone, phase, receiving, have, started, state, webReceiving, tcs>>
  BY DEF SetClientClosed
<1>2. at[t] = "fail" /\ strays \subseteq strays'
  BY DEF SetClientClosed
<1>3. at' = [at EXCEPT ![t] = "tell"] /\ clientClosed' = TRUE
  BY DEF SetClientClosed, Goto
<1>4. ReadInv'
  BY <1>1, <1>2, <1>3 DEF ReceiveInv, ReadInv, Lost, Points, Threads
<1>5. ASSUME OneParses, "overlap" \notin strays' PROVE OneParses'
  BY <1>1, <1>2, <1>3, <1>5 DEF ReceiveInv, ReadInv, OneParses, Parsing, Threads
<1>6. ASSUME OneParses, Demand, strays' = {} PROVE Demand'
  BY <1>1, <1>2, <1>3, <1>6 DEF ReceiveInv, ReadInv, OneParses, Demand, WantsData, Threads
<1> QED
  BY <1>2, <1>4, <1>5, <1>6 DEF ReceiveInv

LEMMA TellReaderKeepsReceive ==
    ASSUME ReceiveInv, NEW t \in Threads, TellReader(t) PROVE ReceiveInv'
<1> USE DEF clientVars, transportVars, frameVars, sendVars
<1>1. UNCHANGED <<gone, phase, receiving, have, clientClosed>>
  BY DEF TellReader, Cancel
<1>2. at[t] = "tell" /\ strays \subseteq strays'
  BY DEF TellReader
<1>3. /\ at' = [at EXCEPT ![t] = "out"] /\ started' = FALSE
      /\ \/ /\ started /\ webReceiving' = FALSE /\ state' = "Close"
            /\ tcs' = IF tcs = "pending" THEN "cancelled" ELSE tcs
         \/ ~started /\ UNCHANGED <<webReceiving, state, tcs>>
  BY DEF TellReader, Goto, Cancel
<1>4. ReadInv'
  BY <1>1, <1>2, <1>3 DEF ReceiveInv, ReadInv, Lost, Points, Threads
<1>5. ASSUME OneParses, "overlap" \notin strays' PROVE OneParses'
  BY <1>1, <1>2, <1>3, <1>5 DEF ReceiveInv, ReadInv, OneParses, Parsing, Threads
<1>6. ASSUME OneParses, Demand, strays' = {} PROVE Demand'
  BY <1>1, <1>2, <1>3, <1>6 DEF ReceiveInv, ReadInv, OneParses, Demand, WantsData, Threads
<1> QED
  BY <1>2, <1>4, <1>5, <1>6 DEF ReceiveInv

LEMMA FinishReceiveKeepsReceive ==
    ASSUME ReceiveInv, NEW t \in Threads, NEW n \in 1..BufferSize, FinishReceive(t, n) PROVE ReceiveInv'
<1> USE DEF clientVars, transportVars, frameVars, sendVars
<1>1. UNCHANGED <<gone, phase, clientClosed, state, webReceiving, tcs>>
  BY DEF FinishReceive, ProcessReceive
<1>2. at[t] = "out" /\ receiving /\ ~Lost /\ strays \subseteq strays'
  BY DEF FinishReceive, Lost
<1>3. \/ /\ at' = [at EXCEPT ![t] = "finish"] /\ started' = FALSE
         /\ receiving' = FALSE
      \/ \E p \in {"out", "enter"} :
            /\ at' = [at EXCEPT ![t] = p] /\ UNCHANGED started
            /\ (receiving' => have' = 0)
  BY ReturnGoes DEF FinishReceive, Goto, ProcessReceive
<1>4. ReadInv'
  BY <1>1, <1>2, <1>3 DEF ReceiveInv, ReadInv, Lost, Points, Threads
<1>5. ASSUME OneParses, "overlap" \notin strays' PROVE OneParses'
  BY <1>1, <1>2, <1>3, <1>5 DEF ReceiveInv, ReadInv, OneParses, Parsing, Threads
<1>6. ASSUME OneParses, Demand, strays' = {} PROVE Demand'
  BY <1>1, <1>2, <1>3, <1>6 DEF ReceiveInv, ReadInv, OneParses, Demand, WantsData, Threads
<1> QED
  BY <1>2, <1>4, <1>5, <1>6 DEF ReceiveInv

LEMMA FinishReceiveFailedKeepsReceive ==
    ASSUME ReceiveInv, NEW t \in Threads, FinishReceiveFailed(t) PROVE ReceiveInv'
<1> USE DEF clientVars, transportVars, frameVars, sendVars
<1>1. UNCHANGED <<gone, phase, have, started, clientClosed, state, webReceiving, tcs>>
  BY DEF FinishReceiveFailed
<1>2. at[t] = "out" /\ receiving /\ Lost /\ strays \subseteq strays'
  BY DEF FinishReceiveFailed, Lost
<1>3. at' = [at EXCEPT ![t] = "fail"] /\ receiving' = FALSE
  BY DEF FinishReceiveFailed, Goto
<1>4. ReadInv'
  BY <1>1, <1>2, <1>3 DEF ReceiveInv, ReadInv, Lost, Points, Threads
<1>5. ASSUME OneParses, "overlap" \notin strays' PROVE OneParses'
  BY <1>1, <1>2, <1>3, <1>5 DEF ReceiveInv, ReadInv, OneParses, Parsing, Threads
<1>6. ASSUME OneParses, Demand, strays' = {} PROVE Demand'
  BY <1>1, <1>2, <1>3, <1>6 DEF ReceiveInv, ReadInv, OneParses, Demand, WantsData, Threads
<1> QED
  BY <1>2, <1>4, <1>5, <1>6 DEF ReceiveInv

LEMMA RegisterKeepsReceive ==
    ASSUME ReceiveInv, Register PROVE ReceiveInv'
<1> USE DEF clientVars, transportVars, frameVars, sendVars
<1>1. UNCHANGED <<gone, phase, receiving, have, started, clientClosed, state, webReceiving>>
  BY DEF Register
<1>2. at[App] = "receive" /\ strays \subseteq strays'
  BY DEF Register
<1>3. at' = [at EXCEPT ![App] = "check"] /\ tcs' = "pending"
  BY DEF Register, Goto
<1>4. ReadInv'
  BY <1>1, <1>2, <1>3 DEF ReceiveInv, ReadInv, Lost, Points, Threads
<1>5. ASSUME OneParses, "overlap" \notin strays' PROVE OneParses'
  BY <1>1, <1>2, <1>3, <1>5 DEF ReceiveInv, ReadInv, OneParses, Parsing, Threads
<1>6. ASSUME OneParses, Demand, strays' = {} PROVE Demand'
  BY <1>1, <1>2, <1>3, <1>6 DEF ReceiveInv, ReadInv, OneParses, Demand, WantsData, Threads
<1> QED
  BY <1>2, <1>4, <1>5, <1>6 DEF ReceiveInv

LEMMA ReceiveAsyncKeepsReceive ==
    ASSUME ReceiveInv, NEW n \in Segments, ReceiveAsync(n) PROVE ReceiveInv'
<1> USE DEF clientVars, transportVars, frameVars, sendVars
<1>1. UNCHANGED <<gone, phase, receiving, have, started, clientClosed, state, webReceiving, tcs>>
  BY DEF ReceiveAsync
<1>2. at[App] = "out" /\ tcs # "pending" /\ state \notin {"Close", "Closing"} /\ strays \subseteq strays'
  BY DEF ReceiveAsync
<1>3. at' = [at EXCEPT ![App] = "receive"]
  BY DEF ReceiveAsync, Goto
<1>4. ReadInv'
  BY <1>1, <1>2, <1>3 DEF ReceiveInv, ReadInv, Lost, Points, Threads
<1>5. ASSUME OneParses, "overlap" \notin strays' PROVE OneParses'
  BY <1>1, <1>2, <1>3, <1>5 DEF ReceiveInv, ReadInv, OneParses, Parsing, Threads
<1>6. ASSUME OneParses, Demand, strays' = {} PROVE Demand'
  BY <1>1, <1>2, <1>3, <1>6 DEF ReceiveInv, ReadInv, OneParses, Demand, WantsData, Threads
<1> QED
  BY <1>2, <1>4, <1>5, <1>6 DEF ReceiveInv

(* What a parse does to a call of ReceiveAsync, and where it leads.           *)
LEMMA ParseEffect ==
    ASSUME NEW t \in Threads, Parse(t), state \in {"Header", "Body", "Closing", "Close", "Error"}
    PROVE  \E p \in {"header", "last", "start", "closing", "out", "enter"} :
              /\ at' = [at EXCEPT ![t] = p]
              /\ strays \subseteq strays'
              /\ state' \in {state, "Body", "Closing", "Error"}
              /\ tcs' \in {tcs, "none"}
              /\ state' = "Closing" => state = "Closing" \/ tcs' # "pending"
              /\ tcs' = "pending" /\ strays' = {} =>
                   p \in {"last", "start"} \/ state \in {"Closing", "Close"}
<1> DEFINE Good ==
       \E p \in {"header", "last", "start", "closing", "out", "enter"} :
          /\ at' = [at EXCEPT ![t] = p]
          /\ strays \subseteq strays'
          /\ state' \in {state, "Body", "Closing", "Error"}
          /\ tcs' \in {tcs, "none"}
          /\ state' = "Closing" => state = "Closing" \/ tcs' # "pending"
          /\ tcs' = "pending" /\ strays' = {} =>
               p \in {"last", "start"} \/ state \in {"Closing", "Close"}
<1>1. ASSUME ParseError(t) PROVE Good
  BY <1>1, ReturnGoes DEF ParseError
<1>2. ASSUME ParseMore(t) PROVE Good
  BY <1>2, ReturnGoes DEF ParseMore
<1>3. ASSUME NEW f, NEW p, NEW data, ParseBody(t, f, p, data) PROVE Good
  <2>1. CASE f.op = "close"
    <3>1. CloseFrame(t, f, p, data)
      BY <1>3, <2>1 DEF ParseBody
    <3>2. CASE data < f.len
      BY <3>1, <3>2 DEF CloseFrame, Goto
    <3>3. CASE ~(data < f.len)
      BY <3>1, <3>3 DEF CloseFrame, Goto, Complete
    <3> QED
      BY <3>2, <3>3
  <2>2. CASE f.op # "close"
    <3>1. DataFrame(t, f, p, data)
      BY <1>3, <2>2 DEF ParseBody
    <3>2. \/ Goto(t, "header") /\ tcs' = "none"
          \/ Goto(t, "header") /\ tcs' = tcs /\ tcs # "pending"
          \/ Goto(t, "last") /\ tcs' \in {tcs, "none"}
      BY <3>1 DEF DataFrame, Complete
    <3>3. state' = "Body" /\ UNCHANGED strays
      BY <3>1 DEF DataFrame
    <3> QED
      BY <3>2, <3>3 DEF Goto
  <2> QED
    BY <2>1, <2>2
<1>4. CASE state = "Header"
  <2>1. PICK f : \/ ParseError(t) \/ ParseMore(t)
                 \/ ParseBody(t, f, taken + HeaderSize, have - HeaderSize)
    BY <1>4 DEF Parse
  <2> QED
    BY <1>1, <1>2, <1>3, <2>1
<1>5. CASE state = "Body"
  BY <1>3, <1>5 DEF Parse
<1>6. CASE state = "Error"
  BY <1>1, <1>6 DEF Parse
<1>7. CASE state \in {"Closing", "Close"}
  BY <1>7, ReturnGoes DEF Parse
<1> QED
  BY <1>4, <1>5, <1>6, <1>7

LEMMA ParseKeepsReceive ==
    ASSUME ReceiveInv, NEW t \in Threads, Parse(t) PROVE ReceiveInv'
<1>1. UNCHANGED <<gone, phase, receiving, started, clientClosed, webReceiving>>
  BY DEF Parse
<1>2. at[t] = "parse"
  BY DEF Parse
<1>3. PICK p \in {"header", "last", "start", "closing", "out", "enter"} :
              /\ at' = [at EXCEPT ![t] = p]
              /\ strays \subseteq strays'
              /\ state' \in {state, "Body", "Closing", "Error"}
              /\ tcs' \in {tcs, "none"}
              /\ state' = "Closing" => state = "Closing" \/ tcs' # "pending"
              /\ tcs' = "pending" /\ strays' = {} =>
                   p \in {"last", "start"} \/ state \in {"Closing", "Close"}
  BY ParseEffect DEF ReceiveInv, ReadInv
<1>4. ReadInv'
  BY <1>1, <1>2, <1>3 DEF ReceiveInv, ReadInv, Lost, Points, Threads
<1>5. ASSUME OneParses, "overlap" \notin strays' PROVE OneParses'
  <2>1. ~clientClosed /\ tcs = "pending" /\ at[App] # "receive"
    BY <1>2, <1>5 DEF ReceiveInv, ReadInv, OneParses
  <2> QED
    BY <1>1, <1>2, <1>3, <1>5, <2>1 DEF ReceiveInv, ReadInv, OneParses, Parsing, Threads
<1>6. ASSUME OneParses, Demand, strays' = {} PROVE Demand'
  <2>1. ~clientClosed /\ state \notin {"Closing", "Close"}
    BY <1>2, <1>6 DEF ReceiveInv, ReadInv, OneParses
  <2> QED
    BY <1>1, <1>2, <1>3, <1>6, <2>1 DEF Demand, WantsData, ReceiveInv, ReadInv
<1> QED
  BY <1>3, <1>4, <1>5, <1>6 DEF ReceiveInv

(* The senders' steps do not touch it.                                      *)
LEMMA SenderKeepsReceive ==
    ASSUME ReceiveInv, UNCHANGED readVars, strays \subseteq strays'
    PROVE  ReceiveInv'
  BY DEF ReceiveInv, ReadInv, OneParses, Demand, WantsData, Parsing, Lost, readVars, clientVars,
         transportVars, threadVars

(* The invariant of the receiving half, from the start.                     *)
LEMMA ReceiveInvInit == Init => ReceiveInv
  BY DEF Init, ReceiveInv, ReadInv, OneParses, Demand, WantsData, Parsing, Lost, Points, Threads

LEMMA ReceiveInvStep == ReceiveInv /\ [Next]_vars => ReceiveInv'
<1> SUFFICES ASSUME ReceiveInv, [Next]_vars PROVE ReceiveInv'
  OBVIOUS
<1>1. ASSUME NEW t \in Threads, Run(t) PROVE ReceiveInv'
  BY <1>1, CheckKeepsReceive, ParseKeepsReceive, AfterFrameKeepsReceive, AfterDataKeepsReceive,
     AfterCloseKeepsReceive, StartReceiveDataKeepsReceive, StartNextReceiveKeepsReceive,
     EnterKeepsReceive, FinishReceiveDataKeepsReceive, SetClientClosedKeepsReceive,
     TellReaderKeepsReceive DEF Run
<1>2. ASSUME Transport PROVE ReceiveInv'
  <2>1. AnIdle \subseteq Threads
    BY DEF AnIdle, IdleReceivers, Threads
  <2>2. ASSUME FinishUpgrade PROVE ReceiveInv'
    BY <2>2 DEF FinishUpgrade, ReceiveInv, ReadInv, OneParses, Demand, WantsData, Parsing, Lost,
                clientVars, transportVars, threadVars
  <2> QED
    BY <1>2, <2>1, <2>2, FinishReceiveFailedKeepsReceive, FinishReceiveKeepsReceive DEF Transport
<1>3. ASSUME NEW s \in Senders, Work(s) PROVE ReceiveInv'
  <2>1. UNCHANGED readVars /\ strays \subseteq strays'
    BY <1>3 DEF Work, Acquire, SendFrame, FinishSend, SendClose, FinishSendClose, EndClose
  <2> QED
    BY <2>1, SenderKeepsReceive
<1>4. ASSUME NEW s \in Senders, CloseAsync(s) PROVE ReceiveInv'
  BY <1>4, SenderKeepsReceive DEF CloseAsync
<1>5. ASSUME NEW s \in Senders, NEW n \in Sizes, NEW end \in BOOLEAN, SendAsync(s, n, end)
      PROVE  ReceiveInv'
  BY <1>5, SenderKeepsReceive DEF SendAsync
<1>6. ASSUME AppEnds \/ ClientCloses PROVE ReceiveInv'
  BY <1>6 DEF AppEnds, ClientCloses, ReceiveInv, ReadInv, OneParses, Demand, WantsData, Parsing, Lost,
              clientVars, transportVars, threadVars
<1>7. CASE UNCHANGED vars
  BY <1>7 DEF vars, ReceiveInv, ReadInv, OneParses, Demand, WantsData, Parsing, Lost,
              clientVars, transportVars, threadVars
<1>8. CASE Next
  BY <1>8, <1>1, <1>2, <1>3, <1>4, <1>5, <1>6, RegisterKeepsReceive, ReceiveAsyncKeepsReceive DEF Next
<1> QED
  BY <1>7, <1>8

LEMMA ReceiveInvHolds == Spec => []ReceiveInv
  BY ReceiveInvInit, ReceiveInvStep, PTL DEF Spec

(* When the connection of a web socket is over and its threads are done, its *)
(* slot is clean: no demand for data is left, no receive is marked as begun *)
(* and no ReceiveAsync waits (FinishReceive 1025-1029, FinishReceiveData    *)
(* 355-366); as long as none of the accidents of strays has happened.       *)
THEOREM SocketIsLeftClean == Spec => []LeftClean
<1>1. ReceiveInv => LeftClean
  BY DEF ReceiveInv, Demand, WantsData, LeftClean, Over
<1> QED
  BY <1>1, ReceiveInvHolds, PTL

----------------------------------------------------------------------------
(* FlattenSeq: sequences one behind the other.  Induction over naturals is  *)
(* taken over sets, WFMin of WellFoundedInduction: see SetInduction.        *)

(* The order of the naturals is well-founded.                               *)
LEMMA NatLess == IsWellFoundedOn({p \in Nat \X Nat : p[1] < p[2]}, Nat)
  BY NatLessThanWellFounded DEF OpToRel

(* A set of naturals has a smallest member.                                 *)
LEMMA Smallest ==
    ASSUME NEW T, T \subseteq Nat, T # {}
    PROVE  \E m \in T : \A n \in T : m <= n
<1> DEFINE R == {p \in Nat \X Nat : p[1] < p[2]}
<1>1. IsWellFoundedOn(R, Nat)
  BY NatLess
<1> HIDE DEF R
<1>2. PICK m \in T : \A n \in T : ~(<<n, m>> \in R)
  BY <1>1, WFMin
<1>3. ASSUME NEW n \in T PROVE m <= n
  <2>1. n \in Nat /\ m \in Nat
    BY <1>2
  <2>2. n < m => <<n, m>> \in R
    BY <2>1 DEF R
  <2> QED
    BY <1>2, <2>1, <2>2
<1> QED
  BY <1>3

(* Induction, over a set in the place of a predicate.                       *)
LEMMA SetInduction ==
    ASSUME NEW T, 0 \in T, \A n \in Nat : n \in T => n + 1 \in T
    PROVE  \A n \in Nat : n \in T
<1> DEFINE M == {n \in Nat : n \notin T}
<1>1. ASSUME M # {} PROVE FALSE
  <2>1. PICK m \in M : \A n \in M : m <= n
    BY <1>1, Smallest
  <2>2. m # 0 /\ m - 1 \in Nat /\ m - 1 \notin M
    BY <2>1
  <2> QED
    BY <2>1, <2>2
<1> QED
  BY <1>1

(* What FlattenSeq computes.                                                *)
Flattens(f, s) == f = [i \in 1..Len(s) |-> IF i = 1 THEN s[i] ELSE f[i - 1] \o s[i]]

(* There is such a function, of every sequence of sequences.                *)
LEMMA FlattensExists ==
    ASSUME NEW S, NEW s \in Seq(Seq(S))
    PROVE  \E f : Flattens(f, s)
<1> DEFINE Upto(f, m) == f = [i \in 1..m |-> IF i = 1 THEN s[i] ELSE f[i - 1] \o s[i]]
           T == {m \in Nat : \E f : Upto(f, m)}
<1>1. 0 \in T
  <2>1. Upto(<<>>, 0)
    OBVIOUS
  <2> QED
    BY <2>1
<1>2. ASSUME NEW m \in Nat, m \in T PROVE m + 1 \in T
  <2>1. PICK f : Upto(f, m)
    BY <1>2
  <2> DEFINE g == [i \in 1..(m + 1) |-> IF i = 1 THEN s[i]
                                        ELSE IF i <= m THEN f[i] ELSE f[m] \o s[i]]
  <2>2. ASSUME NEW i \in 1..(m + 1) PROVE g[i] = IF i = 1 THEN s[i] ELSE g[i - 1] \o s[i]
    <3>1. CASE i = 1
      BY <3>1
    <3>2. CASE i # 1 /\ i <= m
      <4>1. i \in 1..m /\ i - 1 \in 1..m
        BY <3>2
      <4>2. f[i] = f[i - 1] \o s[i]
        BY <2>1, <3>2, <4>1
      <4>3. g[i - 1] = f[i - 1]
        <5>1. CASE i - 1 = 1
          <6>1. f[1] = s[1]
            BY <2>1, <4>1, <5>1
          <6> QED
            BY <4>1, <5>1, <6>1
        <5>2. CASE i - 1 # 1
          BY <4>1, <5>2
        <5> QED
          BY <5>1, <5>2
      <4> QED
        BY <3>2, <4>2, <4>3
    <3>3. CASE i # 1 /\ ~(i <= m)
      <4>1. i = m + 1 /\ m \in 1..m
        BY <3>3
      <4>2. g[m] = f[m]
        <5>1. CASE m = 1
          <6>1. f[1] = s[1]
            BY <2>1, <5>1
          <6> QED
            BY <4>1, <5>1, <6>1
        <5>2. CASE m # 1
          BY <4>1, <5>2
        <5> QED
          BY <5>1, <5>2
      <4>3. g[m + 1] = f[m] \o s[m + 1]
        <5>1. m + 1 \in 1..(m + 1) /\ m + 1 # 1 /\ ~(m + 1 <= m)
          BY <4>1
        <5> QED
          BY <5>1
      <4>4. i - 1 = m
        BY <4>1
      <4> HIDE DEF g
      <4>5. g[i] = g[i - 1] \o s[i]
        BY <4>1, <4>2, <4>3, <4>4
      <4> QED
        BY <3>3, <4>5
    <3> QED
      BY <3>1, <3>2, <3>3
  <2>3. Upto(g, m + 1)
    <3> DEFINE h == [i \in 1..(m + 1) |-> IF i = 1 THEN s[i] ELSE g[i - 1] \o s[i]]
    <3>1. \A i \in 1..(m + 1) : g[i] = h[i]
      BY <2>2
    <3>2. g = h
      <4> HIDE DEF h
      <4>1. DOMAIN g = 1..(m + 1) /\ g = [i \in DOMAIN g |-> g[i]]
        OBVIOUS
      <4>2. DOMAIN h = 1..(m + 1) /\ h = [i \in DOMAIN h |-> h[i]]
        BY DEF h
      <4> HIDE DEF g
      <4> QED
        BY <3>1, <4>1, <4>2
    <3> QED
      BY <3>2
  <2> HIDE DEF g, Upto
  <2> QED
    BY <2>3
<1>3. Len(s) \in T
  <2> HIDE DEF T
  <2>1. \A n \in Nat : n \in T
    BY <1>1, <1>2, SetInduction
  <2> QED
    BY <2>1
<1> QED
  BY <1>3 DEF Flattens

(* FlattenSeq is its last value.                                            *)
LEMMA FlattenSeqFlattens ==
    ASSUME NEW S, NEW s \in Seq(Seq(S)), Len(s) # 0
    PROVE  \E f : Flattens(f, s) /\ FlattenSeq(s) = f[Len(s)]
<1> DEFINE f == CHOOSE g : Flattens(g, s)
<1>1. Flattens(f, s)
  BY FlattensExists
<1>2. FlattenSeq(s) = f[Len(s)]
  BY DEF FlattenSeq, Flattens
<1> QED
  BY <1>1, <1>2
(* What it returns is made of the elements of the sequences.                *)
LEMMA FlattensElements ==
    ASSUME NEW S, NEW s \in Seq(Seq(S)), NEW f, Flattens(f, s)
    PROVE  \A i \in 1..Len(s) : /\ f[i] = IF i = 1 THEN s[i] ELSE f[i - 1] \o s[i]
                                /\ f[i] \in Seq(S)
<1>1. \A i \in 1..Len(s) : f[i] = IF i = 1 THEN s[i] ELSE f[i - 1] \o s[i]
  BY DEF Flattens
<1> DEFINE T == {n \in Nat : n \in 1..Len(s) => f[n] \in Seq(S)}
<1>2. 0 \in T
  OBVIOUS
<1>3. ASSUME NEW n \in Nat, n \in T PROVE n + 1 \in T
  <2>1. ASSUME n + 1 \in 1..Len(s) PROVE f[n + 1] \in Seq(S)
    <3>1. s[n + 1] \in Seq(S) /\ (n + 1) - 1 = n
      BY <2>1
    <3>2. CASE n = 0
      BY <1>1, <2>1, <3>1, <3>2
    <3>3. CASE n # 0
      <4>1. n \in 1..Len(s)
        BY <2>1, <3>3
      <4>2. f[n] \in Seq(S)
        BY <1>3, <4>1
      <4>3. f[n + 1] = IF n + 1 = 1 THEN s[n + 1] ELSE f[(n + 1) - 1] \o s[n + 1]
        BY <1>1, <2>1
      <4>4. f[n + 1] = f[n] \o s[n + 1]
        <5>1. n + 1 # 1
          BY <3>3
        <5> QED
          BY <3>1, <4>3, <5>1, Zenon
      <4> QED
        BY <3>1, <4>2, <4>4
    <3> QED
      BY <3>2, <3>3
  <2> QED
    BY <2>1
<1>4. \A n \in Nat : n \in T
  <2> HIDE DEF T
  <2> QED
    BY <1>2, <1>3, SetInduction
<1> QED
  BY <1>1, <1>4

(* Two sequences that agree on a first part are flattened alike there.      *)
Alike(s, t, k) ==
    k \in Nat /\ k <= Len(s) /\ k <= Len(t) /\ \A i \in 1..k : s[i] = t[i]

LEMMA FlattensAlike ==
    ASSUME NEW S, NEW s \in Seq(Seq(S)), NEW t \in Seq(Seq(S)), NEW f, NEW g,
           Flattens(f, s), Flattens(g, t),
           NEW k, Alike(s, t, k)
    PROVE  \A i \in 1..k : f[i] = g[i]
<1>0. k \in Nat /\ k <= Len(s) /\ k <= Len(t) /\ \A i \in 1..k : s[i] = t[i]
  BY DEF Alike
<1>1. \A i \in 1..k : /\ f[i] = IF i = 1 THEN s[i] ELSE f[i - 1] \o s[i]
                      /\ g[i] = IF i = 1 THEN t[i] ELSE g[i - 1] \o t[i]
  <2>1. \A i \in 1..Len(s) : f[i] = IF i = 1 THEN s[i] ELSE f[i - 1] \o s[i]
    BY DEF Flattens
  <2>2. \A i \in 1..Len(t) : g[i] = IF i = 1 THEN t[i] ELSE g[i - 1] \o t[i]
    BY DEF Flattens
  <2>3. ASSUME NEW i \in 1..k PROVE i \in 1..Len(s) /\ i \in 1..Len(t)
    <3>1. Len(s) \in Nat /\ Len(t) \in Nat
      OBVIOUS
    <3> QED
      BY <1>0, <3>1
  <2> QED
    BY <2>1, <2>2, <2>3, Zenon
<1> DEFINE T == {n \in Nat : n \in 1..k => f[n] = g[n]}
<1>2. 0 \in T
  OBVIOUS
<1>3. ASSUME NEW n \in Nat, n \in T PROVE n + 1 \in T
  <2>1. ASSUME n + 1 \in 1..k PROVE f[n + 1] = g[n + 1]
    <3>1. s[n + 1] = t[n + 1] /\ (n + 1) - 1 = n
      BY <1>0, <2>1
    <3>2. CASE n = 0
      BY <1>1, <2>1, <3>1, <3>2
    <3>3. CASE n # 0
      <4>1. n \in 1..k
        BY <1>0, <2>1, <3>3
      <4>2. f[n] = g[n]
        BY <1>3, <4>1
      <4>3. /\ f[n + 1] = IF n + 1 = 1 THEN s[n + 1] ELSE f[(n + 1) - 1] \o s[n + 1]
            /\ g[n + 1] = IF n + 1 = 1 THEN t[n + 1] ELSE g[(n + 1) - 1] \o t[n + 1]
        BY <1>1, <2>1
      <4> QED
        BY <3>1, <3>3, <4>2, <4>3
    <3> QED
      BY <3>2, <3>3
  <2> QED
    BY <2>1
<1>4. \A n \in Nat : n \in T
  <2> HIDE DEF T
  <2> QED
    BY <1>2, <1>3, SetInduction
<1> QED
  BY <1>4

(* The first k sequences of s, one behind the other.                        *)
Before(s, k) == FlattenSeq(SubSeq(s, 1, k))

(* It is what FlattenSeq has computed on its way.                           *)
LEMMA BeforeSome ==
    ASSUME NEW S, NEW s \in Seq(Seq(S)), NEW f, Flattens(f, s), NEW k \in 1..Len(s)
    PROVE  Before(s, k) = f[k]
<1> DEFINE t == SubSeq(s, 1, k)
<1>1. t \in Seq(Seq(S)) /\ Len(t) = k /\ \A i \in 1..k : t[i] = s[i]
  OBVIOUS
<1> HIDE DEF t
<1>2. PICK g : Flattens(g, t) /\ FlattenSeq(t) = g[Len(t)]
  <2>1. t \in Seq(Seq(S)) /\ Len(t) # 0
    BY <1>1
  <2> QED
    BY <2>1, FlattenSeqFlattens
<1>3. Alike(t, s, k)
  BY <1>1 DEF Alike
<1>4. \A i \in 1..k : g[i] = f[i]
  <2>1. t \in Seq(Seq(S)) /\ Flattens(g, t)
    BY <1>1, <1>2
  <2> QED
    BY <2>1, <1>3, FlattensAlike
<1> QED
  BY <1>1, <1>2, <1>4 DEF Before, t

(* It begins with nothing, grows by one sequence at a time, and ends with all. *)
LEMMA BeforeProperties ==
    ASSUME NEW S, NEW s \in Seq(Seq(S))
    PROVE  /\ Before(s, 0) = <<>>
           /\ Before(s, Len(s)) = FlattenSeq(s)
           /\ \A k \in 0..Len(s) : Before(s, k) \in Seq(S)
           /\ \A k \in 1..Len(s) : Before(s, k) = Before(s, k - 1) \o s[k]
<1>1. Before(s, 0) = <<>>
  <2>1. SubSeq(s, 1, 0) = <<>> /\ Len(<<>>) = 0
    OBVIOUS
  <2> QED
    BY <2>1 DEF Before, FlattenSeq
<1>2. Before(s, Len(s)) = FlattenSeq(s)
  BY SubSeqFull DEF Before
<1>3. PICK f : Flattens(f, s)
  BY FlattensExists
<1>4. \A i \in 1..Len(s) : /\ f[i] = IF i = 1 THEN s[i] ELSE f[i - 1] \o s[i]
                           /\ f[i] \in Seq(S) /\ Before(s, i) = f[i]
  BY <1>3, FlattensElements, BeforeSome
<1>5. ASSUME NEW k \in 0..Len(s) PROVE Before(s, k) \in Seq(S)
  <2>1. CASE k = 0
    BY <1>1, <2>1, EmptySeq
  <2>2. CASE k # 0
    <3>1. k \in 1..Len(s)
      BY <2>2
    <3> QED
      BY <1>4, <3>1
  <2> QED
    BY <2>1, <2>2
<1>6. ASSUME NEW k \in 1..Len(s) PROVE Before(s, k) = Before(s, k - 1) \o s[k]
  <2>1. s[k] \in Seq(S)
    OBVIOUS
  <2>2. CASE k = 1
    BY <1>1, <1>4, <2>1, <2>2
  <2>3. CASE k # 1
    <3>1. k - 1 \in 1..Len(s)
      BY <2>3
    <3> QED
      BY <1>4, <2>3, <3>1
  <2> QED
    BY <2>2, <2>3
<1> QED
  BY <1>1, <1>2, <1>5, <1>6

(* What stands in a later part of the whole.                                *)
Begins(s, t) == Len(s) <= Len(t) /\ \A i \in 1..Len(s) : s[i] = t[i]

(* A sequence begins what it is continued to.                               *)
LEMMA BeginsConcat ==
    ASSUME NEW S, NEW r \in Seq(S), NEW s \in Seq(S), NEW t \in Seq(S), Begins(r, s)
    PROVE  Begins(r, s \o t)
  BY DEF Begins

(* The first sequences begin the whole.                                     *)
LEMMA BeforeBegins ==
    ASSUME NEW S, NEW s \in Seq(Seq(S)), NEW k \in 0..Len(s)
    PROVE  Begins(Before(s, k), FlattenSeq(s))
<1> DEFINE N == Len(s)
           T == {n \in Nat : n \in 0..(N - k) => Begins(Before(s, k), Before(s, k + n))}
<1>0. N \in Nat
  OBVIOUS
<1> HIDE DEF N
<1>a. /\ \A i \in 0..N : Before(s, i) \in Seq(S)
      /\ \A i \in 1..N : Before(s, i) = Before(s, i - 1) \o s[i]
      /\ \A i \in 1..N : s[i] \in Seq(S)
  <2>1. \A i \in 1..N : s[i] \in Seq(S)
    BY DEF N
  <2> QED
    BY <2>1, BeforeProperties DEF N
<1>1. 0 \in T
  BY BeforeProperties DEF Begins, N
<1>2. ASSUME NEW n \in Nat, n \in T PROVE n + 1 \in T
  <2>1. ASSUME n + 1 \in 0..(N - k) PROVE Begins(Before(s, k), Before(s, k + (n + 1)))
    <3>1. n \in 0..(N - k) /\ k + n \in 0..Len(s) /\ k + (n + 1) \in 1..Len(s)
          /\ (k + (n + 1)) - 1 = k + n
      BY <1>0, <2>1 DEF N
    <3>2. Begins(Before(s, k), Before(s, k + n))
      BY <1>2, <3>1
    <3>3. /\ Before(s, k) \in Seq(S) /\ Before(s, k + n) \in Seq(S)
          /\ s[k + (n + 1)] \in Seq(S)
          /\ Before(s, k + (n + 1)) = Before(s, k + n) \o s[k + (n + 1)]
      BY <3>1, <1>a DEF N
    <3> QED
      BY <3>2, <3>3, BeginsConcat
  <2> QED
    BY <2>1
<1>3. \A n \in Nat : n \in T
  <2> HIDE DEF T
  <2> QED
    BY <1>1, <1>2, SetInduction
<1>4. N - k \in Nat /\ N - k \in 0..(N - k) /\ k + (N - k) = N
  BY <1>0 DEF N
<1> QED
  BY <1>3, <1>4, BeforeProperties DEF N

----------------------------------------------------------------------------
(* The client's bytes                                                       *)

(* The client's bytes, frame by frame, and what shall be returned of each.  *)
Wire == [k \in DOMAIN plan.frames |-> [n \in 1..HeaderSize |-> Item(k, "header", n)] \o Body(k)]
Told == [k \in DOMAIN plan.frames |->
            (IF plan.frames[k].op = "data" THEN Body(k) ELSE <<>>) \o EndOf(k)]

Items == [frame : DOMAIN plan.frames, what : {"header", "body", "end", "close"}, n : Nat]

(* What a plan is.                                                          *)
LEMMA PlanTypes ==
    ASSUME plan \in Plans
    PROVE  /\ plan.frames \in Seq(Frame) /\ plan.sends \in Nat
           /\ DOMAIN plan.frames = 1..Len(plan.frames) /\ Len(plan.frames) \in Nat
           /\ \A k \in 1..Len(plan.frames) :
                 /\ plan.frames[k] \in Frame /\ plan.frames[k].len \in Nat
                 /\ plan.frames[k].op \in {"data", "close", "bad"}
           /\ HeaderSize \in Nat /\ HeaderSize > 0
<1>1. plan \in Plan
  BY WebSocketAssumption
<1>2. plan.frames \in Seq(Frame) /\ plan.sends \in Nat
  BY <1>1 DEF Plan
<1>3. ASSUME NEW k \in 1..Len(plan.frames)
      PROVE  plan.frames[k] \in Frame
  BY <1>2
<1>4. \A f \in Frame : f.len \in Nat /\ f.op \in {"data", "close", "bad"}
  BY DEF Frame
<1> QED
  BY <1>2, <1>3, <1>4, WebSocketAssumption

(* The elements of two sequences, one behind the other.                     *)
LEMMA ConcatElements ==
    ASSUME NEW S, NEW s \in Seq(S), NEW t \in Seq(S)
    PROVE  /\ s \o t \in Seq(S) /\ Len(s) \in Nat /\ Len(t) \in Nat
           /\ Len(s \o t) = Len(s) + Len(t)
           /\ \A i \in 1..Len(s) : (s \o t)[i] = s[i]
           /\ \A i \in 1..Len(t) : (s \o t)[Len(s) + i] = t[i]
  OBVIOUS

(* A function on 1..n is a sequence of length n.                            *)
LEMMA FunctionIsSeq ==
    ASSUME NEW S, NEW n \in Nat, NEW f \in [1..n -> S]
    PROVE  f \in Seq(S) /\ Len(f) = n
  OBVIOUS

(* A frame's body, and what it ends with.                                   *)
LEMMA BodyTypes ==
    ASSUME plan \in Plans, NEW k \in 1..Len(plan.frames)
    PROVE  /\ Body(k) \in Seq(Items) /\ Len(Body(k)) = plan.frames[k].len
           /\ \A n \in 1..plan.frames[k].len : Body(k)[n] = Item(k, "body", n)
           /\ EndOf(k) \in Seq(Items)
<1>1. plan.frames[k].len \in Nat /\ k \in DOMAIN plan.frames
  BY PlanTypes
<1>2. \A n \in Nat, w \in {"header", "body", "end", "close"} : Item(k, w, n) \in Items
  BY <1>1 DEF Item, Items
<1>3. \A n \in 1..plan.frames[k].len : Item(k, "body", n) \in Items
  BY <1>1, <1>2
<1>4. /\ Body(k) \in Seq(Items) /\ Len(Body(k)) = plan.frames[k].len
      /\ \A n \in 1..plan.frames[k].len : Body(k)[n] = Item(k, "body", n)
  BY <1>1, <1>3 DEF Body
<1>5. EndOf(k) \in Seq(Items)
  BY <1>2 DEF EndOf
<1> QED
  BY <1>4, <1>5

(* The client's bytes, frame by frame.                                      *)
LEMMA WireTypes ==
    ASSUME plan \in Plans
    PROVE  /\ Wire \in Seq(Seq(Items)) /\ Len(Wire) = Len(plan.frames) /\ Bytes = FlattenSeq(Wire)
           /\ \A k \in 1..Len(plan.frames) :
                 /\ Wire[k] \in Seq(Items)
                 /\ Len(Wire[k]) = HeaderSize + plan.frames[k].len
                 /\ \A n \in 1..HeaderSize : Wire[k][n] = Item(k, "header", n)
                 /\ \A n \in 1..plan.frames[k].len : Wire[k][HeaderSize + n] = Item(k, "body", n)
<1> DEFINE N == Len(plan.frames)
           head(k) == [n \in 1..HeaderSize |-> Item(k, "header", n)]
<1>1. N \in Nat /\ DOMAIN plan.frames = 1..N /\ HeaderSize \in Nat
  BY PlanTypes
<1>2. ASSUME NEW k \in 1..N
      PROVE  /\ head(k) \in Seq(Items) /\ Len(head(k)) = HeaderSize
             /\ \A n \in 1..HeaderSize : head(k)[n] = Item(k, "header", n)
  <2>1. \A n \in 1..HeaderSize : Item(k, "header", n) \in Items
    BY <1>1 DEF Item, Items
  <2> QED
    BY <1>1, <2>1
<1>3. ASSUME NEW k \in 1..N
      PROVE  /\ Wire[k] \in Seq(Items)
             /\ Len(Wire[k]) = HeaderSize + plan.frames[k].len
             /\ \A n \in 1..HeaderSize : Wire[k][n] = Item(k, "header", n)
             /\ \A n \in 1..plan.frames[k].len : Wire[k][HeaderSize + n] = Item(k, "body", n)
  <2>1. Wire[k] = head(k) \o Body(k)
    BY <1>1 DEF Wire
  <2>2. plan.frames[k].len \in Nat
    BY PlanTypes
  <2>3. /\ head(k) \in Seq(Items) /\ Len(head(k)) = HeaderSize
        /\ \A n \in 1..HeaderSize : head(k)[n] = Item(k, "header", n)
    BY <1>2
  <2>4. /\ Body(k) \in Seq(Items) /\ Len(Body(k)) = plan.frames[k].len
        /\ \A n \in 1..plan.frames[k].len : Body(k)[n] = Item(k, "body", n)
    BY BodyTypes
  <2> HIDE DEF head
  <2>5. /\ Wire[k] \in Seq(Items)
        /\ Len(Wire[k]) = Len(head(k)) + Len(Body(k))
        /\ \A i \in 1..Len(head(k)) : Wire[k][i] = head(k)[i]
        /\ \A i \in 1..Len(Body(k)) : Wire[k][Len(head(k)) + i] = Body(k)[i]
    <3>1. head(k) \in Seq(Items) /\ Body(k) \in Seq(Items)
      BY <2>3, <2>4
    <3> QED
      BY <2>1, <3>1, ConcatElements
  <2> QED
    BY <2>3, <2>4, <2>5
<1>4. Wire \in Seq(Seq(Items)) /\ Len(Wire) = N
  <2>1. DOMAIN Wire = 1..N /\ Wire = [k \in 1..N |-> Wire[k]]
    BY <1>1 DEF Wire
  <2>2. \A k \in 1..N : Wire[k] \in Seq(Items)
    BY <1>3
  <2> HIDE DEF N
  <2>3. Wire \in [1..N -> Seq(Items)]
    BY <2>1, <2>2
  <2> QED
    BY <1>1, <2>3, FunctionIsSeq
<1>5. Bytes = FlattenSeq(Wire)
  BY DEF Bytes, Wire
<1> QED
  BY <1>3, <1>4, <1>5

(* What is returned, frame by frame.                                        *)
LEMMA ToldTypes ==
    ASSUME plan \in Plans
    PROVE  /\ Told \in Seq(Seq(Items)) /\ Len(Told) = Len(plan.frames)
           /\ Expected = FlattenSeq(Told)
           /\ \A k \in 1..Len(plan.frames) :
                 Told[k] = (IF plan.frames[k].op = "data" THEN Body(k) ELSE <<>>) \o EndOf(k)
<1> DEFINE N == Len(plan.frames)
<1>1. N \in Nat /\ DOMAIN plan.frames = 1..N
  BY PlanTypes
<1>2. \A k \in 1..N :
         Told[k] = (IF plan.frames[k].op = "data" THEN Body(k) ELSE <<>>) \o EndOf(k)
  BY <1>1 DEF Told
<1>3. ASSUME NEW k \in 1..N PROVE Told[k] \in Seq(Items)
  <2>1. (IF plan.frames[k].op = "data" THEN Body(k) ELSE <<>>) \in Seq(Items)
    BY BodyTypes, EmptySeq
  <2> QED
    BY <1>2, <2>1, BodyTypes, ConcatProperties
<1>4. Told \in Seq(Seq(Items)) /\ Len(Told) = N
  <2>1. DOMAIN Told = 1..N /\ Told = [k \in 1..N |-> Told[k]]
    BY <1>1 DEF Told
  <2> QED
    BY <1>1, <1>3, <2>1
<1>5. Expected = FlattenSeq(Told)
  BY DEF Expected, Told
<1> QED
  BY <1>2, <1>4, <1>5

(* Where the frames' bytes are.                                             *)
Start(k) == Len(Before(Wire, k - 1))

(* Where the bytes of a frame's header and body are.                        *)
LEMMA WireBytes ==
    ASSUME plan \in Plans
    PROVE  /\ Bytes \in Seq(Items) /\ Len(Bytes) \in Nat
           /\ Len(Bytes) = Len(Before(Wire, Len(plan.frames)))
           /\ \A k \in 0..Len(plan.frames) : Len(Before(Wire, k)) \in Nat
           /\ Len(Before(Wire, 0)) = 0
           /\ \A k \in 1..Len(plan.frames) :
                 /\ Start(k) \in Nat
                 /\ Len(Before(Wire, k)) = Start(k) + HeaderSize + plan.frames[k].len
                 /\ Len(Before(Wire, k)) <= Len(Bytes)
                 /\ \A n \in 1..HeaderSize : Bytes[Start(k) + n] = Item(k, "header", n)
                 /\ \A n \in 1..plan.frames[k].len :
                       Bytes[Start(k) + HeaderSize + n] = Item(k, "body", n)
<1> DEFINE N == Len(plan.frames)
<1>1. N \in Nat /\ HeaderSize \in Nat /\ \A k \in 1..N : plan.frames[k].len \in Nat
  BY PlanTypes
<1>2. Wire \in Seq(Seq(Items)) /\ Len(Wire) = N /\ Bytes = FlattenSeq(Wire)
  BY WireTypes
<1>3. /\ Before(Wire, 0) = <<>>
      /\ Before(Wire, N) = Bytes
      /\ \A k \in 0..N : Before(Wire, k) \in Seq(Items)
      /\ \A k \in 1..N : Before(Wire, k) = Before(Wire, k - 1) \o Wire[k]
  BY <1>2, BeforeProperties
<1>4. Bytes \in Seq(Items) /\ Len(Bytes) \in Nat
  <2>1. N \in 0..N
    BY <1>1
  <2>2. Bytes \in Seq(Items)
    BY <1>3, <2>1
  <2> QED
    BY <2>2, LenProperties
<1>5. ASSUME NEW k \in 1..N
      PROVE  /\ Start(k) \in Nat
             /\ Len(Before(Wire, k)) = Start(k) + HeaderSize + plan.frames[k].len
             /\ Len(Before(Wire, k)) <= Len(Bytes)
             /\ \A n \in 1..HeaderSize : Bytes[Start(k) + n] = Item(k, "header", n)
             /\ \A n \in 1..plan.frames[k].len :
                   Bytes[Start(k) + HeaderSize + n] = Item(k, "body", n)
  <2> DEFINE L == plan.frames[k].len
             s == Before(Wire, k - 1)
             w == Wire[k]
  <2>1. k - 1 \in 0..N /\ k \in 0..N /\ L \in Nat
    BY <1>1
  <2>2. s \in Seq(Items) /\ Before(Wire, k) = s \o w /\ Before(Wire, k) \in Seq(Items)
    BY <1>3, <2>1
  <2>3. /\ w \in Seq(Items) /\ Len(w) = HeaderSize + L
        /\ \A n \in 1..HeaderSize : w[n] = Item(k, "header", n)
        /\ \A n \in 1..L : w[HeaderSize + n] = Item(k, "body", n)
    BY WireTypes
  <2>4. Begins(Before(Wire, k), Bytes)
    BY <1>2, <2>1, BeforeBegins
  <2> HIDE DEF s, w, L
  <2>5. /\ Len(s) \in Nat /\ Len(s \o w) = Len(s) + Len(w)
        /\ \A i \in 1..Len(w) : (s \o w)[Len(s) + i] = w[i]
    <3>1. s \in Seq(Items) /\ w \in Seq(Items)
      BY <2>2, <2>3
    <3> QED
      BY <3>1, ConcatElements
  <2>6. \A i \in 1..Len(w) : Bytes[Len(s) + i] = w[i]
    BY <1>1, <2>1, <2>2, <2>3, <2>4, <2>5 DEF Begins
  <2>7. Start(k) = Len(s)
    BY DEF Start, s
  <2>8. \A n \in 1..HeaderSize : Bytes[Len(s) + n] = Item(k, "header", n)
    BY <1>1, <2>1, <2>3, <2>6
  <2>9. \A n \in 1..L : Bytes[Len(s) + HeaderSize + n] = Item(k, "body", n)
    <3>1. ASSUME NEW n \in 1..L PROVE Bytes[Len(s) + HeaderSize + n] = Item(k, "body", n)
      <4>1. HeaderSize + n \in 1..Len(w) /\ Len(s) + (HeaderSize + n) = Len(s) + HeaderSize + n
        BY <1>1, <2>1, <2>3, <2>5
      <4> QED
        BY <2>3, <2>6, <4>1
    <3> QED
      BY <3>1
  <2>10. Len(Before(Wire, k)) = Len(s) + HeaderSize + L /\ Len(Before(Wire, k)) <= Len(Bytes)
    BY <1>1, <2>1, <2>2, <2>3, <2>4, <2>5 DEF Begins
  <2> QED
    BY <2>5, <2>7, <2>8, <2>9, <2>10 DEF L
<1>6. \A k \in 0..N : Len(Before(Wire, k)) \in Nat
  BY <1>3, LenProperties
<1>7. Len(Before(Wire, 0)) = 0
  BY <1>3, EmptySeq
<1> QED
  BY <1>3, <1>4, <1>5, <1>6, <1>7

----------------------------------------------------------------------------
(* What is read                                                             *)

(* What is read is within what the client sends.                            *)
ByteInv ==
    /\ plan \in Plans
    /\ taken \in Nat /\ have \in 0..BufferSize /\ taken + have <= Len(Bytes)
    /\ receiving => have = 0
    /\ frame \in Frame /\ segment \in Nat /\ filled \in Seq(Range(Bytes))

(* The plan is fixed, and with it the bytes.                                *)
LEMMA BytesStay ==
    ASSUME plan' = plan
    PROVE  Bytes' = Bytes /\ Wire' = Wire /\ Told' = Told /\ \A k : Body(k)' = Body(k)
  BY DEF Bytes, Wire, Told, Body, EndOf, Item

(* The smallest of three is one of them, and none is less.                  *)
LEMMA MinOfThree ==
    ASSUME NEW a \in Nat, NEW b \in Nat, NEW c \in Nat
    PROVE  /\ Min({a, b, c}) \in {a, b, c}
           /\ Min({a, b, c}) <= a /\ Min({a, b, c}) <= b /\ Min({a, b, c}) <= c
<1> DEFINE m == IF a <= b THEN (IF a <= c THEN a ELSE c) ELSE IF b <= c THEN b ELSE c
<1>1. m \in {a, b, c} /\ \A y \in {a, b, c} : m <= y
  OBVIOUS
<1>2. \E x \in {a, b, c} : \A y \in {a, b, c} : x <= y
  BY <1>1
<1> QED
  BY <1>2 DEF Min

(* The bytes from p on, up to those that have arrived.                      *)
Readable(p, data) == p \in Nat /\ data \in Nat /\ p + data = taken + have /\ data <= have

(* A data frame takes of what has arrived, and no more.                     *)
LEMMA DataFrameTypes ==
    ASSUME ByteInv, NEW t, NEW f \in Frame, NEW p, NEW data, Readable(p, data),
           DataFrame(t, f, p, data)
    PROVE  /\ taken' \in Nat /\ have' \in 0..have /\ taken' + have' = taken + have
           /\ frame' \in Frame /\ segment' \in Nat
           /\ plan' = plan => filled' \in Seq(Range(Bytes))
<1> DEFINE n == Min({f.len, segment, data})
<1>1. f.len \in Nat /\ segment \in Nat /\ data \in Nat
  BY DEF ByteInv, Frame, Readable
<1>2. n \in Nat /\ n <= f.len /\ n <= segment /\ n <= data
  <2>1. n \in {f.len, segment, data} /\ n <= f.len /\ n <= segment /\ n <= data
    BY <1>1, MinOfThree
  <2> HIDE DEF n
  <2> QED
    BY <1>1, <2>1
<1>3. /\ taken' = p + n /\ have' = data - n
      /\ segment' = segment - n /\ filled' = filled \o SubSeq(Bytes, p + 1, p + n)
      /\ frame' = [f EXCEPT !.len = @ - n]
  BY DEF DataFrame
<1> HIDE DEF n
<1>4. frame' \in Frame
  <2>1. f.len - n \in Nat
    BY <1>1, <1>2
  <2> QED
    BY <1>3, <2>1 DEF Frame
<1>5. filled' \in Seq(Range(Bytes))
  <2>1. Bytes \in Seq(Items) /\ Len(Bytes) \in Nat
    BY WireBytes DEF ByteInv
  <2>2. \A i \in 1..Len(Bytes) : Bytes[i] \in Range(Bytes)
    BY <2>1, RangeEquality
  <2>3. p + n <= Len(Bytes) /\ p \in Nat /\ p + 1 \in Int /\ p + n \in Int
    BY <1>2, <2>1 DEF ByteInv, Readable
  <2>4. \A i \in (p + 1)..(p + n) : Bytes[i] \in Range(Bytes)
    BY <1>2, <2>1, <2>2, <2>3
  <2>5. SubSeq(Bytes, p + 1, p + n) \in Seq(Range(Bytes))
    BY <2>3, <2>4, SubSeqProperties
  <2> QED
    BY <1>3, <2>5, ConcatProperties DEF ByteInv
<1>6. taken \in Nat /\ have \in Nat /\ p \in Nat /\ data \in Nat
      /\ p + data = taken + have /\ data <= have
  BY WebSocketAssumption DEF ByteInv, Readable
<1>7. taken' \in Nat /\ have' \in 0..have /\ taken' + have' = taken + have /\ segment' \in Nat
  <2>1. taken' = p + n /\ have' = data - n /\ segment' = segment - n
    BY <1>3
  <2>2. n \in Nat /\ n <= segment /\ n <= data /\ segment \in Nat
    BY <1>1, <1>2
  <2> QED
    BY <1>6, <2>1, <2>2
<1> QED
  BY <1>4, <1>5, <1>7

(* So does a close frame.                                                   *)
LEMMA CloseFrameTypes ==
    ASSUME ByteInv, NEW t, NEW f \in Frame, NEW p, NEW data, Readable(p, data),
           CloseFrame(t, f, p, data)
    PROVE  /\ taken' \in Nat /\ have' \in 0..have /\ taken' + have' = taken + have
           /\ frame' \in Frame /\ UNCHANGED <<segment, filled>>
<1>1. f.len \in Nat
  BY DEF Frame
<1>2. frame' = f /\ UNCHANGED <<segment, filled>>
  BY DEF CloseFrame
<1>3. \/ data < f.len /\ taken' = p /\ have' = data
      \/ data >= f.len /\ taken' = p + f.len /\ have' = data - f.len
  BY <1>1 DEF CloseFrame, Readable
<1>4. taken \in Nat /\ have \in Nat /\ p \in Nat /\ data \in Nat
      /\ p + data = taken + have /\ data <= have
  BY WebSocketAssumption DEF ByteInv, Readable
<1>5. taken' \in Nat /\ have' \in 0..have /\ taken' + have' = taken + have
  BY <1>1, <1>3, <1>4
<1> QED
  BY <1>2, <1>5

(* The frame that a header announces.                                       *)
LEMMA HeaderTypes ==
    ASSUME ByteInv, NEW f \in ParseHeader, f.op \notin {"bad", "more"}
    PROVE  /\ f \in Frame /\ HeaderSize <= have
           /\ Aligned => f = plan.frames[Bytes[taken + 1].frame]
<1> DEFINE As(what) == [NoFrame EXCEPT !.op = what]
<1>1. NoFrame \in Frame /\ As("bad").op = "bad" /\ As("more").op = "more" /\ HeaderSize \in Nat
  BY WebSocketAssumption DEF NoFrame, Frame
<1>2. CASE Aligned
  <2> DEFINE h == plan.frames[Bytes[taken + 1].frame]
  <2>1. f = h \/ f = As("more")
    BY <1>2 DEF ParseHeader
  <2>2. f = h
    BY <1>1, <2>1
  <2>3. ~(f.op # "bad" /\ have < HeaderSize)
    <3>1. CASE h.op # "bad" /\ have < HeaderSize
      <4>1. f = As("more")
        BY <1>2, <3>1 DEF ParseHeader
      <4> QED
        BY <1>1, <4>1
    <3> HIDE DEF h
    <3> QED
      BY <2>2, <3>1
  <2>4. taken + 1 \in 1..Len(Bytes) /\ Bytes \in Seq(Items)
    <3>1. Bytes \in Seq(Items) /\ Len(Bytes) \in Nat
      BY WireBytes DEF ByteInv
    <3>2. have \in Nat /\ have > 0
      BY <1>2, WebSocketAssumption DEF Aligned, ByteInv
    <3> QED
      BY <3>1, <3>2 DEF ByteInv
  <2>5. Bytes[taken + 1].frame \in 1..Len(plan.frames)
    <3>1. Bytes[taken + 1] \in Items
      BY <2>4, ElementOfSeq
    <3> QED
      BY <3>1, PlanTypes DEF Items, ByteInv
  <2>6. h \in Frame
    BY <2>5, PlanTypes DEF ByteInv
  <2> HIDE DEF h
  <2> QED
    BY <1>1, <2>2, <2>3, <2>6, WebSocketAssumption DEF ByteInv, h
<1>3. CASE ~Aligned
  <2>1. f = As("bad") \/ f = As("more") \/ (f = NoFrame /\ ~(have < HeaderSize))
    BY <1>3 DEF ParseHeader
  <2>2. f = NoFrame /\ ~(have < HeaderSize)
    BY <1>1, <2>1
  <2> QED
    BY <1>1, <1>3, <2>2, WebSocketAssumption DEF ByteInv
<1> QED
  BY <1>2, <1>3

(* The kinds of a parse.                                                    *)
ParsesBody(t, f, p, data) ==
    /\ ParseBody(t, f, p, data) /\ f \in Frame /\ Readable(p, data)
    /\ \/ /\ state = "Header" /\ p = taken + HeaderSize
          /\ Aligned => f = plan.frames[Bytes[taken + 1].frame]
          /\ f.op # "bad"
       \/ state = "Body" /\ f = frame /\ p = taken /\ data = have

(* A parse fails, waits for more, reads a frame, or has nothing to do.      *)
LEMMA ParseKinds ==
    ASSUME ByteInv, NEW t, Parse(t)
    PROVE  \/ ParseError(t)
           \/ ParseMore(t)
           \/ \E f, p, data : ParsesBody(t, f, p, data)
           \/ /\ state \notin {"Header", "Body", "Error"}
              /\ Return(t) /\ UNCHANGED <<taken, have, state, tcs, frameVars, got, strays>>
<1>1. CASE state = "Header"
  <2>1. PICK f \in ParseHeader :
           CASE f.op = "bad" -> ParseError(t)
             [] f.op = "more" -> ParseMore(t)
             [] OTHER -> ParseBody(t, f, taken + HeaderSize, have - HeaderSize)
    BY <1>1 DEF Parse
  <2>2. CASE f.op \in {"bad", "more"}
    BY <2>1, <2>2
  <2>3. CASE f.op \notin {"bad", "more"}
    <3>1. ParseBody(t, f, taken + HeaderSize, have - HeaderSize)
      BY <2>1, <2>3
    <3>2. f \in Frame /\ HeaderSize <= have /\ (Aligned => f = plan.frames[Bytes[taken + 1].frame])
      BY <2>3, HeaderTypes
    <3>3. Readable(taken + HeaderSize, have - HeaderSize)
      BY <3>2, WebSocketAssumption DEF ByteInv, Readable
    <3>4. ParsesBody(t, f, taken + HeaderSize, have - HeaderSize)
      BY <1>1, <2>3, <3>1, <3>2, <3>3 DEF ParsesBody
    <3> QED
      BY <3>4
  <2> QED
    BY <2>2, <2>3
<1>2. CASE state = "Body"
  <2>1. ParseBody(t, frame, taken, have)
    BY <1>2 DEF Parse
  <2>2. frame \in Frame /\ Readable(taken, have)
    BY WebSocketAssumption DEF ByteInv, Readable
  <2>3. ParsesBody(t, frame, taken, have)
    BY <1>2, <2>1, <2>2 DEF ParsesBody
  <2> QED
    BY <2>3
<1>3. CASE state = "Error"
  BY <1>3 DEF Parse
<1>4. CASE state \notin {"Header", "Body", "Error"}
  BY <1>4 DEF Parse
<1> QED
  BY <1>1, <1>2, <1>3, <1>4

LEMMA ParseKeepsBytes == ASSUME ByteInv, NEW t, Parse(t) PROVE ByteInv'
<1>1. plan' = plan /\ receiving' = receiving /\ Bytes' = Bytes
  BY BytesStay DEF Parse
<1>2. ASSUME UNCHANGED <<taken, have, frameVars>> PROVE ByteInv'
  BY <1>1, <1>2 DEF ByteInv, frameVars
<1>3. ASSUME NEW f, NEW p, NEW data, ParsesBody(t, f, p, data) PROVE ByteInv'
  <2>1. /\ taken' \in Nat /\ have' \in 0..have /\ taken' + have' = taken + have
        /\ frame' \in Frame /\ segment' \in Nat /\ filled' \in Seq(Range(Bytes))
    <3>1. CASE f.op = "close"
      BY <1>3, <3>1, CloseFrameTypes DEF ParsesBody, ParseBody, ByteInv
    <3>2. CASE f.op # "close"
      BY <1>1, <1>3, <3>2, DataFrameTypes DEF ParsesBody, ParseBody
    <3> QED
      BY <3>1, <3>2
  <2>2. have \in 0..BufferSize /\ BufferSize \in Nat /\ taken + have <= Len(Bytes)
        /\ plan \in Plans /\ (receiving => have = 0)
    BY WebSocketAssumption DEF ByteInv
  <2>3. have' \in 0..BufferSize /\ taken' + have' <= Len(Bytes)
    BY <2>1, <2>2
  <2>4. receiving' => have' = 0
    BY <1>1, <2>1, <2>2
  <2> QED
    BY <1>1, <2>1, <2>2, <2>3, <2>4 DEF ByteInv
<1> QED
  BY <1>2, <1>3, ParseKinds DEF ParseError, ParseMore

(* The other steps leave the bytes alone, but for an arrival and a new call.  *)
KeepsBytes ==
    /\ UNCHANGED <<plan, taken, have, frameVars, got>>
    /\ receiving' => receiving \/ have = 0

(* Which steps read, and which bring something to be read.                  *)
LEMMA OtherSteps ==
    ASSUME [Next]_vars
    PROVE  \/ \E t \in Threads : Parse(t)
           \/ \E t \in Threads, n \in 1..BufferSize : FinishReceive(t, n)
           \/ \E n \in Segments : ReceiveAsync(n)
           \/ KeepsBytes
<1> USE DEF KeepsBytes, clientVars, transportVars, frameVars, sendVars
<1>1. ASSUME NEW t \in Threads, Run(t) PROVE Parse(t) \/ KeepsBytes
  <2>1. ASSUME Check(t) PROVE KeepsBytes
    BY <2>1 DEF Check
  <2>2. ASSUME AfterFrame(t) PROVE KeepsBytes
    BY <2>2 DEF AfterFrame
  <2>3. ASSUME AfterData(t) PROVE KeepsBytes
    BY <2>3 DEF AfterData
  <2>4. ASSUME AfterClose(t) PROVE KeepsBytes
    BY <2>4 DEF AfterClose
  <2>5. ASSUME StartReceiveData(t) PROVE KeepsBytes
    BY <2>5 DEF StartReceiveData
  <2>6. ASSUME StartNextReceive(t) PROVE KeepsBytes
    BY <2>6 DEF StartNextReceive
  <2>7. ASSUME Enter(t) PROVE KeepsBytes
    BY <2>7 DEF Enter, ProcessReceive
  <2>8. ASSUME FinishReceiveData(t) PROVE KeepsBytes
    BY <2>8 DEF FinishReceiveData
  <2>9. ASSUME SetClientClosed(t) PROVE KeepsBytes
    BY <2>9 DEF SetClientClosed
  <2>10. ASSUME TellReader(t) PROVE KeepsBytes
    BY <2>10 DEF TellReader
  <2> QED
    BY <1>1, <2>1, <2>2, <2>3, <2>4, <2>5, <2>6, <2>7, <2>8, <2>9, <2>10 DEF Run
<1>2. ASSUME NEW s \in Senders,
             \/ Work(s) \/ CloseAsync(s)
             \/ \E n \in Sizes, end \in BOOLEAN : SendAsync(s, n, end)
      PROVE  KeepsBytes
  <2>1. UNCHANGED readVars
    BY <1>2 DEF Work, CloseAsync, SendAsync, Acquire, SendFrame, FinishSend, SendClose,
                FinishSendClose, EndClose
  <2> QED
    BY <2>1 DEF readVars
<1>3. ASSUME Transport
      PROVE  KeepsBytes \/ \E t \in Threads, n \in 1..BufferSize : FinishReceive(t, n)
  <2>1. AnIdle \subseteq Threads
    BY DEF AnIdle, IdleReceivers, Threads
  <2>2. ASSUME FinishUpgrade PROVE KeepsBytes
    BY <2>2 DEF FinishUpgrade
  <2>3. ASSUME NEW t \in Threads, FinishReceiveFailed(t) PROVE KeepsBytes
    BY <2>3 DEF FinishReceiveFailed
  <2> QED
    BY <1>3, <2>1, <2>2, <2>3 DEF Transport
<1>4. ASSUME Register PROVE KeepsBytes
  BY <1>4 DEF Register
<1>5. ASSUME AppEnds PROVE KeepsBytes
  BY <1>5 DEF AppEnds
<1>6. ASSUME ClientCloses PROVE KeepsBytes
  BY <1>6 DEF ClientCloses
<1>7. CASE UNCHANGED vars
  BY <1>7 DEF vars
<1> HIDE DEF KeepsBytes
<1>8. CASE Next
  BY <1>8, <1>1, <1>2, <1>3, <1>4, <1>5, <1>6 DEF Next
<1> QED
  BY <1>7, <1>8

(* What is read stays within what the client sends.                         *)
LEMMA ByteInvInit == Init => ByteInv
<1> SUFFICES ASSUME Init PROVE ByteInv
  OBVIOUS
<1>1. plan \in Plans /\ have = 0 /\ taken = 0 /\ frame = NoFrame /\ segment = 0 /\ filled = <<>>
  BY DEF Init
<1>2. Len(Bytes) \in Nat /\ NoFrame \in Frame
  BY <1>1, WireBytes DEF NoFrame, Frame
<1> QED
  BY <1>1, <1>2, EmptySeq, WebSocketAssumption DEF ByteInv

LEMMA ByteInvStep == ByteInv /\ [Next]_vars => ByteInv'
<1> SUFFICES ASSUME ByteInv, [Next]_vars PROVE ByteInv'
  OBVIOUS
<1>1. ASSUME NEW t \in Threads, NEW n \in 1..BufferSize, FinishReceive(t, n) PROVE ByteInv'
  <2>1. /\ plan' = plan /\ UNCHANGED <<taken, frame, segment, filled>> /\ have' = have + n
        /\ receiving /\ n <= Len(Bytes) - taken - have
    BY <1>1 DEF FinishReceive, Left, clientVars, frameVars
  <2>2. receiving' => have' = 0
    BY <1>1 DEF FinishReceive, ProcessReceive
  <2>3. Bytes' = Bytes /\ Len(Bytes) \in Nat /\ have = 0
    BY <2>1, BytesStay, WireBytes DEF ByteInv
  <2> QED
    BY <2>1, <2>2, <2>3, WebSocketAssumption DEF ByteInv
<1>2. ASSUME NEW n \in Segments, ReceiveAsync(n) PROVE ByteInv'
  <2>1. UNCHANGED <<plan, taken, have, receiving, frame>> /\ segment' = n /\ filled' = <<>>
    BY <1>2 DEF ReceiveAsync, clientVars, transportVars
  <2>2. Bytes' = Bytes /\ n \in Nat
    BY <2>1, BytesStay, WebSocketAssumption
  <2> QED
    BY <2>1, <2>2, EmptySeq DEF ByteInv
<1>3. ASSUME KeepsBytes PROVE ByteInv'
  <2>1. Bytes' = Bytes
    BY <1>3, BytesStay DEF KeepsBytes
  <2> QED
    BY <1>3, <2>1 DEF KeepsBytes, ByteInv, frameVars
<1> QED
  BY <1>1, <1>2, <1>3, OtherSteps, ParseKeepsBytes

----------------------------------------------------------------------------
(* The types of the rest                                                    *)

FlagInv ==
    /\ gone \in BOOLEAN /\ receiving \in BOOLEAN /\ started \in BOOLEAN /\ clientClosed \in BOOLEAN
    /\ webReceiving \in BOOLEAN /\ sending \in BOOLEAN /\ nextIsStart \in BOOLEAN
    /\ closeCalled \in BOOLEAN
    /\ phase \in {"upgrading", "open", "ended"} /\ closeTcs \in {"none", "pending", "set"}
    /\ depth \in [Threads -> 0..MaxDepth]
    /\ plan \in Plans /\ sends \in 0..plan.sends
    /\ strays \subseteq {"overlap", "split", "missed", "gone", "restart"}

(* A return ends no call that was not made.                                 *)
LEMMA ReturnDepth ==
    ASSUME FlagInv, NEW t \in Threads, Return(t)
    PROVE  depth' \in [Threads -> 0..MaxDepth]
<1>1. MaxDepth \in Nat /\ depth \in [Threads -> 0..MaxDepth]
  BY WebSocketAssumption DEF FlagInv
<1> QED
  BY <1>1 DEF Return

(* The flags, from the start.                                               *)
LEMMA FlagInvInit == Init => FlagInv
<1> SUFFICES ASSUME Init PROVE FlagInv
  OBVIOUS
<1>1. plan \in Plans /\ plan.sends \in Nat /\ MaxDepth \in Nat
  BY PlanTypes, WebSocketAssumption DEF Init
<1>2. sends = 0 /\ depth = [t \in Threads |-> 0]
  BY DEF Init
<1>3. sends \in 0..plan.sends /\ depth \in [Threads -> 0..MaxDepth]
  BY <1>1, <1>2
<1> QED
  BY <1>3 DEF Init, FlagInv

LEMMA FlagInvStep == FlagInv /\ ByteInv /\ SendInv' /\ [Next]_vars => FlagInv'
<1> SUFFICES ASSUME FlagInv, ByteInv, SendInv', [Next]_vars PROVE FlagInv'
  OBVIOUS
<1> USE DEF clientVars, transportVars, frameVars, sendVars, threadVars
<1>1. ASSUME NEW t \in Threads, Run(t) PROVE FlagInv'
  <2>1. ASSUME Check(t) PROVE FlagInv'
    <3>1. depth' \in [Threads -> 0..MaxDepth]
      BY <2>1, ReturnDepth DEF Check, FlagInv
    <3> QED
      BY <2>1, <3>1 DEF Check, FlagInv
  <2>2. ASSUME AfterFrame(t) PROVE FlagInv'
    BY <2>2 DEF AfterFrame, FlagInv
  <2>3. ASSUME AfterData(t) PROVE FlagInv'
    <3>1. depth' \in [Threads -> 0..MaxDepth]
      BY <2>3, ReturnDepth DEF AfterData, FlagInv
    <3> QED
      BY <2>3, <3>1 DEF AfterData, FlagInv
  <2>4. ASSUME AfterClose(t) PROVE FlagInv'
    <3>1. depth' \in [Threads -> 0..MaxDepth]
      BY <2>4, ReturnDepth DEF AfterClose, FlagInv
    <3> QED
      BY <2>4, <3>1 DEF AfterClose, SetCloseTcs, FlagInv
  <2>5. ASSUME StartReceiveData(t) PROVE FlagInv'
    <3>1. depth' \in [Threads -> 0..MaxDepth]
      BY <2>5, ReturnDepth DEF StartReceiveData, FlagInv
    <3> QED
      BY <2>5, <3>1 DEF StartReceiveData, FlagInv
  <2>6. ASSUME StartNextReceive(t) PROVE FlagInv'
    <3>1. depth' \in [Threads -> 0..MaxDepth]
      BY <2>6, ReturnDepth DEF StartNextReceive, FlagInv
    <3> QED
      BY <2>6, <3>1 DEF StartNextReceive, FlagInv
  <2>7. ASSUME Enter(t) PROVE FlagInv'
    <3>1. depth' \in [Threads -> 0..MaxDepth]
      BY <2>7, ReturnDepth DEF Enter, ProcessReceive, FlagInv
    <3> QED
      BY <2>7, <3>1 DEF Enter, ProcessReceive, FlagInv
  <2>8. ASSUME FinishReceiveData(t) PROVE FlagInv'
    <3>1. depth' \in [Threads -> 0..MaxDepth]
      <4>1. MaxDepth \in Nat /\ depth \in [Threads -> 0..MaxDepth]
        BY WebSocketAssumption DEF FlagInv
      <4> QED
        BY <2>8, <4>1 DEF FinishReceiveData
    <3> QED
      BY <2>8, <3>1 DEF FinishReceiveData, FlagInv
  <2>9. ASSUME SetClientClosed(t) PROVE FlagInv'
    BY <2>9 DEF SetClientClosed, FlagInv
  <2>10. ASSUME TellReader(t) PROVE FlagInv'
    BY <2>10 DEF TellReader, SetCloseTcs, FlagInv
  <2>11. ASSUME Parse(t) PROVE FlagInv'
    <3> DEFINE Good ==
           /\ depth' \in [Threads -> 0..MaxDepth]
           /\ strays' \subseteq {"overlap", "split", "missed", "gone", "restart"}
    <3>1. ASSUME ParseError(t) PROVE Good
      BY <3>1, ReturnDepth DEF ParseError, FlagInv
    <3>2. ASSUME ParseMore(t) PROVE Good
      BY <3>2, ReturnDepth DEF ParseMore, FlagInv
    <3>3. ASSUME NEW f, NEW p, NEW data, ParsesBody(t, f, p, data) PROVE Good
      <4>1. CloseFrame(t, f, p, data) \/ DataFrame(t, f, p, data)
        BY <3>3 DEF ParsesBody, ParseBody
      <4>2. ASSUME CloseFrame(t, f, p, data) PROVE Good
        BY <4>2 DEF CloseFrame, FlagInv
      <4>3. ASSUME DataFrame(t, f, p, data) PROVE Good
        <5>1. UNCHANGED <<depth, strays>>
          BY <4>3 DEF DataFrame
        <5> QED
          BY <5>1 DEF FlagInv
      <4> QED
        BY <4>1, <4>2, <4>3
    <3>4. ASSUME Return(t), UNCHANGED strays PROVE Good
      BY <3>4, ReturnDepth DEF FlagInv
    <3>5. Good
      BY <2>11, <3>1, <3>2, <3>3, <3>4, ParseKinds
    <3> HIDE DEF Good
    <3>6. UNCHANGED <<plan, gone, receiving, started, clientClosed, phase, webReceiving, sendVars,
                      closeTcs>>
      BY <2>11 DEF Parse
    <3> QED
      BY <3>5, <3>6 DEF FlagInv, Good
  <2> QED
    BY <1>1, <2>1, <2>2, <2>3, <2>4, <2>5, <2>6, <2>7, <2>8, <2>9, <2>10, <2>11 DEF Run
<1>2. ASSUME Transport PROVE FlagInv'
  <2>1. AnIdle \subseteq Threads
    BY DEF AnIdle, IdleReceivers, Threads
  <2>2. ASSUME FinishUpgrade PROVE FlagInv'
    BY <2>2 DEF FinishUpgrade, FlagInv
  <2>3. ASSUME NEW t \in Threads, FinishReceiveFailed(t) PROVE FlagInv'
    BY <2>3 DEF FinishReceiveFailed, FlagInv
  <2>4. ASSUME NEW t \in Threads, NEW n \in 1..BufferSize, FinishReceive(t, n) PROVE FlagInv'
    <3>1. depth' \in [Threads -> 0..MaxDepth]
      BY <2>4, ReturnDepth DEF FinishReceive, ProcessReceive, FlagInv
    <3> QED
      BY <2>4, <3>1 DEF FinishReceive, ProcessReceive, FlagInv
  <2> QED
    BY <1>2, <2>1, <2>2, <2>3, <2>4 DEF Transport
<1>3. plan \in Plans /\ plan.sends \in Nat
  BY PlanTypes DEF FlagInv
<1>4. nextIsStart' = TRUE
  BY DEF SendInv
<1>5. ASSUME NEW s \in Senders, Work(s) PROVE FlagInv'
  <2>1. UNCHANGED readVars /\ UNCHANGED <<sends, closeCalled>>
    BY <1>5 DEF Work, Acquire, SendFrame, FinishSend, SendClose, FinishSendClose, EndClose
  <2>2. sending' \in BOOLEAN
    BY <1>5 DEF Work, Acquire, SendFrame, FinishSend, SendClose, FinishSendClose, EndClose, Send,
                FlagInv
  <2>3. closeTcs' \in {"none", "pending", "set"}
    BY <1>5 DEF Work, Acquire, SendFrame, FinishSend, SendClose, FinishSendClose, EndClose,
                SetCloseTcs, FlagInv
  <2>4. strays' \subseteq {"overlap", "split", "missed", "gone", "restart"}
    BY <1>5 DEF Work, Acquire, SendFrame, FinishSend, SendClose, FinishSendClose, EndClose, FlagInv
  <2> QED
    BY <2>1, <2>2, <2>3, <2>4, <1>4 DEF FlagInv, readVars
<1>6. ASSUME NEW s \in Senders, CloseAsync(s) PROVE FlagInv'
  <2>1. UNCHANGED readVars /\ UNCHANGED <<sending, closeTcs, strays, nextIsStart>>
        /\ closeCalled' = TRUE /\ sends' = sends + 1 /\ sends < plan.sends
    BY <1>6 DEF CloseAsync
  <2> QED
    BY <1>3, <2>1 DEF FlagInv, readVars
<1>7. ASSUME NEW s \in Senders, NEW n \in Sizes, NEW end \in BOOLEAN, SendAsync(s, n, end)
      PROVE  FlagInv'
  <2>1. UNCHANGED readVars /\ UNCHANGED <<sending, closeTcs, strays, nextIsStart, closeCalled>>
        /\ sends' = sends + 1 /\ sends < plan.sends
    BY <1>7 DEF SendAsync
  <2> QED
    BY <1>3, <2>1 DEF FlagInv, readVars
<1>8. ASSUME Register PROVE FlagInv'
  BY <1>8 DEF Register, FlagInv
<1>9. ASSUME NEW n \in Segments, ReceiveAsync(n) PROVE FlagInv'
  BY <1>9 DEF ReceiveAsync, FlagInv
<1>10. ASSUME AppEnds PROVE FlagInv'
  BY <1>10 DEF AppEnds, FlagInv
<1>11. ASSUME ClientCloses PROVE FlagInv'
  BY <1>11 DEF ClientCloses, FlagInv
<1>12. CASE UNCHANGED vars
  BY <1>12 DEF vars, FlagInv
<1>13. CASE Next
  <2> HIDE DEF clientVars, transportVars, frameVars, sendVars, threadVars
  <2> QED
    BY <1>13, <1>1, <1>2, <1>5, <1>6, <1>7, <1>8, <1>9, <1>10, <1>11 DEF Next
<1> QED
  BY <1>12, <1>13

(* The four invariants, together.                                           *)
LEMMA ReadInvsHold == Spec => [](SendInv /\ ReceiveInv /\ ByteInv /\ FlagInv)
<1>1. Init => ByteInv /\ FlagInv
  BY ByteInvInit, FlagInvInit
<1>2. ByteInv /\ FlagInv /\ SendInv' /\ [Next]_vars => ByteInv' /\ FlagInv'
  BY ByteInvStep, FlagInvStep
<1> QED
  BY <1>1, <1>2, SendInvHolds, ReceiveInvHolds, PTL DEF Spec

(* Every variable of the web socket keeps to its type: nothing is read that *)
(* the client has not sent, nothing copied beyond the segment, and the nested *)
(* calls and the sends stay in their bounds.                                *)
THEOREM TypeCorrect == Spec => []TypeOK
<1>1. SendInv /\ ReceiveInv /\ ByteInv /\ FlagInv => TypeOK
  <2> SUFFICES ASSUME SendInv, ReceiveInv, ByteInv, FlagInv PROVE TypeOK
    OBVIOUS
  <2>1. plan \in Plans /\ taken \in 0..Len(Bytes) /\ have \in 0..BufferSize
    <3>1. Len(Bytes) \in Nat
      BY WireBytes DEF ByteInv
    <3> QED
      BY <3>1, WebSocketAssumption DEF ByteInv
  <2>2. /\ {gone, receiving, started, clientClosed, webReceiving, sending, nextIsStart,
            closeCalled} \subseteq BOOLEAN
        /\ phase \in {"upgrading", "open", "ended"} /\ closeTcs \in {"none", "pending", "set"}
        /\ depth \in [Threads -> 0..MaxDepth] /\ sends \in 0..plan.sends
        /\ strays \subseteq {"overlap", "split", "missed", "gone", "restart"}
    BY DEF FlagInv
  <2>3. /\ state \in {"Header", "Body", "Closing", "Close", "Error"}
        /\ tcs \in {"none", "pending", "cancelled"}
        /\ at \in [Threads -> {"out", "receive", "check", "parse", "header", "last", "start",
                               "flagged", "enter", "finish", "closing", "fail", "tell"}]
    BY DEF ReceiveInv, ReadInv, Points
  <2>4. frame \in Frame /\ segment \in Nat /\ filled \in Seq(Range(Bytes))
    BY DEF ByteInv
  <2>5. /\ \A s \in Senders : jobs[s].pc \in {"idle", "wait", "frame", "sending", "closing",
                                              "closeSending", "closeSent", "closeWait"}
        /\ sendLock \in Senders \cup {Free} /\ used \in 0..SendLimit
    BY DEF SendInv, SendTypes, SenderJob, SenderPoints
  <2> QED
    BY <2>1, <2>2, <2>3, <2>4, <2>5 DEF TypeOK
<1> QED
  BY <1>1, ReadInvsHold, PTL

----------------------------------------------------------------------------
(* What was delivered: the order of the bytes through headers, bodies,      *)
(* receives and segments                                                    *)

NoHeader == \A t \in Threads : at[t] # "header"

(* What was read, in the application's hands or on the way there.           *)
Done == IF tcs = "pending" THEN got \o filled ELSE got

(* Between two frames.                                                      *)
AtHeader(k) ==
    /\ state = "Header" \/ ~NoHeader
    /\ taken = Len(Before(Wire, k))
    /\ got = Before(Told, k)
    /\ tcs = "pending" => filled = <<>>

(* In the body of the k-th frame, of which c bytes were read.               *)
Within(k, f, c) ==
    /\ f.op = plan.frames[k].op /\ f.op # "bad" /\ f.last = plan.frames[k].last
    /\ c \in 0..plan.frames[k].len /\ f.len = plan.frames[k].len - c
    /\ f.op = "close" => c = 0

InBody(k, c) ==
    /\ state = "Body" /\ NoHeader
    /\ Within(k, frame, c)
    /\ taken = Start(k) + HeaderSize + c
    /\ frame.op = "data" => Done = Before(Told, k - 1) \o SubSeq(Body(k), 1, c)
    /\ frame.op = "close" => got = Before(Told, k - 1) /\ (tcs = "pending" => filled = <<>>)

InStep ==
    \/ state \notin {"Header", "Body"} /\ NoHeader
    \/ \E k \in 0..Len(plan.frames) : AtHeader(k)
    \/ \E k \in 1..Len(plan.frames) : \E c \in 0..plan.frames[k].len : InBody(k, c)

DeliverInv ==
    "overlap" \notin strays =>
       /\ ~clientClosed => InStep
       /\ at[App] = "receive" => filled = <<>>
       /\ got \in Seq(Items) /\ Begins(got, Expected)

----------------------------------------------------------------------------
(* What was copied into the segment consists of bytes.                      *)
LEMMA FilledItems ==
    ASSUME ByteInv PROVE filled \in Seq(Items)
<1>1. Bytes \in Seq(Items)
  BY WireBytes DEF ByteInv
<1>2. Range(Bytes) \subseteq Items
  BY <1>1, RangeOfSeq
<1> QED
  BY <1>2, SeqMonotonic DEF ByteInv

(* What is returned of the first k frames.                                  *)
LEMMA ToldBefore ==
    ASSUME plan \in Plans
    PROVE  /\ Before(Told, 0) = <<>>
           /\ \A k \in 0..Len(plan.frames) :
                 Before(Told, k) \in Seq(Items) /\ Begins(Before(Told, k), Expected)
           /\ \A k \in 1..Len(plan.frames) : Before(Told, k) = Before(Told, k - 1) \o Told[k]
<1> DEFINE N == Len(plan.frames)
<1>1. Told \in Seq(Seq(Items)) /\ Len(Told) = N /\ Expected = FlattenSeq(Told)
  BY ToldTypes
<1> HIDE DEF N
<1>2. /\ Before(Told, 0) = <<>>
      /\ \A k \in 0..N : Before(Told, k) \in Seq(Items)
      /\ \A k \in 1..N : Before(Told, k) = Before(Told, k - 1) \o Told[k]
  BY <1>1, BeforeProperties
<1>3. \A k \in 0..N : Begins(Before(Told, k), Expected)
  BY <1>1, BeforeBegins
<1> QED
  BY <1>2, <1>3 DEF N

(* To begin is transitive.                                                  *)
LEMMA BeginsTrans ==
    ASSUME NEW S, NEW r \in Seq(S), NEW s \in Seq(S), NEW t \in Seq(S), Begins(r, s), Begins(s, t)
    PROVE  Begins(r, t)
  BY DEF Begins

(* A part of the k-th frame's body, behind what the frames before it tell.  *)
LEMMA PartBegins ==
    ASSUME plan \in Plans, NEW k \in 1..Len(plan.frames), plan.frames[k].op = "data",
           NEW c \in 0..plan.frames[k].len
    PROVE  /\ Before(Told, k - 1) \o SubSeq(Body(k), 1, c) \in Seq(Items)
           /\ Begins(Before(Told, k - 1) \o SubSeq(Body(k), 1, c), Expected)
<1> DEFINE s == Before(Told, k - 1)
           b == Body(k)
           e == EndOf(k)
<1>0. Len(plan.frames) \in Nat /\ plan.frames[k].len \in Nat /\ k - 1 \in 0..Len(plan.frames)
      /\ k \in 0..Len(plan.frames)
  BY PlanTypes
<1>1. s \in Seq(Items) /\ b \in Seq(Items) /\ Len(b) = plan.frames[k].len /\ e \in Seq(Items)
  BY <1>0, ToldBefore, BodyTypes
<1>2. Before(Told, k) = s \o (b \o e)
  BY ToldBefore, ToldTypes
<1>3. Before(Told, k) \in Seq(Items) /\ Begins(Before(Told, k), Expected)
  BY <1>0, ToldBefore
<1>4. Expected \in Seq(Items)
  <2>1. Len(plan.frames) \in 0..Len(plan.frames)
    BY <1>0
  <2> QED
    BY <2>1, ToldTypes, BeforeProperties
<1> HIDE DEF s, b, e
<1>5. c \in 0..Len(b)
  BY <1>1
<1>6. SubSeq(b, 1, c) \in Seq(Items) /\ Len(SubSeq(b, 1, c)) = c
      /\ \A i \in 1..c : SubSeq(b, 1, c)[i] = b[i]
  BY <1>1, <1>5
<1>7. s \o SubSeq(b, 1, c) \in Seq(Items)
  BY <1>1, <1>6
<1>8. Begins(s \o SubSeq(b, 1, c), s \o (b \o e))
  <2>1. b \o e \in Seq(Items) /\ Len(b \o e) = Len(b) + Len(e) /\ Len(b) \in Nat /\ Len(e) \in Nat
        /\ \A i \in 1..Len(b) : (b \o e)[i] = b[i]
    <3>1. b \in Seq(Items) /\ e \in Seq(Items)
      BY <1>1
    <3> QED
      BY <3>1, ConcatElements
  <2> DEFINE w == b \o e
             v == SubSeq(b, 1, c)
  <2>2. /\ w \in Seq(Items) /\ v \in Seq(Items) /\ Len(v) = c /\ c <= Len(w) /\ c \in Nat
        /\ \A i \in 1..c : v[i] = w[i]
    BY <1>5, <1>6, <2>1
  <2> HIDE DEF w, v
  <2>3. Begins(s \o v, s \o w)
    BY <1>1, <2>2 DEF Begins
  <2> QED
    BY <2>3 DEF w, v
<1>9. Begins(s \o SubSeq(b, 1, c), Expected)
  BY <1>2, <1>3, <1>4, <1>7, <1>8, BeginsTrans
<1> QED
  BY <1>7, <1>9 DEF s, b

(* A part of a sequence.                                                    *)
LEMMA PartOf ==
    ASSUME NEW S, NEW b \in Seq(S), NEW c \in Nat, NEW n \in Nat, c + n <= Len(b)
    PROVE  /\ SubSeq(b, c + 1, c + n) \in Seq(S)
           /\ Len(SubSeq(b, c + 1, c + n)) = n
           /\ \A i \in 1..n : SubSeq(b, c + 1, c + n)[i] = b[c + i]
<1>1. Len(b) \in Nat /\ \A i \in (c + 1)..(c + n) : b[i] \in S
  OBVIOUS
<1>2. /\ SubSeq(b, c + 1, c + n) \in Seq(S)
      /\ Len(SubSeq(b, c + 1, c + n)) = IF c + 1 <= c + n THEN (c + n) - (c + 1) + 1 ELSE 0
      /\ \A i \in 1..((c + n) - (c + 1) + 1) : SubSeq(b, c + 1, c + n)[i] = b[(c + 1) + i - 1]
  <2>1. c + 1 \in Int /\ c + n \in Int
    OBVIOUS
  <2> QED
    BY <1>1, <2>1, SubSeqProperties
<1>3. (c + n) - (c + 1) + 1 = n /\ \A i \in 1..n : (c + 1) + i - 1 = c + i
  OBVIOUS
<1> QED
  BY <1>2, <1>3

(* From byte p on, n bytes of the k-th frame's body, behind the first c.    *)
OnWire(k, c, n, p) ==
    /\ plan \in Plans /\ k \in 1..Len(plan.frames) /\ c \in Nat /\ n \in Nat
    /\ c + n <= plan.frames[k].len /\ p = Start(k) + HeaderSize + c

First(k, c) == SubSeq(Body(k), 1, c)
Arrived(p, n) == SubSeq(Bytes, p + 1, p + n)

(* The bytes of a body, as they are on the wire.                            *)
LEMMA BodyOnWire ==
    ASSUME NEW k, NEW c, NEW n, NEW p, OnWire(k, c, n, p)
    PROVE  /\ Arrived(p, n) \in Seq(Items) /\ First(k, c) \in Seq(Items)
           /\ First(k, c) \o Arrived(p, n) = First(k, c + n)
           /\ p + n \in 1..Len(Bytes) /\ Bytes[p + n].frame = k
<1> DEFINE L == plan.frames[k].len
           b == Body(k)
<1>0. /\ plan \in Plans /\ k \in 1..Len(plan.frames) /\ c \in Nat /\ n \in Nat
      /\ c + n <= L /\ p = Start(k) + HeaderSize + c
  BY DEF OnWire
<1>1. /\ Start(k) \in Nat /\ HeaderSize \in Nat /\ HeaderSize > 0 /\ L \in Nat
      /\ Bytes \in Seq(Items) /\ Len(Bytes) \in Nat
      /\ Start(k) + HeaderSize + L <= Len(Bytes)
      /\ \A i \in 1..HeaderSize : Bytes[Start(k) + i] = Item(k, "header", i)
      /\ \A i \in 1..L : Bytes[Start(k) + HeaderSize + i] = Item(k, "body", i)
  BY <1>0, WireBytes, PlanTypes
<1>2. /\ b \in Seq(Items) /\ Len(b) = L
      /\ \A i \in 1..L : b[i] = Item(k, "body", i)
  BY <1>0, BodyTypes
<1>3. c + n <= L /\ c \in Nat /\ n \in Nat
  BY <1>0
<1> HIDE DEF L, b
<1>4. p \in Nat /\ p + n <= Len(Bytes) /\ p + n >= 1
  <2>1. /\ Start(k) \in Nat /\ HeaderSize \in Nat /\ HeaderSize > 0 /\ L \in Nat
        /\ Len(Bytes) \in Nat /\ Start(k) + HeaderSize + L <= Len(Bytes)
    BY <1>1
  <2> DEFINE q == Start(k)
             N == Len(Bytes)
  <2>2. q \in Nat /\ N \in Nat /\ q + HeaderSize + L <= N /\ p = q + HeaderSize + c
    BY <1>0, <2>1
  <2> HIDE DEF q, N
  <2>3. p \in Nat /\ p + n <= N /\ p + n >= 1
    BY <1>3, <2>1, <2>2
  <2> QED
    BY <2>3 DEF N
<1>5. /\ SubSeq(Bytes, p + 1, p + n) \in Seq(Items)
      /\ Len(SubSeq(Bytes, p + 1, p + n)) = n
      /\ \A i \in 1..n : SubSeq(Bytes, p + 1, p + n)[i] = Bytes[p + i]
  <2>1. Bytes \in Seq(Items) /\ p \in Nat /\ p + n <= Len(Bytes) /\ n \in Nat
    BY <1>1, <1>3, <1>4
  <2> QED
    BY <2>1, PartOf
<1>6. /\ SubSeq(b, c + 1, c + n) \in Seq(Items)
      /\ Len(SubSeq(b, c + 1, c + n)) = n
      /\ \A i \in 1..n : SubSeq(b, c + 1, c + n)[i] = b[c + i]
  <2>1. b \in Seq(Items) /\ c + n <= Len(b) /\ c \in Nat /\ n \in Nat
    BY <1>2, <1>3
  <2> QED
    BY <2>1, PartOf
<1>7. \A i \in 1..n : Bytes[p + i] = b[c + i]
  <2>1. ASSUME NEW i \in 1..n PROVE Bytes[p + i] = b[c + i]
    <3>1. c + i \in 1..L /\ p + i = Start(k) + HeaderSize + (c + i)
      BY <1>0, <1>1, <1>3
    <3> QED
      BY <1>1, <1>2, <3>1
  <2> QED
    BY <2>1
<1>8. SubSeq(Bytes, p + 1, p + n) = SubSeq(b, c + 1, c + n)
  <2> QED
    BY <1>5, <1>6, <1>7, SeqEqual
<1>9. SubSeq(b, 1, c) \o SubSeq(b, c + 1, c + n) = SubSeq(b, 1, c + n) /\ SubSeq(b, 1, c) \in Seq(Items)
  <2>1. 1 \in 1..(Len(b) + 1) /\ c \in (1 - 1)..Len(b) /\ c + n \in c..Len(b)
    BY <1>1, <1>2, <1>3
  <2>2. SubSeq(b, 1, c) \in Seq(Items)
    BY <1>2, <2>1
  <2> QED
    BY <1>2, <2>1, <2>2, ConcatAdjacentSubSeq
<1>10. Bytes[p + n].frame = k
  <2>1. CASE c + n = 0
    <3>1. p + n = Start(k) + HeaderSize /\ HeaderSize \in 1..HeaderSize
      BY <1>0, <1>1, <2>1
    <3>2. Bytes[p + n] = Item(k, "header", HeaderSize)
      <4> QED
        BY <1>1, <3>1
    <3> QED
      BY <3>2 DEF Item
  <2>2. CASE c + n # 0
    <3>1. p + n = Start(k) + HeaderSize + (c + n) /\ c + n \in 1..L
      BY <1>0, <1>1, <1>3, <2>2
    <3>2. Bytes[p + n] = Item(k, "body", c + n)
      <4> QED
        BY <1>1, <3>1
    <3> QED
      BY <3>2 DEF Item
  <2> QED
    BY <2>1, <2>2
<1>11. p + n \in 1..Len(Bytes)
  <2>1. Len(Bytes) \in Nat
    BY <1>1
  <2> QED
    BY <1>3, <1>4, <2>1
<1> DEFINE v == SubSeq(b, 1, c)
           w == SubSeq(b, c + 1, c + n)
           x == SubSeq(Bytes, p + 1, p + n)
           y == SubSeq(b, 1, c + n)
<1>12. x = w /\ v \o w = y /\ x \in Seq(Items) /\ v \in Seq(Items)
  BY <1>5, <1>8, <1>9
<1> HIDE DEF v, w, x, y
<1>13. v \o x = y
  BY <1>12
<1>14. First(k, c) = v /\ Arrived(p, n) = x /\ First(k, c + n) = y
  BY DEF First, Arrived, v, x, y, b
<1> QED
  BY <1>10, <1>11, <1>12, <1>13, <1>14

(* A frame that is about to be parsed, of which c bytes were read.          *)
Ready(k, f, p, c) ==
    /\ k \in 1..Len(plan.frames)
    /\ Within(k, f, c)
    /\ p = Start(k) + HeaderSize + c
    /\ f.op = "data" => got \o filled = Before(Told, k - 1) \o SubSeq(Body(k), 1, c)
    /\ f.op = "close" => got = Before(Told, k - 1) /\ filled = <<>>

(* Who parses is alone, and its caller waits.                               *)
LEMMA ParserAlone ==
    ASSUME ReceiveInv, "overlap" \notin strays, NEW t \in Threads, at[t] = "parse"
    PROVE  /\ have # 0 /\ ~clientClosed /\ tcs = "pending" /\ at[App] # "receive"
           /\ NoHeader /\ at \in [Threads -> Points] /\ App \in Threads
<1>1. OneParses /\ ReadInv
  BY DEF ReceiveInv
<1>2. have # 0 /\ tcs # "none"
  BY <1>1 DEF OneParses
<1>3. ~clientClosed
  BY <1>1, <1>2 DEF OneParses
<1>4. tcs = "pending" /\ at[App] # "receive"
  BY <1>1, <1>2, <1>3 DEF ReadInv
<1>5. NoHeader
  BY <1>1 DEF OneParses, Parsing, NoHeader
<1> QED
  BY <1>1, <1>2, <1>3, <1>4, <1>5 DEF ReadInv, Threads

(* A frame in the first k of which a byte is left to be read.               *)
LEMMA HeaderReady ==
    ASSUME ByteInv, have # 0, NEW k \in 0..Len(plan.frames), taken = Len(Before(Wire, k))
    PROVE  /\ k + 1 \in 1..Len(plan.frames) /\ Start(k + 1) = taken
           /\ Aligned /\ Bytes[taken + 1].frame = k + 1
<1> DEFINE N == Len(plan.frames)
<1>1. /\ N \in Nat /\ Len(Bytes) \in Nat /\ Len(Bytes) = Len(Before(Wire, N))
      /\ \A i \in 0..N : Len(Before(Wire, i)) \in Nat
      /\ HeaderSize \in Nat /\ HeaderSize > 0
  BY WireBytes, PlanTypes DEF ByteInv
<1>2. have \in Nat /\ have > 0 /\ taken + have <= Len(Bytes) /\ taken \in Nat
  BY WebSocketAssumption DEF ByteInv
<1>3. k # N
  BY <1>1, <1>2
<1>4. k + 1 \in 1..N /\ (k + 1) - 1 = k
  BY <1>1, <1>3
<1>5. Start(k + 1) = taken
  BY <1>4 DEF Start
<1>6. Bytes[Start(k + 1) + 1] = Item(k + 1, "header", 1)
  <2>1. 1 \in 1..HeaderSize
    BY <1>1
  <2>2. \A n \in 1..HeaderSize : Bytes[Start(k + 1) + n] = Item(k + 1, "header", n)
    BY <1>4, WireBytes DEF ByteInv
  <2> QED
    BY <2>1, <2>2
<1>7. Bytes[taken + 1] = Item(k + 1, "header", 1)
  BY <1>5, <1>6
<1>8. Aligned
  BY <1>2, <1>7 DEF Aligned, Item
<1> QED
  BY <1>4, <1>5, <1>7, <1>8 DEF Item

(* Whatever is parsed is a frame of the client, from the byte it goes on with. *)
LEMMA ParsesReady ==
    ASSUME ReceiveInv, ByteInv, DeliverInv, "overlap" \notin strays,
           NEW t \in Threads, at[t] = "parse", NEW f, NEW p, NEW data, ParsesBody(t, f, p, data)
    PROVE  \E k, c : Ready(k, f, p, c)
<1>1. have # 0 /\ ~clientClosed /\ tcs = "pending" /\ NoHeader
  BY ParserAlone
<1>2. InStep
  BY <1>1 DEF DeliverInv
<1>3. filled \in Seq(Items) /\ got \in Seq(Items)
  BY FilledItems DEF DeliverInv
<1>4. CASE state = "Header"
  <2>1. PICK k \in 0..Len(plan.frames) : AtHeader(k)
    BY <1>1, <1>2, <1>4 DEF InStep, InBody
  <2>2. taken = Len(Before(Wire, k)) /\ got = Before(Told, k) /\ filled = <<>>
    BY <1>1, <2>1 DEF AtHeader
  <2>3. /\ k + 1 \in 1..Len(plan.frames) /\ Start(k + 1) = taken
        /\ Aligned /\ Bytes[taken + 1].frame = k + 1
    BY <1>1, <2>2, HeaderReady
  <2>4. f = plan.frames[k + 1] /\ p = taken + HeaderSize /\ f.op # "bad"
    BY <1>4, <2>3 DEF ParsesBody
  <2>5. f.len \in Nat /\ HeaderSize \in Nat /\ taken \in Nat
    BY <2>3, <2>4, PlanTypes DEF ByteInv
  <2>6. Within(k + 1, f, 0)
    BY <2>4, <2>5 DEF Within
  <2>7. p = Start(k + 1) + HeaderSize + 0
    BY <2>3, <2>4, <2>5
  <2>8. (k + 1) - 1 = k
    OBVIOUS
  <2>9. got \o filled = Before(Told, k) \o SubSeq(Body(k + 1), 1, 0)
    <3>1. SubSeq(Body(k + 1), 1, 0) = <<>>
      BY SubSeqEmpty
    <3> QED
      BY <2>2, <3>1
  <2>10. Ready(k + 1, f, p, 0)
    BY <2>2, <2>3, <2>6, <2>7, <2>8, <2>9 DEF Ready
  <2> QED
    BY <2>10
<1>5. CASE state = "Body"
  <2>1. PICK k \in 1..Len(plan.frames) : \E c \in 0..plan.frames[k].len : InBody(k, c)
    BY <1>1, <1>2, <1>5 DEF InStep, AtHeader
  <2>2. PICK c \in 0..plan.frames[k].len : InBody(k, c)
    BY <2>1
  <2>3. f = frame /\ p = taken
    BY <1>5 DEF ParsesBody
  <2>4. Ready(k, f, p, c)
    BY <1>1, <2>2, <2>3 DEF InBody, Ready, Done
  <2> QED
    BY <2>4
<1> QED
  BY <1>4, <1>5 DEF ParsesBody

----------------------------------------------------------------------------
(* A close frame is delivered when all of it has arrived.                   *)
LEMMA CloseFrameDelivers ==
    ASSUME ReceiveInv, ByteInv, DeliverInv, "overlap" \notin strays, UNCHANGED <<plan, clientClosed>>,
           NEW t \in Threads, at[t] = "parse", NEW f \in Frame, NEW p, NEW data, Readable(p, data),
           NEW k, NEW c, Ready(k, f, p, c), f.op = "close",
           CloseFrame(t, f, p, data)
    PROVE  DeliverInv'
<1>1. /\ tcs = "pending" /\ NoHeader /\ at[App] # "receive" /\ at \in [Threads -> Points]
      /\ App \in Threads
  BY ParserAlone
<1>2. /\ k \in 1..Len(plan.frames) /\ Within(k, f, 0) /\ p = Start(k) + HeaderSize + 0
      /\ got = Before(Told, k - 1) /\ filled = <<>>
  BY DEF Ready, Within
<1>3. /\ f.len \in Nat /\ data \in Nat /\ Start(k) \in Nat /\ HeaderSize \in Nat /\ HeaderSize > 0
      /\ plan \in Plans
  BY <1>2, WireBytes, PlanTypes DEF Frame, Readable, ByteInv
<1>4. /\ Wire' = Wire /\ Told' = Told /\ Body(k)' = Body(k) /\ Start(k)' = Start(k)
      /\ Expected' = Expected /\ Items' = Items
  BY BytesStay DEF Start, Before, Expected, Items, EndOf, Item, Body
<1>5. CASE data < f.len
  <2>1. /\ taken' = p /\ state' = "Body" /\ UNCHANGED <<tcs, got, filled>> /\ frame' = f
        /\ at' = [at EXCEPT ![t] = "start"] /\ strays \subseteq strays'
    BY <1>5 DEF CloseFrame, Goto
  <2>2. NoHeader' /\ at'[App] # "receive"
    BY <1>1, <2>1 DEF NoHeader
  <2>3. Within(k, frame, 0)'
    BY <1>2, <2>1 DEF Within
  <2>4. InBody(k, 0)'
    BY <1>2, <1>4, <2>1, <2>2, <2>3 DEF InBody, Before
  <2>5. InStep'
    BY <1>2, <1>3, <2>4 DEF InStep, Within
  <2> QED
    BY <1>4, <2>1, <2>2, <2>5 DEF DeliverInv
<1>6. CASE ~(data < f.len)
  <2>1. /\ state' = "Closing" /\ got' = got \o <<Item(Bytes[p].frame, "close", 0)>>
        /\ at' = [at EXCEPT ![t] = "closing"]
    BY <1>1, <1>6 DEF CloseFrame, Goto, Complete
  <2>2. NoHeader' /\ at'[App] # "receive"
    BY <1>1, <2>1 DEF NoHeader
  <2>3. InStep'
    BY <2>1, <2>2 DEF InStep
  <2>4. Bytes[p].frame = k
    <3>1. HeaderSize \in 1..HeaderSize /\ p = Start(k) + HeaderSize
      BY <1>2, <1>3
    <3>2. Bytes[Start(k) + HeaderSize] = Item(k, "header", HeaderSize)
      BY <1>2, <1>3, <3>1, WireBytes
    <3> QED
      BY <3>1, <3>2 DEF Item
  <2>5. Told[k] = <<>> \o <<Item(k, "close", 0)>>
    BY <1>2, <1>3, ToldTypes DEF Within, EndOf
  <2>6. Told[k] = <<Item(k, "close", 0)>>
    BY <2>5
  <2>7. got' = Before(Told, k)
    BY <1>2, <1>3, <2>1, <2>4, <2>6, ToldBefore
  <2>8. k \in 0..Len(plan.frames)
    BY <1>2
  <2>9. got' \in Seq(Items) /\ Begins(got', Expected)
    BY <1>3, <2>7, <2>8, ToldBefore
  <2> QED
    BY <1>4, <2>2, <2>3, <2>9 DEF DeliverInv
<1> QED
  BY <1>5, <1>6

(* ConcatAssociative, for items.                                            *)
LEMMA ItemsAssociate ==
    ASSUME NEW r \in Seq(Items), NEW s \in Seq(Items), NEW t \in Seq(Items)
    PROVE  (r \o s) \o t = r \o (s \o t)
  BY ConcatAssociative

(* A data frame, or the part of it that has arrived, is delivered in its    *)
(* place.                                                                   *)
LEMMA DataFrameDelivers ==
    ASSUME ReceiveInv, ByteInv, DeliverInv, "overlap" \notin strays, UNCHANGED <<plan, clientClosed>>,
           NEW t \in Threads, at[t] = "parse", NEW f \in Frame, NEW p, NEW data, Readable(p, data),
           NEW k, NEW c, Ready(k, f, p, c), f.op = "data",
           DataFrame(t, f, p, data)
    PROVE  DeliverInv'
<1>0. PICK n : n = Min({f.len, segment, data})
  OBVIOUS
<1> DEFINE part == SubSeq(Bytes, p + 1, p + n)
           all == filled \o part
           end == IF f.last THEN <<Item(Bytes[p + n].frame, "end", 0)>> ELSE <<>>
           b == Body(k)
           s == Before(Told, k - 1)
           L == plan.frames[k].len
<1>1. /\ tcs = "pending" /\ NoHeader /\ at[App] # "receive" /\ at \in [Threads -> Points]
      /\ App \in Threads
  BY ParserAlone
<1>2. /\ k \in 1..Len(plan.frames) /\ Within(k, f, c) /\ p = Start(k) + HeaderSize + c
      /\ got \o filled = s \o SubSeq(b, 1, c)
  BY DEF Ready
<1>3. /\ f.len \in Nat /\ data \in Nat /\ segment \in Nat /\ Start(k) \in Nat /\ HeaderSize \in Nat
      /\ L \in Nat /\ plan \in Plans
  BY <1>2, WireBytes, PlanTypes DEF Frame, Readable, ByteInv
<1>4. n \in Nat /\ n <= f.len /\ n <= segment /\ n <= data
  <2>1. n \in {f.len, segment, data} /\ n <= f.len /\ n <= segment /\ n <= data
    BY <1>0, <1>3, MinOfThree
  <2> QED
    BY <1>3, <2>1
<1>5. c \in Nat /\ f.len = L - c /\ c + n <= L /\ c + n \in 0..L /\ (n = f.len => c + n = L)
  <2>1. c \in 0..L /\ f.len = L - c
    BY <1>2 DEF Within
  <2> HIDE DEF L
  <2> QED
    BY <1>3, <1>4, <2>1
<1>6. /\ Wire' = Wire /\ Told' = Told /\ Body(k)' = Body(k) /\ Start(k)' = Start(k)
      /\ Expected' = Expected /\ Items' = Items
  BY BytesStay DEF Start, Before, Expected, Items, EndOf, Item, Body
<1>7. /\ taken' = p + n /\ filled' = all /\ frame' = [f EXCEPT !.len = @ - n] /\ state' = "Body"
      /\ strays' = strays
      /\ IF n = f.len THEN Goto(t, "header") /\ Complete(all \o end)
         ELSE Goto(t, "last") /\ IF n = segment THEN Complete(all) ELSE UNCHANGED <<tcs, got>>
  BY <1>0 DEF DataFrame
<1>8. /\ part \in Seq(Items) /\ SubSeq(b, 1, c) \o part = SubSeq(b, 1, c + n)
      /\ SubSeq(b, 1, c) \in Seq(Items) /\ Bytes[p + n].frame = k
  <2>1. OnWire(k, c, n, p)
    BY <1>2, <1>3, <1>4, <1>5 DEF OnWire
  <2>2. /\ Arrived(p, n) \in Seq(Items) /\ First(k, c) \in Seq(Items)
        /\ First(k, c) \o Arrived(p, n) = First(k, c + n) /\ Bytes[p + n].frame = k
    BY <2>1, BodyOnWire
  <2> QED
    BY <2>2 DEF First, Arrived
<1>9. filled \in Seq(Items) /\ got \in Seq(Items) /\ s \in Seq(Items)
  <2>1. k - 1 \in 0..Len(plan.frames)
    BY <1>2
  <2> QED
    BY <1>3, <2>1, FilledItems, ToldBefore DEF DeliverInv
<1>10. all \in Seq(Items) /\ got \o all = s \o SubSeq(b, 1, c + n)
  <2> HIDE DEF part, s, b
  <2>0. /\ got \in Seq(Items) /\ filled \in Seq(Items) /\ part \in Seq(Items)
        /\ s \in Seq(Items) /\ SubSeq(b, 1, c) \in Seq(Items)
    BY <1>8, <1>9
  <2>1. got \o (filled \o part) = (got \o filled) \o part
    <3>1. got \in Seq(Items) /\ filled \in Seq(Items) /\ part \in Seq(Items)
      BY <2>0
    <3> QED
      BY <3>1, ItemsAssociate
  <2>2. (s \o SubSeq(b, 1, c)) \o part = s \o (SubSeq(b, 1, c) \o part)
    <3> DEFINE v == SubSeq(b, 1, c)
    <3>1. s \in Seq(Items) /\ v \in Seq(Items) /\ part \in Seq(Items)
      BY <2>0
    <3> HIDE DEF v
    <3>2. (s \o v) \o part = s \o (v \o part)
      BY <3>1, ItemsAssociate
    <3> QED
      BY <3>2 DEF v
  <2>3. filled \o part \in Seq(Items)
    BY <1>8, <1>9, ConcatProperties
  <2> QED
    BY <1>2, <1>8, <2>1, <2>2, <2>3
<1>11. s \o SubSeq(b, 1, c + n) \in Seq(Items) /\ Begins(s \o SubSeq(b, 1, c + n), Expected)
  <2> QED
    BY <1>2, <1>3, <1>5, PartBegins DEF Within
<1>12. CASE n = f.len
  <2>1. /\ at' = [at EXCEPT ![t] = "header"] /\ tcs' = "none" /\ got' = got \o (all \o end)
    BY <1>1, <1>7, <1>12 DEF Goto, Complete
  <2>2. end = EndOf(k)
    BY <1>2, <1>8 DEF EndOf, Within
  <2>3. SubSeq(b, 1, c + n) = b
    <3>1. b \in Seq(Items) /\ Len(b) = L
      BY <1>2, <1>3, BodyTypes
    <3> QED
      BY <1>5, <1>12, <3>1, SubSeqFull
  <2>4. EndOf(k) \in Seq(Items) /\ b \in Seq(Items)
    BY <1>2, <1>3, BodyTypes
  <2>5. got \o (all \o EndOf(k)) = (got \o all) \o EndOf(k)
    <3> HIDE DEF all
    <3>1. got \in Seq(Items) /\ all \in Seq(Items) /\ EndOf(k) \in Seq(Items)
      BY <1>9, <1>10, <2>4
    <3> QED
      BY <3>1, ItemsAssociate
  <2>6. (s \o b) \o EndOf(k) = s \o (b \o EndOf(k))
    <3> HIDE DEF s, b
    <3> QED
      BY <1>9, <2>4, ItemsAssociate
  <2>7. Before(Told, k) = s \o (b \o EndOf(k))
    BY <1>2, <1>3, ToldTypes, ToldBefore DEF Within
  <2>8. got' = Before(Told, k)
    BY <1>10, <2>1, <2>2, <2>3, <2>5, <2>6, <2>7
  <2>9. taken' = Len(Before(Wire, k))
    <3>1. Len(Before(Wire, k)) = Start(k) + HeaderSize + L
      BY <1>2, <1>3, WireBytes
    <3>2. p + n = Start(k) + HeaderSize + L
      <4> HIDE DEF L
      <4> QED
        BY <1>2, <1>3, <1>4, <1>5, <1>12
    <3> QED
      BY <1>7, <3>1, <3>2
  <2>10. ~NoHeader' /\ at'[App] # "receive"
    BY <1>1, <2>1 DEF NoHeader
  <2>11. AtHeader(k)' /\ k \in 0..Len(plan.frames)
    <3>1. Before(Told, k)' = Before(Told, k) /\ Before(Wire, k)' = Before(Wire, k)
      BY <1>6 DEF Before
    <3>2. (state = "Header" \/ ~NoHeader)' /\ tcs' = "none"
      BY <2>1, <2>10
    <3>3. AtHeader(k)'
      BY <2>8, <2>9, <3>1, <3>2 DEF AtHeader
    <3> QED
      BY <1>2, <3>3
  <2>12. InStep'
    BY <2>11 DEF InStep
  <2>13. got' \in Seq(Items) /\ Begins(got', Expected)
    BY <1>3, <2>8, <2>11, ToldBefore
  <2> QED
    BY <1>6, <2>10, <2>12, <2>13 DEF DeliverInv
<1>13. CASE n # f.len
  <2>1. at' = [at EXCEPT ![t] = "last"]
    BY <1>7, <1>13 DEF Goto
  <2>2. \/ tcs' = "none" /\ got' = got \o all
        \/ tcs' = "pending" /\ got' = got
    BY <1>1, <1>7, <1>13 DEF Complete
  <2>3. Done' = got \o all
    BY <1>7, <2>2 DEF Done
  <2>4. NoHeader' /\ at'[App] # "receive"
    BY <1>1, <2>1 DEF NoHeader
  <2>5. /\ frame'.op = f.op /\ frame'.last = f.last /\ frame'.len = f.len - n
    BY <1>7 DEF Frame
  <2>6. Within(k, frame', c + n)
    <3>1. c + n \in 0..L /\ f.len - n = L - (c + n)
      <4> HIDE DEF L
      <4> QED
        BY <1>3, <1>4, <1>5
    <3> QED
      BY <1>2, <2>5, <3>1 DEF Within
  <2>7. taken' = Start(k) + HeaderSize + (c + n)
    <3> QED
      BY <1>2, <1>3, <1>4, <1>5, <1>7
  <2>8. Within(k, frame, c + n)'
    BY <2>6 DEF Within
  <2> HIDE DEF all
  <2>9. InBody(k, c + n)'
    <3>1. /\ Before(Told, k - 1)' = s /\ Body(k)' = b /\ Start(k)' = Start(k)
      BY <1>6 DEF Before
    <3>2. state' = "Body" /\ frame'.op = "data"
      BY <1>7, <2>5
    <3>3. Done' = s \o SubSeq(b, 1, c + n)
      BY <1>10, <2>3
    <3> HIDE DEF s, b
    <3> QED
      BY <2>4, <2>7, <2>8, <3>1, <3>2, <3>3 DEF InBody
  <2>10. InStep'
    <3>1. k \in 1..Len(plan.frames)' /\ c + n \in 0..plan'.frames[k].len
      BY <1>2, <1>5
    <3> QED
      BY <2>9, <3>1 DEF InStep
  <2>11. got' \in Seq(Items) /\ Begins(got', Expected)
    <3>1. CASE got' = got
      BY <1>9, <3>1 DEF DeliverInv
    <3>2. CASE got' = got \o all
      BY <1>10, <1>11, <3>2
    <3> QED
      BY <2>2, <3>1, <3>2
  <2> QED
    BY <1>6, <2>4, <2>10, <2>11 DEF DeliverInv
<1> QED
  BY <1>12, <1>13

(* Steps that read nothing and complete nothing.                            *)
Quiet ==
    /\ UNCHANGED <<plan, taken, frame, filled, got, clientClosed, state, tcs>>
    /\ \A t \in Threads : at'[t] = "header" <=> at[t] = "header"
    /\ at'[App] = "receive" => at[App] = "receive"
    /\ strays \subseteq strays'

(* Steps after which the connection is closed.                              *)
Closed ==
    /\ UNCHANGED <<plan, filled, got>> /\ clientClosed'
    /\ at'[App] = "receive" => at[App] = "receive"
    /\ strays \subseteq strays'

(* The steps, by what they do to what was read.                             *)
LEMMA StepKinds ==
    ASSUME ReceiveInv, [Next]_vars
    PROVE  \/ \E t \in Threads : Parse(t) \/ AfterFrame(t)
           \/ \E n \in Segments : ReceiveAsync(n)
           \/ Register \/ Quiet \/ Closed
<1> USE DEF clientVars, transportVars, frameVars, sendVars, threadVars
<1>0. at \in [Threads -> Points] /\ App \in Threads
      /\ \A t \in Threads : at[t] = "tell" => clientClosed
  BY DEF ReceiveInv, ReadInv, Threads
<1>1. ASSUME NEW t \in Threads, at[t] # "header", NEW p, p \notin {"header", "receive"},
             at' = [at EXCEPT ![t] = p]
      PROVE  /\ \A u \in Threads : at'[u] = "header" <=> at[u] = "header"
             /\ at'[App] = "receive" => at[App] = "receive"
  BY <1>0, <1>1
<1>2. ASSUME NEW t \in Threads, at[t] # "header", Return(t)
      PROVE  /\ \A u \in Threads : at'[u] = "header" <=> at[u] = "header"
             /\ at'[App] = "receive" => at[App] = "receive"
  BY <1>1, <1>2, ReturnGoes
<1>3. ASSUME NEW t \in Threads, Run(t) PROVE Parse(t) \/ AfterFrame(t) \/ Quiet \/ Closed
  <2>1. ASSUME Check(t) PROVE Quiet
    BY <1>1, <1>2, <2>1 DEF Check, Quiet, Goto
  <2>2. ASSUME AfterData(t) PROVE Quiet
    BY <1>1, <1>2, <2>2 DEF AfterData, Quiet, Goto
  <2>3. ASSUME AfterClose(t) PROVE Quiet
    BY <1>1, <1>2, <2>3 DEF AfterClose, Quiet, Goto
  <2>4. ASSUME StartReceiveData(t) PROVE Quiet
    BY <1>1, <1>2, <2>4 DEF StartReceiveData, Quiet, Goto
  <2>5. ASSUME StartNextReceive(t) PROVE Quiet
    BY <1>1, <1>2, <2>5 DEF StartNextReceive, Quiet, Goto
  <2>6. ASSUME Enter(t) PROVE Quiet
    BY <1>1, <1>2, <2>6 DEF Enter, ProcessReceive, Quiet, Goto
  <2>7. ASSUME FinishReceiveData(t) PROVE Quiet
    BY <1>1, <1>2, <2>7 DEF FinishReceiveData, Quiet, Goto
  <2>8. ASSUME SetClientClosed(t) PROVE Closed
    BY <1>1, <2>8 DEF SetClientClosed, Closed, Goto
  <2>9. ASSUME TellReader(t) PROVE Closed
    BY <1>0, <1>1, <2>9 DEF TellReader, Closed, Goto
  <2> QED
    BY <1>3, <2>1, <2>2, <2>3, <2>4, <2>5, <2>6, <2>7, <2>8, <2>9 DEF Run
<1>4. ASSUME NEW s \in Senders,
             \/ Work(s) \/ CloseAsync(s)
             \/ \E n \in Sizes, end \in BOOLEAN : SendAsync(s, n, end)
      PROVE  Quiet
  <2>1. UNCHANGED readVars /\ strays \subseteq strays'
    BY <1>4 DEF Work, CloseAsync, SendAsync, Acquire, SendFrame, FinishSend, SendClose,
                FinishSendClose, EndClose
  <2> QED
    BY <2>1 DEF readVars, Quiet
<1>5. ASSUME Transport PROVE Quiet
  <2>1. AnIdle \subseteq Threads
    BY DEF AnIdle, IdleReceivers, Threads
  <2>2. ASSUME FinishUpgrade PROVE Quiet
    BY <2>2 DEF FinishUpgrade, Quiet
  <2>3. ASSUME NEW t \in Threads, FinishReceiveFailed(t) PROVE Quiet
    BY <1>1, <2>3 DEF FinishReceiveFailed, Quiet, Goto
  <2>4. ASSUME NEW t \in Threads, NEW n \in 1..BufferSize, FinishReceive(t, n) PROVE Quiet
    BY <1>1, <1>2, <2>4 DEF FinishReceive, ProcessReceive, Quiet, Goto
  <2> QED
    BY <1>5, <2>1, <2>2, <2>3, <2>4 DEF Transport
<1>6. ASSUME AppEnds PROVE Quiet
  BY <1>6 DEF AppEnds, Quiet
<1>7. ASSUME ClientCloses PROVE Quiet
  BY <1>7 DEF ClientCloses, Quiet
<1>8. CASE UNCHANGED vars
  BY <1>8 DEF vars, Quiet
<1>9. CASE Next
  BY <1>9, <1>3, <1>4, <1>5, <1>6, <1>7 DEF Next
<1> QED
  BY <1>8, <1>9

(* The plan is fixed, and what is made of it.                               *)
LEMMA PlanStays ==
    ASSUME plan' = plan
    PROVE  /\ Wire' = Wire /\ Told' = Told /\ Expected' = Expected /\ Items' = Items
           /\ \A k : Body(k)' = Body(k) /\ Start(k)' = Start(k)
           /\ \A k : Before(Wire, k)' = Before(Wire, k) /\ Before(Told, k)' = Before(Told, k)
<1>1. Wire' = Wire /\ Told' = Told /\ \A k : Body(k)' = Body(k)
  BY BytesStay
<1> QED
  BY <1>1 DEF Start, Before, Expected, Items, EndOf, Item, Body

(* Steps that do not read leave what was read.                              *)
LEMMA QuietDelivers ==
    ASSUME DeliverInv, Quiet PROVE DeliverInv'
<1>1. /\ UNCHANGED <<plan, taken, frame, filled, got, clientClosed, state, tcs>>
      /\ at'[App] = "receive" => at[App] = "receive"
      /\ strays \subseteq strays'
  BY DEF Quiet
<1>6. NoHeader' <=> NoHeader
  <2>1. \A t \in Threads : at'[t] = "header" <=> at[t] = "header"
    BY DEF Quiet
  <2> QED
    BY <2>1, Zenon DEF NoHeader
<1>2. /\ Wire' = Wire /\ Told' = Told /\ Expected' = Expected /\ Items' = Items
      /\ \A k : Body(k)' = Body(k) /\ Start(k)' = Start(k)
      /\ \A k : Before(Wire, k)' = Before(Wire, k) /\ Before(Told, k)' = Before(Told, k)
  BY <1>1, PlanStays
<1>3. \A k : AtHeader(k) => AtHeader(k)'
  BY <1>1, <1>2, <1>6 DEF AtHeader
<1>4. \A k, c : InBody(k, c) => InBody(k, c)'
  <2>1. Done' = Done
    BY <1>1 DEF Done
  <2> QED
    BY <1>1, <1>2, <1>6, <2>1 DEF InBody, Within
<1>5. InStep => InStep'
  BY <1>1, <1>3, <1>4, <1>6 DEF InStep
<1> QED
  BY <1>1, <1>2, <1>5 DEF DeliverInv

LEMMA ClosedDelivers ==
    ASSUME DeliverInv, Closed PROVE DeliverInv'
<1>1. Expected' = Expected /\ Items' = Items
  BY PlanStays DEF Closed
<1> QED
  BY <1>1 DEF Closed, DeliverInv

(* A call begins, and is registered, with nothing in its buffer.            *)
LEMMA CallDelivers ==
    ASSUME ReceiveInv, DeliverInv, Register \/ \E n \in Segments : ReceiveAsync(n)
    PROVE  DeliverInv'
<1> USE DEF clientVars, transportVars, frameVars, sendVars
<1>0. at \in [Threads -> Points] /\ App \in Threads /\ (at[App] = "receive" => tcs # "pending")
  BY DEF ReceiveInv, ReadInv, Threads
<1>1. /\ UNCHANGED <<plan, taken, frame, got, clientClosed, state, strays>>
      /\ tcs # "pending"
  BY <1>0 DEF Register, ReceiveAsync
<1>2. NoHeader' <=> NoHeader
  BY <1>0 DEF Register, ReceiveAsync, Goto, NoHeader
<1> SUFFICES ASSUME "overlap" \notin strays PROVE DeliverInv'
  BY <1>1 DEF DeliverInv
<1>3. filled' = <<>> /\ got \in Seq(Items)
  BY DEF Register, ReceiveAsync, DeliverInv
<1>4. /\ Wire' = Wire /\ Told' = Told /\ Expected' = Expected /\ Items' = Items
      /\ \A k : Body(k)' = Body(k) /\ Start(k)' = Start(k)
      /\ \A k : Before(Wire, k)' = Before(Wire, k) /\ Before(Told, k)' = Before(Told, k)
  BY <1>1, PlanStays
<1>5. \A k : AtHeader(k) => AtHeader(k)'
  BY <1>1, <1>2, <1>3, <1>4 DEF AtHeader
<1>6. \A k, c : InBody(k, c) => InBody(k, c)'
  <2>1. Done = got
    BY <1>1 DEF Done
  <2>2. got \o <<>> = got
    BY <1>3
  <2>3. Done' = got
    BY <1>1, <1>3, <2>2 DEF Done
  <2> QED
    BY <1>1, <1>2, <1>3, <1>4, <2>1, <2>3 DEF InBody, Within
<1>7. InStep => InStep'
  BY <1>1, <1>2, <1>5, <1>6 DEF InStep
<1> QED
  BY <1>1, <1>3, <1>4, <1>7 DEF DeliverInv

(* A frame has ended, and the next begins.                                  *)
LEMMA AfterFrameDelivers ==
    ASSUME ReceiveInv, DeliverInv, NEW t \in Threads, AfterFrame(t)
    PROVE  DeliverInv'
<1>1. /\ UNCHANGED <<plan, taken, frame, filled, got, clientClosed, tcs, strays>>
      /\ at[t] = "header" /\ at' = [at EXCEPT ![t] = "last"] /\ state' = "Header"
  BY DEF AfterFrame, Goto, clientVars, transportVars, frameVars
<1>2. at'[App] = "receive" => at[App] = "receive"
  BY <1>1 DEF ReceiveInv, ReadInv, Threads
<1>3. /\ Wire' = Wire /\ Told' = Told /\ Expected' = Expected /\ Items' = Items
      /\ \A k : Before(Wire, k)' = Before(Wire, k) /\ Before(Told, k)' = Before(Told, k)
  BY <1>1, PlanStays
<1>4. ~NoHeader
  BY <1>1 DEF NoHeader
<1>5. ASSUME InStep PROVE InStep'
  <2>1. PICK k \in 0..Len(plan.frames) : AtHeader(k)
    BY <1>4, <1>5 DEF InStep, InBody
  <2>2. AtHeader(k)'
    BY <1>1, <1>3, <2>1 DEF AtHeader
  <2> QED
    BY <1>1, <2>1, <2>2 DEF InStep
<1> QED
  BY <1>1, <1>2, <1>3, <1>5 DEF DeliverInv

(* A parse delivers the next piece, or none.                                *)
LEMMA ParseDelivers ==
    ASSUME ReceiveInv, ByteInv, DeliverInv, NEW t \in Threads, Parse(t)
    PROVE  DeliverInv'
<1>1. at[t] = "parse" /\ UNCHANGED <<plan, clientClosed>> /\ strays \subseteq strays'
  BY ParseEffect DEF Parse, ReceiveInv, ReadInv
<1> SUFFICES ASSUME "overlap" \notin strays PROVE DeliverInv'
  BY <1>1 DEF DeliverInv
<1>2. /\ have # 0 /\ ~clientClosed /\ tcs = "pending" /\ at[App] # "receive"
      /\ NoHeader /\ at \in [Threads -> Points] /\ App \in Threads
  BY <1>1, ParserAlone
<1>3. Expected' = Expected /\ Items' = Items
  BY <1>1, PlanStays
<1>4. ASSUME Return(t), UNCHANGED <<taken, state, tcs, frameVars, got>> PROVE DeliverInv'
  <2>1. Quiet
    BY <1>1, <1>2, <1>4, ReturnGoes DEF Quiet, frameVars
  <2> QED
    BY <2>1, QuietDelivers
<1>5. ASSUME ParseError(t) PROVE DeliverInv'
  <2>1. state' = "Error" /\ got' = got /\ NoHeader' /\ at'[App] # "receive"
    BY <1>2, <1>5, ReturnGoes DEF ParseError, NoHeader
  <2>2. InStep'
    BY <2>1 DEF InStep
  <2> QED
    BY <1>3, <2>1, <2>2 DEF DeliverInv
<1>6. ASSUME NEW f, NEW p, NEW data, ParsesBody(t, f, p, data) PROVE DeliverInv'
  <2>1. PICK k, c : Ready(k, f, p, c)
    BY <1>1, <1>6, ParsesReady
  <2>2. f \in Frame /\ Readable(p, data) /\ ParseBody(t, f, p, data)
    BY <1>6 DEF ParsesBody
  <2>3. CASE f.op = "close"
    <3>1. CloseFrame(t, f, p, data)
      BY <2>2, <2>3 DEF ParseBody
    <3> QED
      BY <1>1, <2>1, <2>2, <2>3, <3>1, CloseFrameDelivers
  <2>4. CASE f.op # "close"
    <3>1. DataFrame(t, f, p, data)
      BY <2>2, <2>4 DEF ParseBody
    <3>2. f.op = "data"
      BY <2>1, <2>2, <2>4 DEF Frame, Ready, Within
    <3> QED
      BY <1>1, <2>1, <2>2, <3>1, <3>2, DataFrameDelivers
  <2> QED
    BY <2>3, <2>4
<1> QED
  BY <1>4, <1>5, <1>6, ParseKinds DEF ParseMore

(* What was delivered, from the start.                                      *)
LEMMA DeliverInvInit == Init => DeliverInv
<1> SUFFICES ASSUME Init PROVE DeliverInv
  OBVIOUS
<1>1. /\ plan \in Plans /\ taken = 0 /\ got = <<>> /\ filled = <<>> /\ state = "Header"
      /\ strays = {}
  BY DEF Init
<1>2. Len(plan.frames) \in Nat
  BY <1>1, PlanTypes
<1>3. Before(Wire, 0) = <<>> /\ Before(Told, 0) = <<>>
  <2>1. Wire \in Seq(Seq(Items))
    BY <1>1, WireTypes
  <2> QED
    BY <1>1, <2>1, BeforeProperties, ToldBefore
<1>4. AtHeader(0)
  BY <1>1, <1>3 DEF AtHeader
<1>5. InStep
  BY <1>2, <1>4 DEF InStep
<1>6. got \in Seq(Items) /\ Begins(got, Expected)
  <2>1. 0 \in 0..Len(plan.frames)
    BY <1>2
  <2> QED
    BY <1>1, <1>3, <2>1, ToldBefore
<1> QED
  BY <1>1, <1>5, <1>6 DEF DeliverInv

LEMMA DeliverInvStep == ReceiveInv /\ ByteInv /\ DeliverInv /\ [Next]_vars => DeliverInv'
  BY StepKinds, ParseDelivers, AfterFrameDelivers, CallDelivers, QuietDelivers, ClosedDelivers

(* ReceiveAsync returns what the client sent, once and in order, whatever   *)
(* the frames, the pieces they arrive in and the segments asked for         *)
(* (OwinHandler 489-594); unless two threads parsed at a time.              *)
THEOREM DeliveredInOrder == Spec => []Delivered
<1>1. DeliverInv /\ ByteInv => Delivered
  <2> SUFFICES ASSUME DeliverInv, ByteInv, "overlap" \notin strays PROVE IsPrefix(got, Expected)
    BY DEF Delivered
  <2>1. got \in Seq(Items) /\ Begins(got, Expected)
    BY DEF DeliverInv
  <2>2. Expected \in Seq(Items)
    <3>1. Told \in Seq(Seq(Items)) /\ Len(Told) = Len(plan.frames) /\ Expected = FlattenSeq(Told)
      BY ToldTypes DEF ByteInv
    <3>2. Len(plan.frames) \in 0..Len(plan.frames)
      BY PlanTypes DEF ByteInv
    <3> QED
      BY <3>1, <3>2, BeforeProperties
  <2> HIDE DEF Expected
  <2>3. SubSeq(got, 1, Len(got)) = SubSeq(Expected, 1, Len(got))
    BY <2>1, <2>2 DEF Begins
  <2> QED
    BY <2>1, <2>3 DEF Begins, IsPrefix
<1>2. Init => DeliverInv
  BY DeliverInvInit
<1>3. ReceiveInv /\ ByteInv /\ DeliverInv /\ [Next]_vars => DeliverInv'
  BY DeliverInvStep
<1> QED
  BY <1>1, <1>2, <1>3, ReadInvsHold, PTL DEF Spec
=============================================================================
