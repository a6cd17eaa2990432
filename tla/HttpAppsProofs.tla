---------------------------- MODULE HttpAppsProofs ----------------------------
(***************************************************************************)
(* What is proved of the applications and the clients of HttpConnection,   *)
(* for every set of threads, operations of the application and number of   *)
(* clients, requests and strays: an application has the slot to itself,    *)
(* nothing of a client is left when the next is waited for, no response is *)
(* cut, and every call down is one the slot allows.                        *)
(***************************************************************************)
EXTENDS HttpConnectionProofs

----------------------------------------------------------------------------
(* What threads have still to pass, and for whom                           *)

Has(t, points) == Passes(thr[t].todo, points)
Own(t) == thr[t].accept = acceptCounter /\ acceptCounter # 0

No(points) == \A t \in Threads : ~Has(t, points)
NoOwn(points) == \A t \in Threads : Has(t, points) => ~Own(t)
One(points) == \A t, u \in Threads : Has(t, points) /\ Has(u, points) => t = u
OneOwn(points) ==
    \A t, u \in Threads : Has(t, points) /\ Own(t) /\ Has(u, points) /\ Own(u) => t = u

Arrivals == {"accepted", "received"}
Closed == {"closed", "told"}
Answers == {"send", "sendError"}

NoneOwn == \A t \in Threads : ~Own(t)
NoApps == No({"app"})
NoSends == No(Answers)

(* The application runs for the present client and its last request.        *)
AppsCurrent ==
    \A t \in Threads : Has(t, {"app"}) => Own(t) /\ thr[t].request = request
NoCurrentReport ==
    \A t \in Threads : Has(t, {"report"}) => thr[t].request # request

(* The thread that is going to close runs the application, if any does.     *)
OnlyCloser ==
    \A t, u \in Threads : Has(t, {"close"}) /\ Own(t) /\ Has(u, {"app"}) => t = u
Closes == \E t \in Threads : Has(t, {"close"}) /\ Has(t, {"app"})

(* A flush: the application goes on when it was sent.                       *)
Awaits(todo) ==
    /\ todo # <<>>
    /\ \/ Head(todo) = "await"
       \/ Head(todo) = "send" /\ Tail(todo) # <<>> /\ Head(Tail(todo)) = "await"
Awaiting == \A t \in tcsSend : Has(t, {"app"}) /\ Awaits(thr[t].todo)

(* Nobody prepares the next accept, or is about to.                         *)
Unasked ==
    /\ ~after
    /\ \A t \in Threads : Has(t, {"realPrepareAccept"}) => Has(t, {"awaitApp"})

(* The order in which a thread passes its points: behind the application,   *)
(* and behind what ends a call, is only what the caller does, and some      *)
(* points come first or not at all.                                         *)
Calls == {"app", "report", "reenter", "caught", "accepted", "received", "check",
          "checkStart", "told", "sent", "flushed", "next", "realPrepareAccept"}
Returns == {"reenter", "check"}
First == {"awaitApp", "close", "reset", "send", "sendError"}
Orderly(todo) ==
    /\ \A i \in 2..Len(todo) : todo[i] \notin First
    /\ \A i, j \in 1..Len(todo) : i < j /\ todo[i] \in Calls => todo[j] \in Returns

----------------------------------------------------------------------------
(* The inductive invariant                                                 *)

Shape == \A t \in Threads : Orderly(thr[t].todo) /\ thr[t].request <= request

(* Before the first accept nothing happens.                                 *)
Start ==
    acceptCounter = 0 =>
        /\ phase \in {"new", "asked"} /\ ~slotReceiving /\ ~slotSending
        /\ \A t \in Threads : ~Has(t, Point \ {"awaitApp", "realPrepareAccept"})

(* No head comes any more: the client has gone, or the buffer is full.      *)
NothingComes ==
    /\ heads = 0 /\ No(Arrivals)
    /\ gone \/ (partial = "full" /\ ~receiving)

(* The connection answers no further request.                               *)
Done ==
    /\ NoApps /\ ~waiting /\ NoOwn({"reset"})
    /\ lastPacket => ~keepAlive \/ clientClosed

(* Nothing of any client is left.                                           *)
Vacant ==
    /\ ~receiving /\ ~slotSending /\ ~closing
    /\ NoApps /\ NoSends /\ NoneOwn /\ lastFinished # "pending"

(* One application, of the last request, until its end is reported.         *)
Calling ==
    /\ One({"app"}) /\ AppsCurrent
    /\ NoApps \/ NoCurrentReport
    /\ waiting \/ lastPacket \/ lastFinished = "done" => NoApps
    /\ disconnected => NoApps \/ lastFinished = "pending"

(* An application that disconnects, until the next client.                  *)
Reporting ==
    /\ lastFinished = "pending" =>
          /\ disconnected /\ ~waiting /\ ~lastPacket /\ NoOwn({"reset"})
          /\ disconnecting \/ Closes
    /\ lastFinished = "done" => NoOwn({"report"}) \/ (Done /\ disconnecting)
    /\ NoOwn({"caught"}) \/ (Done /\ disconnecting /\ lastFinished = "done")

(* The next request is waited for when the last response is out.            *)
Renewing ==
    /\ waiting /\ lastPacket => NothingComes /\ ~keepAlive
    /\ NoOwn({"reset"}) \/ (~waiting /\ ~lastPacket /\ NoApps /\ NoSends /\ ~slotSending)
    /\ OneOwn({"reset"})

(* A connection is closed when no request is to come, or by its application.*)
Leaving ==
    /\ gone => heads = 0 /\ partial # "full" /\ No(Arrivals)
    /\ NoOwn(Closed) \/ gone
    /\ disconnecting \/ ~NoOwn({"close"}) =>
          (NoApps /\ (Done \/ NothingComes)) \/ lastFinished = "pending"
    /\ disconnecting \/ NoOwn({"close"}) \/ (NoSends /\ ~slotSending)
    /\ disconnecting \/ OnlyCloser

(* Between two clients.                                                     *)
Between ==
    /\ phase \in {"new", "accepting"} => Vacant
    /\ phase = "asked" => Vacant \/ (disconnecting /\ closing)
    /\ Unasked \/ (NoApps /\ NoSends /\ lastFinished # "pending")
    /\ phase \in {"accepting", "open"} /\ closing => disconnecting
    /\ phase = "accepting" => ~clientClosed /\ ~disconnecting

(* One send at a time, awaited by the application, or the last of all.      *)
Sending ==
    /\ Awaiting /\ One(Answers)
    /\ slotSending \/ waiting => NoSends
    /\ waiting /\ slotSending => NothingComes /\ ~gone /\ lastPacket
    /\ NoSends \/ ~NoApps \/ (lastPacket /\ ~disconnecting /\ NoOwn({"close"}))
    /\ NoApps \/ tcsSend # {} \/ (NoSends /\ ~slotSending)
    /\ slotSending => tcsSend # {} \/ lastPacket \/ disconnecting
    /\ \/ Done /\ disconnecting
       \/ /\ OneOwn({"sent"})
          /\ NoOwn({"sent"}) \/ (NoSends /\ ~slotSending /\ NoApps /\ lastPacket)

Lone == Calling /\ Reporting /\ Renewing /\ Leaving /\ Between /\ Sending

AppsInv == Shape /\ Start /\ (Clean => Lone)

----------------------------------------------------------------------------
(* What is behind a point                                                  *)

LEMMA PassesNone == ASSUME NEW P PROVE ~Passes(<<>>, P)
  BY DEF Passes

LEMMA PassesRest ==
    ASSUME NEW todo \in Seq(Point), todo # <<>>, NEW P
    PROVE  Passes(todo, P) <=> Head(todo) \in P \/ Passes(Tail(todo), P)
<1> DEFINE rest == Tail(todo)
<1>1. Len(todo) \in Nat \ {0} /\ Head(todo) = todo[1]
  OBVIOUS
<1>2. Len(rest) = Len(todo) - 1 /\ \A i \in 1..Len(rest) : rest[i] = todo[i + 1]
  OBVIOUS
<1> HIDE DEF rest
<1>3. ASSUME NEW i \in 1..Len(todo), todo[i] \in P
      PROVE  Head(todo) \in P \/ Passes(rest, P)
  <2>1. CASE i = 1
    BY <1>1, <1>3, <2>1
  <2>2. CASE i # 1
    <3>1. i - 1 \in 1..Len(rest) /\ (i - 1) + 1 = i
      BY <1>1, <1>2, <2>2
    <3>2. rest[i - 1] = todo[i]
      BY <1>2, <3>1
    <3> QED
      BY <1>3, <3>1, <3>2 DEF Passes
  <2> QED
    BY <2>1, <2>2
<1>4. ASSUME NEW i \in 1..Len(rest), rest[i] \in P PROVE Passes(todo, P)
  <2>1. i + 1 \in 1..Len(todo) /\ todo[i + 1] \in P
    BY <1>1, <1>2, <1>4
  <2> QED
    BY <2>1 DEF Passes
<1>5. Head(todo) \in P => Passes(todo, P)
  BY <1>1 DEF Passes
<1>6. Passes(todo, P) => Head(todo) \in P \/ Passes(rest, P)
  BY <1>3 DEF Passes
<1>7. Passes(rest, P) => Passes(todo, P)
  BY <1>4 DEF Passes
<1> QED
  BY <1>5, <1>6, <1>7 DEF rest

LEMMA LongerHead ==
    ASSUME NEW rest \in Seq(Point), NEW p \in Point
    PROVE  /\ <<p>> \o rest \in Seq(Point) /\ <<p>> \o rest # <<>>
           /\ Head(<<p>> \o rest) = p /\ Tail(<<p>> \o rest) = rest
<1>1. <<p>> \in Seq(Point) /\ Len(<<p>>) = 1 /\ <<p>>[1] = p
  OBVIOUS
<1> DEFINE todo == <<p>> \o rest
<1>2. todo \in Seq(Point) /\ Len(todo) = Len(rest) + 1 /\ todo[1] = p
      /\ \A i \in 1..Len(rest) : todo[i + 1] = rest[i]
  BY <1>1
<1> HIDE DEF todo
<1>3. todo # <<>> /\ Head(todo) = p
  BY <1>2
<1>4. Tail(todo) \in Seq(Point) /\ Len(Tail(todo)) = Len(rest)
      /\ \A i \in 1..Len(rest) : Tail(todo)[i] = rest[i]
  BY <1>2, <1>3
<1>5. Tail(todo) = rest
  BY <1>4, SeqEqual
<1> QED
  BY <1>2, <1>3, <1>5 DEF todo

LEMMA PassesLonger ==
    ASSUME NEW rest \in Seq(Point), NEW p \in Point, NEW P
    PROVE  Passes(<<p>> \o rest, P) <=> p \in P \/ Passes(rest, P)
<1> DEFINE todo == <<p>> \o rest
<1>1. todo \in Seq(Point) /\ todo # <<>> /\ Head(todo) = p /\ Tail(todo) = rest
  BY LongerHead
<1> HIDE DEF todo
<1>2. Passes(todo, P) <=> p \in P \/ Passes(rest, P)
  BY <1>1, PassesRest
<1> QED
  BY <1>2 DEF todo

LEMMA PassesOne ==
    ASSUME NEW p \in Point
    PROVE  /\ <<p>> \in Seq(Point) /\ <<p>> # <<>>
           /\ \A P : Passes(<<p>>, P) <=> p \in P
  BY DEF Passes

LEMMA PassesTwo ==
    ASSUME NEW p \in Point, NEW q \in Point
    PROVE  /\ <<p, q>> \in Seq(Point) /\ <<p, q>> # <<>>
           /\ \A P : Passes(<<p, q>>, P) <=> p \in P \/ q \in P
<1>1. <<p, q>> \in Seq(Point) /\ Len(<<p, q>>) = 2 /\ <<p, q>>[1] = p /\ <<p, q>>[2] = q
  OBVIOUS
<1> QED
  BY <1>1 DEF Passes

LEMMA PassesTwoOn ==
    ASSUME NEW rest \in Seq(Point), NEW p \in Point, NEW q \in Point
    PROVE  /\ <<p, q>> \o rest \in Seq(Point)
           /\ \A P : Passes(<<p, q>> \o rest, P) <=> p \in P \/ q \in P \/ Passes(rest, P)
<1>1. <<p, q>> \o rest = <<p>> \o (<<q>> \o rest)
  BY PairOnIsConcat
<1> DEFINE more == <<q>> \o rest
<1>2. more \in Seq(Point) /\ \A P : Passes(more, P) <=> q \in P \/ Passes(rest, P)
  BY LongerHead, PassesLonger
<1> HIDE DEF more
<1>3. /\ <<p>> \o more \in Seq(Point)
      /\ \A P : Passes(<<p>> \o more, P) <=> p \in P \/ Passes(more, P)
  BY <1>2, LongerHead, PassesLonger
<1> QED
  BY <1>1, <1>2, <1>3 DEF more

LEMMA PassesMore ==
    ASSUME NEW todo, NEW P, NEW Q, P \subseteq Q, Passes(todo, P) PROVE Passes(todo, Q)
  BY DEF Passes

(* The order of the points is kept when the first is passed, and when a     *)
(* point is put first.                                                      *)
LEMMA OrderlyNone == Orderly(<<>>)
  BY DEF Orderly

LEMMA OrderlyRest ==
    ASSUME NEW todo \in Seq(Point), todo # <<>>, Orderly(todo)
    PROVE  /\ Orderly(Tail(todo)) /\ Tail(todo) \in Seq(Point)
           /\ ~Passes(Tail(todo), First)
           /\ Head(todo) \in Calls => ~Passes(Tail(todo), Point \ Returns)
<1> DEFINE rest == Tail(todo)
<1>1. Len(todo) \in Nat \ {0} /\ Head(todo) = todo[1]
  OBVIOUS
<1>2. rest \in Seq(Point) /\ Len(rest) = Len(todo) - 1
      /\ \A i \in 1..Len(rest) : rest[i] = todo[i + 1]
  OBVIOUS
<1> HIDE DEF rest
<1>3. \A i \in 1..Len(rest) : i + 1 \in 2..Len(todo) /\ i + 1 \in 1..Len(todo) /\ 1 < i + 1
  BY <1>1, <1>2
<1>4. \A i \in 1..Len(rest) : rest[i] \notin First
  BY <1>2, <1>3 DEF Orderly
<1>5. ASSUME NEW i \in 1..Len(rest), NEW j \in 1..Len(rest), i < j, rest[i] \in Calls
      PROVE  rest[j] \in Returns
  <2>1. i + 1 < j + 1
    BY <1>5
  <2> QED
    BY <1>2, <1>3, <1>5, <2>1 DEF Orderly
<1>6. ASSUME Head(todo) \in Calls, NEW j \in 1..Len(rest) PROVE rest[j] \in Returns
  <2>1. 1 \in 1..Len(todo)
    BY <1>1
  <2> QED
    BY <1>1, <1>2, <1>3, <1>6, <2>1 DEF Orderly
<1>7. 2..Len(rest) \subseteq 1..Len(rest)
  BY <1>1, <1>2
<1>8. Orderly(rest)
  BY <1>4, <1>5, <1>7 DEF Orderly
<1>9. ~Passes(rest, First) /\ (Head(todo) \in Calls => ~Passes(rest, Point \ Returns))
  BY <1>4, <1>6 DEF Passes
<1> QED
  BY <1>2, <1>8, <1>9 DEF rest

LEMMA OrderlyLonger ==
    ASSUME NEW rest \in Seq(Point), Orderly(rest), ~Passes(rest, First),
           NEW p \in Point, p \in Calls => ~Passes(rest, Point \ Returns)
    PROVE  Orderly(<<p>> \o rest)
<1> DEFINE todo == <<p>> \o rest
<1>1. Len(rest) \in Nat /\ \A i \in 1..Len(rest) : rest[i] \in Point
  OBVIOUS
<1>2. Len(todo) = Len(rest) + 1 /\ todo[1] = p
      /\ \A i \in 2..Len(todo) : todo[i] = rest[i - 1]
  <2>1. <<p>> \in Seq(Point) /\ Len(<<p>>) = 1 /\ <<p>>[1] = p
    OBVIOUS
  <2> QED
    BY <2>1
<1> HIDE DEF todo
<1>3. \A i \in 2..Len(todo) : i - 1 \in 1..Len(rest)
  BY <1>1, <1>2
<1>4. \A i \in 2..Len(todo) : todo[i] \notin First
  BY <1>2, <1>3 DEF Passes
<1>5. ASSUME NEW i \in 1..Len(todo), NEW j \in 1..Len(todo), i < j, todo[i] \in Calls
      PROVE  todo[j] \in Returns
  <2>1. j \in 2..Len(todo) /\ todo[j] = rest[j - 1] /\ j - 1 \in 1..Len(rest)
    BY <1>1, <1>2, <1>3, <1>5
  <2>2. CASE i = 1
    <3>1. rest[j - 1] \notin Point \ Returns
      BY <1>2, <1>5, <2>1, <2>2 DEF Passes
    <3> QED
      BY <1>1, <2>1, <3>1
  <2>3. CASE i # 1
    <3>1. i \in 2..Len(todo) /\ i - 1 < j - 1
      BY <1>1, <1>2, <1>5, <2>3
    <3>2. i - 1 \in 1..Len(rest) /\ rest[i - 1] \in Calls
      BY <1>2, <1>3, <1>5, <3>1
    <3> QED
      BY <2>1, <3>1, <3>2 DEF Orderly
  <2> QED
    BY <2>2, <2>3
<1> QED
  BY <1>4, <1>5 DEF Orderly, todo

LEMMA OrderlyOne == ASSUME NEW p \in Point PROVE Orderly(<<p>>)
<1>1. Len(<<p>>) = 1
  OBVIOUS
<1> QED
  BY <1>1 DEF Orderly

LEMMA OrderlyTwo ==
    ASSUME NEW p \in Point \ Calls, NEW q \in Point \ First PROVE Orderly(<<p, q>>)
<1>1. <<p, q>> = <<p>> \o <<q>>
  BY PairIsConcat
<1>2. ~Passes(<<q>>, First) /\ Orderly(<<q>>) /\ <<q>> \in Seq(Point)
  BY PassesOne, OrderlyOne
<1> QED
  BY <1>1, <1>2, OrderlyLonger

LEMMA OrderlyTwoOn ==
    ASSUME NEW rest \in Seq(Point), Orderly(rest), ~Passes(rest, First),
           ~Passes(rest, Point \ Returns),
           NEW p \in Point, NEW q \in Point \ First, p \in Calls => q \in Returns
    PROVE  Orderly(<<p, q>> \o rest)
<1>1. <<p, q>> \o rest = <<p>> \o (<<q>> \o rest)
  BY PairOnIsConcat
<1> DEFINE more == <<q>> \o rest
<1>2. more \in Seq(Point) /\ Orderly(more)
  BY LongerHead, OrderlyLonger
<1>3. ~Passes(more, First) /\ (q \in Returns => ~Passes(more, Point \ Returns))
  BY PassesLonger
<1> HIDE DEF more
<1> QED
  BY <1>1, <1>2, <1>3, OrderlyLonger DEF more

----------------------------------------------------------------------------
(* A thread's step, and what others may still rely on                      *)

(* One thread goes on, with new points from N, for the client it had or for *)
(* none.                                                                    *)
Acts(t, N) ==
    /\ thr' \in [Threads -> ThreadState]
    /\ \A u \in Threads \ {t} : thr'[u] = thr[u]
    /\ \A P \in SUBSET Point : P \cap N = {} /\ Passes(thr'[t].todo, P) => Has(t, P)
    /\ thr'[t].accept \in {0, thr[t].accept}
    /\ Passes(thr'[t].todo, {"app"}) => thr'[t].accept = thr[t].accept
    /\ Passes(thr'[t].todo, {"app"}) \/ Passes(thr'[t].todo, {"report"}) =>
          thr'[t].request = thr[t].request
    /\ acceptCounter' = acceptCounter

Keeps(points) ==
    /\ No(points) => No(points)'
    /\ NoOwn(points) => NoOwn(points)'
    /\ One(points) => One(points)'
    /\ OneOwn(points) => OneOwn(points)'

LEMMA HasPoint ==
    ASSUME NEW t \in Threads, NEW P, NEW p \in P, Has(t, {p}) PROVE Has(t, P)
  BY DEF Has, Passes

LEMMA ThreadIs ==
    ASSUME NEW todo \in Seq(Point), NEW a \in 0..(MaxAccepts + 1), NEW r \in 0..MaxRequests
    PROVE  /\ Thread(todo, a, r) \in ThreadState
           /\ Thread(todo, a, r).todo = todo
           /\ Thread(todo, a, r).accept \in {0, a}
           /\ Thread(todo, a, r).request \in {0, r}
           /\ Passes(todo, {"app"}) => Thread(todo, a, r).accept = a
           /\ Passes(todo, {"app"}) \/ Passes(todo, {"report"}) =>
                 Thread(todo, a, r).request = r
<1>1. Passes(todo, {"app"}) => Passes(todo, Bound)
  BY DEF Passes, Bound
<1>2. Passes(todo, {"app"}) \/ Passes(todo, {"report"}) => Passes(todo, {"app", "report"})
  BY DEF Passes
<1>3. /\ Thread(todo, a, r).todo = todo
      /\ Thread(todo, a, r).accept = IF Passes(todo, Bound) THEN a ELSE 0
      /\ Thread(todo, a, r).request = IF Passes(todo, {"app", "report"}) THEN r ELSE 0
  BY DEF Thread
<1>4. Thread(todo, a, r) \in ThreadState
  BY ThreadFacts
<1> QED
  BY <1>1, <1>2, <1>3, <1>4

LEMMA GoesActs ==
    ASSUME CoreTypes, NEW t \in Threads, NEW todo \in Seq(Point), Goes(t, todo),
           acceptCounter' = acceptCounter, NEW N,
           \A P \in SUBSET Point : P \cap N = {} /\ Passes(todo, P) => Has(t, P)
    PROVE  Acts(t, N) /\ thr'[t].todo = todo /\ thr'[t].request \in {0, thr[t].request}
<1> DEFINE new == Thread(todo, thr[t].accept, thr[t].request)
<1>1. thr \in [Threads -> ThreadState]
  BY DEF CoreTypes
<1>2. thr[t].accept \in 0..(MaxAccepts + 1) /\ thr[t].request \in 0..MaxRequests
  BY <1>1 DEF ThreadState
<1>3. /\ new \in ThreadState /\ new.todo = todo /\ new.accept \in {0, thr[t].accept}
      /\ new.request \in {0, thr[t].request}
      /\ Passes(todo, {"app"}) => new.accept = thr[t].accept
      /\ Passes(todo, {"app"}) \/ Passes(todo, {"report"}) => new.request = thr[t].request
  BY <1>2, ThreadIs
<1>4. thr' = [thr EXCEPT ![t] = new]
  BY DEF Goes
<1> HIDE DEF new
<1>5. /\ thr' \in [Threads -> ThreadState] /\ thr'[t] = new
      /\ \A u \in Threads \ {t} : thr'[u] = thr[u]
  BY <1>1, <1>3, <1>4
<1> QED
  BY <1>3, <1>5 DEF Acts

(* Of points that are not new nobody has more than before.                  *)
LEMMA ActsKeeps ==
    ASSUME NEW t \in Threads, NEW N, Acts(t, N), NEW P \in SUBSET Point, P \cap N = {}
    PROVE  Keeps(P)
<1>1. \A u \in Threads : /\ Passes(thr'[u].todo, P) => Passes(thr[u].todo, P)
                         /\ thr'[u].accept = acceptCounter' /\ acceptCounter' # 0
                              => thr[u].accept = acceptCounter /\ acceptCounter # 0
  <2> SUFFICES ASSUME NEW u \in Threads
               PROVE /\ Passes(thr'[u].todo, P) => Passes(thr[u].todo, P)
                     /\ thr'[u].accept = acceptCounter' /\ acceptCounter' # 0
                          => thr[u].accept = acceptCounter /\ acceptCounter # 0
    OBVIOUS
  <2>1. CASE u = t
    BY <2>1 DEF Acts, Has
  <2>2. CASE u # t
    BY <2>2 DEF Acts
  <2> QED
    BY <2>1, <2>2
<1> QED
  BY <1>1 DEF Keeps, No, NoOwn, One, OneOwn, Has, Own

(* Whatever is new belongs to no client, or to the thread's own.            *)
LEMMA ActsOwn ==
    ASSUME NEW t \in Threads, NEW N, Acts(t, N)
    PROVE  /\ NoneOwn => NoneOwn'
           /\ \A u \in Threads : Own(u)' => Own(u)
           /\ \A u \in Threads \ {t} : \A P : Has(u, P)' <=> Has(u, P)
<1>1. ASSUME NEW u \in Threads
      PROVE  thr'[u].accept = acceptCounter' /\ acceptCounter' # 0
                => thr[u].accept = acceptCounter /\ acceptCounter # 0
  BY DEF Acts
<1>2. \A u \in Threads \ {t} : thr'[u] = thr[u]
  BY DEF Acts
<1> QED
  BY <1>1, <1>2 DEF NoneOwn, Own, Has

LEMMA StrangerKeeps ==
    ASSUME NEW t \in Threads, NEW N, Acts(t, N), ~Own(t), NEW P
    PROVE  NoOwn(P) => NoOwn(P)'
  BY ActsOwn DEF NoOwn

(* The relations of applications, reports and closes.                       *)
LEMMA ActsRelations ==
    ASSUME NEW t \in Threads, NEW N, Acts(t, N)
    PROVE  /\ "app" \notin N /\ request' = request => (AppsCurrent => AppsCurrent')
           /\ "report" \notin N /\ request' = request => (NoCurrentReport => NoCurrentReport')
           /\ "app" \notin N /\ "close" \notin N => (OnlyCloser => OnlyCloser')
<1>1. \A u \in Threads \ {t} : thr'[u] = thr[u]
  BY DEF Acts
<1>2. /\ acceptCounter' = acceptCounter
      /\ \A P \in SUBSET Point : P \cap N = {} /\ Passes(thr'[t].todo, P) => Passes(thr[t].todo, P)
      /\ thr'[t].accept \in {0, thr[t].accept}
      /\ Passes(thr'[t].todo, {"app"}) => thr'[t].accept = thr[t].accept
      /\ Passes(thr'[t].todo, {"app"}) \/ Passes(thr'[t].todo, {"report"}) =>
            thr'[t].request = thr[t].request
  BY DEF Acts, Has
<1>3. "app" \notin N => (Passes(thr'[t].todo, {"app"}) => Passes(thr[t].todo, {"app"}))
  <2>1. "app" \notin N => {"app"} \cap N = {} /\ {"app"} \in SUBSET Point
    BY DEF Point
  <2> QED
    BY <1>2, <2>1
<1>4. "report" \notin N => (Passes(thr'[t].todo, {"report"}) => Passes(thr[t].todo, {"report"}))
  <2>1. "report" \notin N => {"report"} \cap N = {} /\ {"report"} \in SUBSET Point
    BY DEF Point
  <2> QED
    BY <1>2, <2>1
<1>5. "close" \notin N => (Passes(thr'[t].todo, {"close"}) => Passes(thr[t].todo, {"close"}))
  <2>1. "close" \notin N => {"close"} \cap N = {} /\ {"close"} \in SUBSET Point
    BY DEF Point
  <2> QED
    BY <1>2, <2>1
<1>6. "app" \notin N /\ request' = request => (AppsCurrent => AppsCurrent')
  BY <1>1, <1>2, <1>3 DEF AppsCurrent, Has, Own
<1>7. "report" \notin N /\ request' = request => (NoCurrentReport => NoCurrentReport')
  BY <1>1, <1>2, <1>4 DEF NoCurrentReport, Has
<1>8. "app" \notin N /\ "close" \notin N => (OnlyCloser => OnlyCloser')
  <2> SUFFICES ASSUME "app" \notin N, "close" \notin N, OnlyCloser,
                      NEW u \in Threads, NEW v \in Threads,
                      Passes(thr'[u].todo, {"close"}), thr'[u].accept = acceptCounter',
                      acceptCounter' # 0, Passes(thr'[v].todo, {"app"})
               PROVE  u = v
    BY DEF OnlyCloser, Has, Own
  <2>1. Passes(thr[u].todo, {"close"}) /\ Passes(thr[v].todo, {"app"})
    BY <1>1, <1>3, <1>5
  <2>2. thr[u].accept = acceptCounter /\ acceptCounter # 0
    BY <1>1, <1>2
  <2> QED
    BY <2>1, <2>2 DEF OnlyCloser, Has, Own
<1> QED
  BY <1>6, <1>7, <1>8

(* What the points from N do not concern stays as it was.                   *)
Quiet(N) ==
    /\ "app" \notin N => Keeps({"app"})
    /\ "report" \notin N => Keeps({"report"})
    /\ "caught" \notin N => Keeps({"caught"})
    /\ "reset" \notin N => Keeps({"reset"})
    /\ "close" \notin N => Keeps({"close"})
    /\ "sent" \notin N => Keeps({"sent"})
    /\ Closed \cap N = {} => Keeps(Closed)
    /\ Answers \cap N = {} => Keeps(Answers)
    /\ Arrivals \cap N = {} => Keeps(Arrivals)

LEMMA ActsQuiet ==
    ASSUME NEW t \in Threads, NEW N, Acts(t, N) PROVE Quiet(N)
<1>1. \A P \in SUBSET Point : P \cap N = {} => Keeps(P)
  BY ActsKeeps
<1> HIDE DEF Keeps
<1>2. /\ {"app"} \in SUBSET Point /\ {"report"} \in SUBSET Point /\ {"caught"} \in SUBSET Point
      /\ {"reset"} \in SUBSET Point /\ {"close"} \in SUBSET Point /\ {"sent"} \in SUBSET Point
      /\ Closed \in SUBSET Point /\ Answers \in SUBSET Point /\ Arrivals \in SUBSET Point
  BY DEF Point, Closed, Answers, Arrivals
<1>3. \A p : p \notin N => {p} \cap N = {}
  OBVIOUS
<1>4. "app" \notin N => Keeps({"app"})
  BY <1>1, <1>2, <1>3
<1>5. "report" \notin N => Keeps({"report"})
  BY <1>1, <1>2, <1>3
<1>6. "caught" \notin N => Keeps({"caught"})
  BY <1>1, <1>2, <1>3
<1>7. "reset" \notin N => Keeps({"reset"})
  BY <1>1, <1>2, <1>3
<1>8. "close" \notin N => Keeps({"close"})
  BY <1>1, <1>2, <1>3
<1>9. "sent" \notin N => Keeps({"sent"})
  BY <1>1, <1>2, <1>3
<1>10. /\ Closed \cap N = {} => Keeps(Closed)
       /\ Answers \cap N = {} => Keeps(Answers)
       /\ Arrivals \cap N = {} => Keeps(Arrivals)
  BY <1>1, <1>2
<1> QED
  BY <1>4, <1>5, <1>6, <1>7, <1>8, <1>9, <1>10 DEF Quiet

(* The thread that is at a point.                                           *)
LEMMA AtPoint ==
    ASSUME Core, Shape, NEW t \in Threads, NEW p, At(t, p)
    PROVE  /\ p \in Point /\ Rest(t) \in Seq(Point) /\ Orderly(Rest(t))
           /\ ~Passes(Rest(t), First)
           /\ p \in Calls => ~Passes(Rest(t), Point \ Returns)
           /\ \A P : Has(t, P) <=> p \in P \/ Passes(Rest(t), P)
<1> DEFINE todo == thr[t].todo
<1>1. todo \in Seq(Point) /\ todo # <<>> /\ Head(todo) = p /\ Orderly(todo)
  BY DEF Core, ThreadsInv, Sound, At, Shape
<1>2. Rest(t) = Tail(todo)
  BY DEF Rest
<1>3. \A P : Has(t, P) <=> Passes(todo, P)
  BY DEF Has
<1> HIDE DEF todo
<1>4. \A P : Passes(todo, P) <=> p \in P \/ Passes(Tail(todo), P)
  BY <1>1, PassesRest
<1>5. p \in Point
  BY <1>1
<1> QED
  BY <1>1, <1>2, <1>3, <1>4, <1>5, OrderlyRest

(* It has no other point of those that come first.                          *)
LEMMA AtFirst ==
    ASSUME Core, Shape, NEW t \in Threads, NEW p, At(t, p), NEW q \in First, q # p
    PROVE  ~Has(t, {q})
<1>1. ~Passes(Rest(t), First) /\ \A P : Has(t, P) <=> p \in P \/ Passes(Rest(t), P)
  BY AtPoint
<1>2. ~Passes(Rest(t), {q})
  BY <1>1, PassesMore
<1> QED
  BY <1>1, <1>2

LEMMA Elsewhere ==
    ASSUME IInv, Shape, NEW t \in Threads, NEW p, At(t, p), NEW N, Acts(t, N)
    PROVE  /\ p \notin {"send", "await"} /\ tcsSend' = tcsSend => (Awaiting => Awaiting')
           /\ p # "close" => (Closes => Closes')
           /\ p # "awaitApp" /\ "realPrepareAccept" \notin N /\ (after' => after) =>
                 (Unasked => Unasked')
<1>1. \A u \in Threads \ {t} : thr'[u] = thr[u]
  BY DEF Acts
<1>2. p \notin {"send", "await"} => ~Awaits(thr[t].todo)
  BY DEF At, Awaits
<1>3. p # "close" => ~Has(t, {"close"})
  BY AtFirst DEF First, IInv
<1>4. p # "awaitApp" => ~Has(t, {"awaitApp"})
  BY AtFirst DEF First, IInv
<1>5. "realPrepareAccept" \notin N =>
         (Passes(thr'[t].todo, {"realPrepareAccept"}) => Has(t, {"realPrepareAccept"}))
  <2>1. "realPrepareAccept" \notin N =>
           {"realPrepareAccept"} \cap N = {} /\ {"realPrepareAccept"} \in SUBSET Point
    BY DEF Point
  <2> QED
    BY <2>1 DEF Acts
<1>6. p \notin {"send", "await"} /\ tcsSend' = tcsSend => (Awaiting => Awaiting')
  <2> SUFFICES ASSUME p \notin {"send", "await"}, tcsSend' = tcsSend, Awaiting,
                      NEW u \in tcsSend
               PROVE  Passes(thr'[u].todo, {"app"}) /\ Awaits(thr'[u].todo)
    BY DEF Awaiting, Has, Awaits
  <2>1. u # t /\ Passes(thr[u].todo, {"app"}) /\ Awaits(thr[u].todo)
    BY <1>2 DEF Awaiting, Has
  <2>2. thr'[u] = thr[u]
    <3>1. u \in Threads
      BY DEF IInv, OtherTypes
    <3> QED
      BY <1>1, <2>1, <3>1
  <2> QED
    BY <2>1, <2>2
<1>7. p # "close" => (Closes => Closes')
  BY <1>1, <1>3 DEF Closes, Has
<1>8. p # "awaitApp" /\ "realPrepareAccept" \notin N /\ (after' => after) =>
         (Unasked => Unasked')
  <2> SUFFICES ASSUME p # "awaitApp", "realPrepareAccept" \notin N, after' => after, Unasked
               PROVE  Unasked'
    OBVIOUS
  <2>1. ~after'
    BY DEF Unasked
  <2>2. ASSUME NEW u \in Threads, Passes(thr'[u].todo, {"realPrepareAccept"})
        PROVE  Passes(thr'[u].todo, {"awaitApp"})
    <3>1. u # t
      BY <1>4, <1>5, <2>2 DEF Unasked
    <3> QED
      BY <1>1, <2>2, <3>1 DEF Unasked, Has
  <2> QED
    BY <2>1, <2>2 DEF Unasked, Has
<1> QED
  BY <1>6, <1>7, <1>8

(* Shape and start.                                                         *)
LEMMA Started ==
    ASSUME Start, NEW t \in Threads, NEW p \in Point \ {"awaitApp", "realPrepareAccept"},
           Has(t, {p})
    PROVE  acceptCounter # 0
<1>1. Has(t, Point \ {"awaitApp", "realPrepareAccept"})
  BY HasPoint
<1> QED
  BY <1>1 DEF Start

LEMMA ShapeKeeps ==
    ASSUME Core, Shape, Start, NEW t \in Threads,
           NEW p, At(t, p), p \notin {"awaitApp", "realPrepareAccept"},
           NEW todo \in Seq(Point), Goes(t, todo), Orderly(todo),
           request' \in Nat, request <= request', acceptCounter' = acceptCounter
    PROVE  Shape' /\ Start' /\ acceptCounter # 0
<1>1. p \in Point /\ Has(t, {p})
  BY AtPoint
<1>2. acceptCounter # 0
  BY <1>1, Started
<1> DEFINE none == {q \in Point : Passes(todo, {q})}
<1>3. \A P \in SUBSET Point : P \cap none = {} /\ Passes(todo, P) => Has(t, P)
  <2> SUFFICES ASSUME NEW P \in SUBSET Point, P \cap none = {}, Passes(todo, P) PROVE FALSE
    OBVIOUS
  <2>1. PICK i \in 1..Len(todo) : todo[i] \in P
    BY DEF Passes
  <2>2. todo[i] \in none
    BY <2>1 DEF Passes
  <2> QED
    BY <2>1, <2>2
<1> HIDE DEF none
<1>4. Acts(t, none) /\ thr'[t].todo = todo /\ thr'[t].request \in {0, thr[t].request}
  BY <1>3, GoesActs DEF Core
<1>5. ASSUME NEW u \in Threads PROVE Orderly(thr'[u].todo) /\ thr'[u].request <= request'
  <2>1. thr[u].request \in Nat /\ request \in Nat /\ thr[u].request <= request
        /\ Orderly(thr[u].todo) /\ thr[t].request <= request /\ thr[t].request \in Nat
    BY DEF Core, CoreTypes, ThreadState, Shape
  <2>2. CASE u = t
    BY <1>4, <2>1, <2>2
  <2>3. CASE u # t
    <3>1. thr'[u] = thr[u]
      BY <1>4, <2>3 DEF Acts
    <3> QED
      BY <2>1, <3>1
  <2> QED
    BY <2>2, <2>3
<1>6. Shape'
  BY <1>5 DEF Shape, Orderly
<1>7. Start'
  BY <1>2 DEF Start
<1> QED
  BY <1>2, <1>6, <1>7

(* All of it for one step: thread t passes its point p, and goes on with    *)
(* points it had, or new ones from N.                                       *)
Related(p, N) ==
    /\ "app" \notin N /\ request' = request => (AppsCurrent => AppsCurrent')
    /\ "report" \notin N /\ request' = request => (NoCurrentReport => NoCurrentReport')
    /\ "app" \notin N /\ "close" \notin N => (OnlyCloser => OnlyCloser')
    /\ p \notin {"send", "await"} /\ tcsSend' = tcsSend => (Awaiting => Awaiting')
    /\ p # "close" => (Closes => Closes')
    /\ p # "awaitApp" /\ "realPrepareAccept" \notin N /\ (after' => after) =>
          (Unasked => Unasked')
    /\ NoneOwn => NoneOwn'

LEMMA Frame ==
    ASSUME IInv, Shape, Start, NEW t \in Threads, NEW p, At(t, p),
           p \notin {"awaitApp", "realPrepareAccept"},
           NEW todo \in Seq(Point), Goes(t, todo), Orderly(todo), NEW N,
           \A P \in SUBSET Point : P \cap N = {} /\ Passes(todo, P) => Has(t, P),
           request' \in Nat, request <= request', acceptCounter' = acceptCounter
    PROVE  /\ Shape' /\ Start' /\ acceptCounter # 0
           /\ Acts(t, N) /\ thr'[t].todo = todo
           /\ Quiet(N) /\ Related(p, N)
<1>1. Core /\ CoreTypes
  BY DEF IInv, Core
<1>2. Shape' /\ Start' /\ acceptCounter # 0
  BY <1>1, ShapeKeeps
<1>3. Acts(t, N) /\ thr'[t].todo = todo
  BY <1>1, GoesActs
<1>4. Quiet(N)
  BY <1>3, ActsQuiet
<1>5. /\ "app" \notin N /\ request' = request => (AppsCurrent => AppsCurrent')
      /\ "report" \notin N /\ request' = request => (NoCurrentReport => NoCurrentReport')
      /\ "app" \notin N /\ "close" \notin N => (OnlyCloser => OnlyCloser')
  BY <1>3, ActsRelations
<1>6. /\ p \notin {"send", "await"} /\ tcsSend' = tcsSend => (Awaiting => Awaiting')
      /\ p # "close" => (Closes => Closes')
      /\ p # "awaitApp" /\ "realPrepareAccept" \notin N /\ (after' => after) =>
            (Unasked => Unasked')
  BY <1>3, Elsewhere
<1>7. NoneOwn => NoneOwn'
  BY <1>3, ActsOwn
<1> QED
  BY <1>2, <1>3, <1>4, <1>5, <1>6, <1>7 DEF Related

(* The request is a number, and one that stays does not shrink.             *)
LEMMA RequestStays ==
    ASSUME IInv, request' = request PROVE request' \in Nat /\ request <= request'
  BY ConstantsAssumption DEF IInv, Core, CoreTypes

(* A step that goes on with what the thread had, or with nothing.           *)
LEMMA FrameRest ==
    ASSUME IInv, Shape, Start, NEW t \in Threads, NEW p, At(t, p),
           p \notin {"awaitApp", "realPrepareAccept"}, Goes(t, Rest(t)),
           request' = request, acceptCounter' = acceptCounter
    PROVE  /\ Shape' /\ Start' /\ acceptCounter # 0
           /\ Acts(t, {}) /\ thr'[t].todo = Rest(t)
           /\ Quiet({}) /\ Related(p, {})
<1>1. /\ Rest(t) \in Seq(Point) /\ Orderly(Rest(t))
      /\ \A P : Has(t, P) <=> p \in P \/ Passes(Rest(t), P)
  BY AtPoint DEF IInv
<1>2. request' \in Nat /\ request <= request'
  BY RequestStays
<1>3. \A P \in SUBSET Point : P \cap {} = {} /\ Passes(Rest(t), P) => Has(t, P)
  BY <1>1
<1> DEFINE todo == Rest(t)
<1>4. Goes(t, todo) /\ todo \in Seq(Point) /\ Orderly(todo)
      /\ \A P \in SUBSET Point : P \cap {} = {} /\ Passes(todo, P) => Has(t, P)
  BY <1>1, <1>3
<1> HIDE DEF todo
<1>5. /\ Shape' /\ Start' /\ acceptCounter # 0 /\ Acts(t, {}) /\ thr'[t].todo = todo
      /\ Quiet({}) /\ Related(p, {})
  BY <1>2, <1>4, Frame
<1> QED
  BY <1>5 DEF todo

LEMMA FrameNone ==
    ASSUME IInv, Shape, Start, NEW t \in Threads, NEW p, At(t, p),
           p \notin {"awaitApp", "realPrepareAccept"}, Goes(t, <<>>),
           request' = request, acceptCounter' = acceptCounter
    PROVE  /\ Shape' /\ Start' /\ acceptCounter # 0
           /\ Acts(t, {}) /\ thr'[t].todo = <<>>
           /\ Quiet({}) /\ Related(p, {})
<1> DEFINE todo == <<>>
<1>1. Goes(t, todo) /\ todo \in Seq(Point) /\ Orderly(todo)
      /\ \A P \in SUBSET Point : P \cap {} = {} /\ Passes(todo, P) => Has(t, P)
  BY PassesNone, OrderlyNone
<1>2. request' \in Nat /\ request <= request'
  BY RequestStays
<1> HIDE DEF todo
<1>3. /\ Shape' /\ Start' /\ acceptCounter # 0 /\ Acts(t, {}) /\ thr'[t].todo = todo
      /\ Quiet({}) /\ Related(p, {})
  BY <1>1, <1>2, Frame
<1> QED
  BY <1>3 DEF todo

(* A step that puts another point in the place of its own.                  *)
LEMMA FrameOne ==
    ASSUME IInv, Shape, Start, NEW t \in Threads, NEW p, At(t, p),
           p \notin {"awaitApp", "realPrepareAccept"}, NEW q \in Point, Goes(t, <<q>>),
           request' = request, acceptCounter' = acceptCounter
    PROVE  /\ Shape' /\ Start' /\ acceptCounter # 0
           /\ Acts(t, {q}) /\ thr'[t].todo = <<q>>
           /\ Quiet({q}) /\ Related(p, {q})
<1> DEFINE todo == <<q>>
           N == {q}
<1>1. Goes(t, todo) /\ todo \in Seq(Point) /\ Orderly(todo)
      /\ \A P \in SUBSET Point : P \cap N = {} /\ Passes(todo, P) => Has(t, P)
  BY PassesOne, OrderlyOne
<1>2. request' \in Nat /\ request <= request'
  BY RequestStays
<1> HIDE DEF todo, N
<1>3. /\ Shape' /\ Start' /\ acceptCounter # 0 /\ Acts(t, N) /\ thr'[t].todo = todo
      /\ Quiet(N) /\ Related(p, N)
  BY <1>1, <1>2, Frame
<1> QED
  BY <1>3 DEF todo, N

LEMMA FrameLonger ==
    ASSUME IInv, Shape, Start, NEW t \in Threads, NEW p, At(t, p),
           p \notin {"awaitApp", "realPrepareAccept"},
           NEW q \in Point, q \in Calls => p \in Calls, Goes(t, <<q>> \o Rest(t)),
           request' = request, acceptCounter' = acceptCounter
    PROVE  /\ Shape' /\ Start' /\ acceptCounter # 0
           /\ Acts(t, {q}) /\ thr'[t].todo = <<q>> \o Rest(t)
           /\ Quiet({q}) /\ Related(p, {q})
<1> DEFINE todo == <<q>> \o Rest(t)
           N == {q}
<1>1. /\ Rest(t) \in Seq(Point) /\ Orderly(Rest(t)) /\ ~Passes(Rest(t), First)
      /\ p \in Calls => ~Passes(Rest(t), Point \ Returns)
      /\ \A P : Has(t, P) <=> p \in P \/ Passes(Rest(t), P)
  BY AtPoint DEF IInv
<1>2. todo \in Seq(Point) /\ \A P : Passes(todo, P) <=> q \in P \/ Passes(Rest(t), P)
  BY <1>1, LongerHead, PassesLonger
<1>3. Orderly(todo)
  BY <1>1, OrderlyLonger
<1>4. Goes(t, todo) /\ \A P \in SUBSET Point : P \cap N = {} /\ Passes(todo, P) => Has(t, P)
  BY <1>1, <1>2
<1>5. request' \in Nat /\ request <= request'
  BY RequestStays
<1> HIDE DEF todo, N
<1>6. /\ Shape' /\ Start' /\ acceptCounter # 0 /\ Acts(t, N) /\ thr'[t].todo = todo
      /\ Quiet(N) /\ Related(p, N)
  BY <1>2, <1>3, <1>4, <1>5, Frame
<1> QED
  BY <1>6 DEF todo, N

(* The applications stay where they are unless the thread is at one.        *)
LEMMA AppsStay ==
    ASSUME Core, Shape, NEW t \in Threads, NEW p, At(t, p), p # "app", NEW N, Acts(t, N),
           \/ p \in Calls
           \/ thr'[t].todo = Rest(t)
           \/ \E q \in Point : thr'[t].todo = <<q>> \o Rest(t)
    PROVE  NoApps' => NoApps
<1>1. /\ Rest(t) \in Seq(Point)
      /\ p \in Calls => ~Passes(Rest(t), Point \ Returns)
      /\ Has(t, {"app"}) => Passes(Rest(t), {"app"})
  BY AtPoint
<1>2. CASE Has(t, {"app"})
  <2>1. p \notin Calls
    <3>1. {"app"} \subseteq Point \ Returns
      BY DEF Point, Returns
    <3> QED
      BY <1>1, <1>2, <3>1, PassesMore
  <2>2. Passes(thr'[t].todo, {"app"})
    BY <1>1, <1>2, <2>1, PassesLonger
  <2> QED
    BY <2>2 DEF NoApps, No, Has
<1>3. CASE ~Has(t, {"app"})
  BY <1>3 DEF NoApps, No, Has, Acts
<1> QED
  BY <1>2, <1>3

LEMMA FrameTwo ==
    ASSUME IInv, Shape, Start, NEW t \in Threads, NEW p, At(t, p),
           p \notin {"awaitApp", "realPrepareAccept"},
           NEW q \in Point \ Calls, NEW r \in Point \ First, Goes(t, <<q, r>>),
           request' = request, acceptCounter' = acceptCounter
    PROVE  /\ Shape' /\ Start' /\ acceptCounter # 0
           /\ Acts(t, {q, r}) /\ thr'[t].todo = <<q, r>>
           /\ Quiet({q, r}) /\ Related(p, {q, r})
<1> DEFINE todo == <<q, r>>
           N == {q, r}
<1>1. todo \in Seq(Point) /\ Orderly(todo)
      /\ \A P \in SUBSET Point : P \cap N = {} /\ Passes(todo, P) => Has(t, P)
  BY PassesTwo, OrderlyTwo
<1>2. request' \in Nat /\ request <= request' /\ Goes(t, todo)
  BY RequestStays
<1> HIDE DEF todo, N
<1>3. /\ Shape' /\ Start' /\ acceptCounter # 0 /\ Acts(t, N) /\ thr'[t].todo = todo
      /\ Quiet(N) /\ Related(p, N)
  BY <1>1, <1>2, Frame
<1> QED
  BY <1>3 DEF todo, N

LEMMA FrameTwoOn ==
    ASSUME IInv, Shape, Start, NEW t \in Threads, NEW p \in Calls, At(t, p),
           p \notin {"awaitApp", "realPrepareAccept"},
           NEW q \in Point \ Calls, NEW r \in Point \ First, Goes(t, <<q, r>> \o Rest(t)),
           request' = request, acceptCounter' = acceptCounter
    PROVE  /\ Shape' /\ Start' /\ acceptCounter # 0
           /\ Acts(t, {q, r}) /\ thr'[t].todo = <<q, r>> \o Rest(t)
           /\ Quiet({q, r}) /\ Related(p, {q, r})
<1> DEFINE todo == <<q, r>> \o Rest(t)
           N == {q, r}
<1>1. /\ Rest(t) \in Seq(Point) /\ Orderly(Rest(t)) /\ ~Passes(Rest(t), First)
      /\ ~Passes(Rest(t), Point \ Returns)
      /\ \A P : Has(t, P) <=> p \in P \/ Passes(Rest(t), P)
  BY AtPoint DEF IInv
<1>2. /\ todo \in Seq(Point)
      /\ \A P : Passes(todo, P) <=> q \in P \/ r \in P \/ Passes(Rest(t), P)
  BY <1>1, PassesTwoOn
<1>3. Orderly(todo)
  BY <1>1, OrderlyTwoOn
<1>4. \A P \in SUBSET Point : P \cap N = {} /\ Passes(todo, P) => Has(t, P)
  BY <1>1, <1>2
<1>5. request' \in Nat /\ request <= request' /\ Goes(t, todo)
  BY RequestStays
<1> HIDE DEF todo, N
<1>6. /\ Shape' /\ Start' /\ acceptCounter # 0 /\ Acts(t, N) /\ thr'[t].todo = todo
      /\ Quiet(N) /\ Related(p, N)
  BY <1>2, <1>3, <1>4, <1>5, Frame
<1> QED
  BY <1>6 DEF todo, N

(* A step that concerns nothing of what is said here.                       *)
Idly ==
    /\ UNCHANGED <<phase, slotSending, closing, receiving, heads, partial, gone>>
    /\ UNCHANGED <<clientClosed, disconnecting, keepAlive, lastPacket, tcsSend, waiting>>
    /\ UNCHANGED <<request, lastFinished, disconnected>>
    /\ after' => after

LEMMA LoneStays ==
    ASSUME Lone, NEW p, p \notin {"app", "awaitApp", "send", "await"},
           p = "close" => disconnecting,
           NEW N, N \subseteq {"check", "checkStart", "startReceive"},
           Quiet(N), Related(p, N), Idly, NoApps' => NoApps
    PROVE  Lone'
<1> USE DEF Idly, NoApps, NoSends
<1>1. /\ "app" \notin N /\ "report" \notin N /\ "caught" \notin N /\ "reset" \notin N
      /\ "close" \notin N /\ "sent" \notin N /\ "realPrepareAccept" \notin N
      /\ Closed \cap N = {} /\ Answers \cap N = {} /\ Arrivals \cap N = {}
  BY DEF Closed, Answers, Arrivals
<1>2. /\ Keeps({"app"}) /\ Keeps({"report"}) /\ Keeps({"caught"}) /\ Keeps({"reset"})
      /\ Keeps({"close"}) /\ Keeps({"sent"})
      /\ Keeps(Closed) /\ Keeps(Answers) /\ Keeps(Arrivals)
  BY <1>1 DEF Quiet
<1>3. /\ AppsCurrent => AppsCurrent'
      /\ NoCurrentReport => NoCurrentReport'
      /\ OnlyCloser => OnlyCloser'
      /\ Awaiting => Awaiting'
      /\ Closes /\ ~disconnecting => Closes'
      /\ Unasked => Unasked'
      /\ NoneOwn => NoneOwn'
  BY <1>1 DEF Related
<1>4. Calling'
  BY <1>2, <1>3 DEF Lone, Calling, Keeps, Done, NothingComes, Vacant
<1>5. Reporting'
  BY <1>2, <1>3 DEF Lone, Reporting, Keeps, Done, NothingComes, Vacant
<1>6. Renewing'
  BY <1>2, <1>3 DEF Lone, Renewing, Keeps, Done, NothingComes, Vacant
<1>7. Leaving'
  BY <1>2, <1>3 DEF Lone, Leaving, Keeps, Done, NothingComes, Vacant
<1>8. Between'
  BY <1>2, <1>3 DEF Lone, Between, Keeps, Done, NothingComes, Vacant
<1>9. Sending'
  BY <1>2, <1>3 DEF Lone, Sending, Keeps, Done, NothingComes, Vacant
<1> QED
  BY <1>4, <1>5, <1>6, <1>7, <1>8, <1>9 DEF Lone

(* What is clean was clean before.                                          *)
LEMMA WasClean == ASSUME AppsInv, strays \subseteq strays', Clean' PROVE Clean /\ Lone
  BY DEF AppsInv, Clean

LEMMA Later ==
    ASSUME NEW t \in Threads, NEW changed, Late(t, changed) \subseteq strays', Clean',
           changed, acceptCounter # 0
    PROVE  Own(t)
  BY DEF Late, Clean, Own

(* A close that a thread of another client is going to make.                *)
LEMMA StrangerCloses ==
    ASSUME NEW t \in Threads, Acts(t, {"close"}), ~Own(t)
    PROVE  /\ NoOwn({"close"}) => NoOwn({"close"})'
           /\ OnlyCloser => OnlyCloser'
<1>1. NoOwn({"close"}) => NoOwn({"close"})'
  BY StrangerKeeps
<1>2. \A u, v \in Threads : Own(u)' /\ Has(u, {"close"})' /\ Has(v, {"app"})' =>
        Own(u) /\ Has(u, {"close"}) /\ Has(v, {"app"})
  <2>1. \A u \in Threads : Own(u)' => Own(u) /\ u # t
    BY ActsOwn
  <2>2. \A u \in Threads \ {t} : \A P : Has(u, P)' <=> Has(u, P)
    BY ActsOwn
  <2>3. Has(t, {"app"})' => Has(t, {"app"})
    <3>1. {"app"} \in SUBSET Point /\ {"app"} \cap {"close"} = {}
      BY DEF Point
    <3> QED
      BY <3>1 DEF Acts, Has
  <2> QED
    BY <2>1, <2>2, <2>3
<1> QED
  BY <1>1, <1>2 DEF OnlyCloser

(* TellClosed, AfterSend, ResetForNextRequest, CloseConnection.             *)
LEMMA TellClosedApps ==
    ASSUME IInv, AppsInv, NEW t \in Threads, TellClosed(t) PROVE AppsInv'
<1>1. At(t, "told") /\ Shape /\ Start
  BY DEF TellClosed, Runs, AppsInv
<1>2. /\ Idly /\ acceptCounter' = acceptCounter /\ request' = request
      /\ strays \subseteq strays' /\ (~waiting => Goes(t, <<>>))
      /\ waiting => Goes(t, <<"close">>)
  BY DEF TellClosed, slotVars, receiveVars, connectionVars, responseVars, owinVars, Idly
<1>3. CASE ~waiting
  <2>1. /\ Shape' /\ Start' /\ Quiet({}) /\ Related("told", {}) /\ Acts(t, {})
    BY <1>1, <1>2, <1>3, FrameNone
  <2>2. NoApps' => NoApps
    BY <1>1, <2>1, AppsStay DEF IInv, Calls
  <2> QED
    BY <1>2, <2>1, <2>2, LoneStays, WasClean DEF AppsInv
<1>4. CASE waiting
  <2>1. /\ Shape' /\ Start' /\ Quiet({"close"}) /\ Related("told", {"close"})
        /\ Acts(t, {"close"})
    BY <1>1, <1>2, <1>4, FrameOne DEF Point
  <2>2. NoApps' => NoApps
    BY <1>1, <2>1, AppsStay DEF IInv, Calls
  <2> SUFFICES ASSUME Clean' PROVE Lone'
    BY <2>1 DEF AppsInv
  <2>3. Lone
    BY <1>2, WasClean
  <2>4. Own(t) => gone /\ NothingComes /\ NoApps /\ NoSends /\ ~slotSending
    <3>1. Has(t, Closed)
      BY <1>1, AtPoint DEF IInv, Closed
    <3>2. Own(t) => ~NoOwn(Closed)
      BY <3>1 DEF NoOwn
    <3> QED
      BY <1>4, <2>3, <3>2 DEF Lone, Leaving, Calling, Sending, NothingComes
  <2>5. ~Own(t) => /\ NoOwn({"close"}) => NoOwn({"close"})'
                   /\ OnlyCloser => OnlyCloser'
    BY <2>1, StrangerCloses
  <2> USE DEF Idly, NoApps, NoSends
  <2>6. /\ Keeps({"app"}) /\ Keeps({"report"}) /\ Keeps({"caught"}) /\ Keeps({"reset"})
        /\ Keeps({"sent"}) /\ Keeps(Closed) /\ Keeps(Answers) /\ Keeps(Arrivals)
    BY <2>1 DEF Quiet, Closed, Answers, Arrivals
  <2>7. /\ AppsCurrent => AppsCurrent'
        /\ NoCurrentReport => NoCurrentReport'
        /\ Awaiting => Awaiting'
        /\ Closes => Closes'
        /\ Unasked => Unasked'
        /\ NoneOwn => NoneOwn'
    BY <1>2, <2>1 DEF Related
  <2>8. NoApps' => OnlyCloser'
    BY DEF NoApps, No, OnlyCloser
  <2>9. Calling'
    BY <1>2, <2>2, <2>3, <2>4, <2>5, <2>6, <2>7, <2>8 DEF Lone, Calling, Keeps, Done,
       NothingComes, Vacant
  <2>10. Reporting'
    BY <1>2, <2>2, <2>3, <2>4, <2>5, <2>6, <2>7, <2>8 DEF Lone, Reporting, Keeps, Done,
       NothingComes, Vacant
  <2>11. Renewing'
    BY <1>2, <2>2, <2>3, <2>4, <2>5, <2>6, <2>7, <2>8 DEF Lone, Renewing, Keeps, Done,
       NothingComes, Vacant
  <2>12. Leaving'
    BY <1>2, <2>2, <2>3, <2>4, <2>5, <2>6, <2>7, <2>8 DEF Lone, Leaving, Keeps, Done,
       NothingComes, Vacant
  <2>13. Between'
    BY <1>2, <2>2, <2>3, <2>4, <2>5, <2>6, <2>7, <2>8 DEF Lone, Between, Keeps, Done,
       NothingComes, Vacant
  <2>14. Sending'
    BY <1>2, <2>2, <2>3, <2>4, <2>5, <2>6, <2>7, <2>8 DEF Lone, Sending, Keeps, Done,
       NothingComes, Vacant
  <2> QED
    BY <2>9, <2>10, <2>11, <2>12, <2>13, <2>14 DEF Lone
<1> QED
  BY <1>3, <1>4

(* The thread at a point has it, and for its own client leaves it to none.  *)
LEMMA Departs ==
    ASSUME IInv, Shape, NEW t \in Threads, NEW p, At(t, p), NEW P, p \in P,
           NEW N, Acts(t, N), ~Passes(thr'[t].todo, P)
    PROVE  /\ Has(t, P)
           /\ OneOwn(P) /\ Own(t) => NoOwn(P)'
           /\ One(P) => No(P)'
<1>1. Has(t, P)
  BY AtPoint DEF IInv
<1>2. \A u \in Threads : Own(u)' => Own(u)
  BY ActsOwn
<1>3. \A u \in Threads : Has(u, P)' => Has(u, P) /\ u # t
  <2>1. \A u \in Threads \ {t} : Has(u, P)' <=> Has(u, P)
    BY ActsOwn
  <2>2. ~Has(t, P)'
    BY DEF Has
  <2> QED
    BY <2>1, <2>2
<1>4. OneOwn(P) /\ Own(t) => NoOwn(P)'
  BY <1>1, <1>2, <1>3 DEF OneOwn, NoOwn
<1>5. One(P) => No(P)'
  BY <1>1, <1>3 DEF One, No
<1> QED
  BY <1>1, <1>4, <1>5

LEMMA AfterSendApps ==
    ASSUME IInv, AppsInv, NEW t \in Threads, AfterSend(t) PROVE AppsInv'
<1> USE DEF NoApps, NoSends
<1>1. PICK p \in {"sent", "flushed"} : At(t, p)
  BY DEF AfterSend, Runs
<1>2. /\ UNCHANGED <<phase, slotSending, closing, receiving, after, heads, partial, gone>>
      /\ UNCHANGED <<clientClosed, disconnecting, acceptCounter, keepAlive, tcsSend, waiting>>
      /\ UNCHANGED <<request, lastFinished, disconnected>> /\ lastPacket' = FALSE
      /\ strays \subseteq strays'
  BY DEF AfterSend, slotVars, receiveVars, connectionVars, requestVars, owinVars
<1>3. Shape /\ Start
  BY DEF AppsInv
<1>4. CASE ~lastPacket
  <2>1. Goes(t, <<>>) /\ (lastPacket' <=> lastPacket)
    BY <1>2, <1>4 DEF AfterSend
  <2>2. /\ Shape' /\ Start' /\ Quiet({}) /\ Related(p, {}) /\ Acts(t, {})
    BY <1>1, <1>2, <1>3, <2>1, FrameNone
  <2>3. NoApps' => NoApps
    BY <1>1, <1>3, <2>2, AppsStay DEF IInv, Calls
  <2>4. lastPacket' = lastPacket
    BY <1>2, <1>4 DEF IInv, OtherTypes
  <2>5. Idly
    BY <1>2, <2>4 DEF Idly
  <2> QED
    BY <1>1, <1>2, <2>2, <2>3, <2>5, LoneStays, WasClean DEF AppsInv
<1>5. ASSUME lastPacket, Clean', acceptCounter # 0
      PROVE  Lone /\ Own(t) /\ At(t, "sent")
  <2>1. Lone
    BY <1>2, <1>5, WasClean
  <2>2. Own(t)
    BY <1>5, Later DEF AfterSend
  <2>3. ~At(t, "flushed")
    BY <1>5 DEF AfterSend, Clean
  <2> QED
    BY <2>1, <2>2, <2>3, <1>1
<1>6. CASE lastPacket /\ keepAlive /\ ~clientClosed
  <2>1. Goes(t, <<"reset", "next">>)
    BY <1>6 DEF AfterSend
  <2>2. /\ Shape' /\ Start' /\ acceptCounter # 0 /\ Acts(t, {"reset", "next"})
        /\ thr'[t].todo = <<"reset", "next">>
        /\ Quiet({"reset", "next"}) /\ Related(p, {"reset", "next"})
    BY <1>1, <1>2, <1>3, <2>1, FrameTwo DEF Point, Calls, First
  <2>3. NoApps' => NoApps
    BY <1>1, <1>3, <2>2, AppsStay DEF IInv, Calls
  <2> SUFFICES ASSUME Clean' PROVE Lone'
    BY <2>2 DEF AppsInv
  <2>4. Lone /\ Own(t) /\ At(t, "sent")
    BY <1>5, <1>6, <2>2
  <2>5. /\ Keeps({"app"}) /\ Keeps({"report"}) /\ Keeps({"caught"}) /\ Keeps({"close"})
        /\ Keeps({"sent"}) /\ Keeps(Closed) /\ Keeps(Answers) /\ Keeps(Arrivals)
    BY <2>2 DEF Quiet, Closed, Answers, Arrivals
  <2>6. /\ AppsCurrent => AppsCurrent'
        /\ NoCurrentReport => NoCurrentReport'
        /\ OnlyCloser => OnlyCloser'
        /\ Awaiting => Awaiting'
        /\ Closes => Closes'
        /\ Unasked => Unasked'
        /\ NoneOwn => NoneOwn'
    BY <1>1, <1>2, <2>2 DEF Related
  <2>7. ~Passes(<<"reset", "next">>, {"sent"})
    <3>1. "reset" \in Point /\ "next" \in Point
      BY DEF Point
    <3>2. Passes(<<"reset", "next">>, {"sent"}) <=> "reset" \in {"sent"} \/ "next" \in {"sent"}
      BY <3>1, PassesTwo
    <3> QED
      BY <3>2
  <2>8. ~NoOwn({"sent"}) /\ (OneOwn({"sent"}) => NoOwn({"sent"})')
    BY <1>3, <2>2, <2>4, <2>7, Departs DEF NoOwn
  <2>9. /\ NoSends /\ ~slotSending /\ NoApps /\ ~waiting /\ ~Done
    BY <1>6, <2>4, <2>8 DEF Lone, Sending, Renewing, Done
  <2>10. lastFinished # "pending" /\ NoOwn({"reset"}) /\ NoOwn({"caught"})
    BY <1>6, <2>4, <2>9 DEF Lone, Reporting, Renewing
  <2>11. OneOwn({"reset"})'
    <3>1. \A u \in Threads : Own(u)' => Own(u)
      BY <2>2, ActsOwn
    <3>2. \A u \in Threads \ {t} : Has(u, {"reset"})' <=> Has(u, {"reset"})
      BY <2>2, ActsOwn
    <3> QED
      BY <2>10, <3>1, <3>2 DEF NoOwn, OneOwn
  <2>12. ~NoneOwn
    BY <2>4 DEF NoneOwn
  <2>13. Calling'
    BY <1>2, <1>6, <2>3, <2>4, <2>5, <2>6, <2>8, <2>9, <2>10, <2>11, <2>12 DEF Lone, Calling,
       Keeps, Done, NothingComes, Vacant
  <2>14. Reporting'
    BY <1>2, <1>6, <2>3, <2>4, <2>5, <2>6, <2>8, <2>9, <2>10, <2>11, <2>12 DEF Lone, Reporting,
       Keeps, Done, NothingComes, Vacant
  <2>15. Renewing'
    BY <1>2, <1>6, <2>3, <2>4, <2>5, <2>6, <2>8, <2>9, <2>10, <2>11, <2>12 DEF Lone, Renewing,
       Keeps, Done, NothingComes, Vacant
  <2>16. Leaving'
    BY <1>2, <1>6, <2>3, <2>4, <2>5, <2>6, <2>8, <2>9, <2>10, <2>11, <2>12 DEF Lone, Leaving,
       Keeps, Done, NothingComes, Vacant
  <2>17. Between'
    BY <1>2, <1>6, <2>3, <2>4, <2>5, <2>6, <2>8, <2>9, <2>10, <2>11, <2>12 DEF Lone, Between,
       Keeps, Done, NothingComes, Vacant
  <2>18. Sending'
    BY <1>2, <1>6, <2>3, <2>4, <2>5, <2>6, <2>8, <2>9, <2>10, <2>11, <2>12 DEF Lone, Sending,
       Keeps, Done, NothingComes, Vacant
  <2> QED
    BY <2>13, <2>14, <2>15, <2>16, <2>17, <2>18 DEF Lone
<1>7. CASE lastPacket /\ ~(keepAlive /\ ~clientClosed)
  <2>1. Goes(t, <<"close">>)
    BY <1>7 DEF AfterSend
  <2>2. /\ Shape' /\ Start' /\ acceptCounter # 0 /\ Acts(t, {"close"})
        /\ thr'[t].todo = <<"close">> /\ Quiet({"close"}) /\ Related(p, {"close"})
    BY <1>1, <1>2, <1>3, <2>1, FrameOne DEF Point
  <2>3. NoApps' => NoApps
    BY <1>1, <1>3, <2>2, AppsStay DEF IInv, Calls
  <2> SUFFICES ASSUME Clean' PROVE Lone'
    BY <2>2 DEF AppsInv
  <2>4. Lone /\ Own(t) /\ At(t, "sent")
    BY <1>5, <1>7, <2>2
  <2>5. /\ Keeps({"app"}) /\ Keeps({"report"}) /\ Keeps({"caught"}) /\ Keeps({"reset"})
        /\ Keeps({"sent"}) /\ Keeps(Closed) /\ Keeps(Answers) /\ Keeps(Arrivals)
    BY <2>2 DEF Quiet, Closed, Answers, Arrivals
  <2>6. /\ AppsCurrent => AppsCurrent'
        /\ NoCurrentReport => NoCurrentReport'
        /\ Awaiting => Awaiting'
        /\ Closes => Closes'
        /\ Unasked => Unasked'
        /\ NoneOwn => NoneOwn'
    BY <1>1, <1>2, <2>2 DEF Related
  <2>7. ~Passes(<<"close">>, {"sent"})
    BY PassesOne DEF Point
  <2>8. ~NoOwn({"sent"}) /\ (OneOwn({"sent"}) => NoOwn({"sent"})')
    BY <1>3, <2>2, <2>4, <2>7, Departs DEF NoOwn
  <2>9. NoApps /\ NoSends /\ (~disconnecting => ~slotSending) /\ lastFinished # "pending"
    BY <1>7, <2>4, <2>8 DEF Lone, Sending, Reporting, Done
  <2>10. NoApps' => OnlyCloser'
    BY DEF No, OnlyCloser
  <2>11. ~NoneOwn
    BY <2>4 DEF NoneOwn
  <2>12. (Done \/ NothingComes)'
    <3>1. waiting => NothingComes
      BY <1>7, <2>4 DEF Lone, Renewing
    <3>2. ~waiting => NoOwn({"reset"})
      BY <1>7, <2>4 DEF Lone, Renewing
    <3> QED
      BY <1>2, <2>5, <2>9, <3>1, <3>2 DEF Done, NothingComes, Keeps
  <2>13. Calling'
    BY <1>2, <1>7, <2>3, <2>4, <2>5, <2>6, <2>8, <2>9, <2>10, <2>11, <2>12 DEF Lone, Calling,
       Keeps, Done, NothingComes, Vacant
  <2>14. Reporting'
    BY <1>2, <1>7, <2>3, <2>4, <2>5, <2>6, <2>8, <2>9, <2>10, <2>11, <2>12 DEF Lone, Reporting,
       Keeps, Done, NothingComes, Vacant
  <2>15. Renewing'
    BY <1>2, <1>7, <2>3, <2>4, <2>5, <2>6, <2>8, <2>9, <2>10, <2>11, <2>12 DEF Lone, Renewing,
       Keeps, Done, NothingComes, Vacant
  <2>16. Leaving'
    BY <1>2, <1>7, <2>3, <2>4, <2>5, <2>6, <2>8, <2>9, <2>10, <2>11, <2>12 DEF Lone, Leaving,
       Keeps, Done, NothingComes, Vacant
  <2>17. Between'
    BY <1>2, <1>7, <2>3, <2>4, <2>5, <2>6, <2>8, <2>9, <2>10, <2>11, <2>12 DEF Lone, Between,
       Keeps, Done, NothingComes, Vacant
  <2>18. Sending'
    BY <1>2, <1>7, <2>3, <2>4, <2>5, <2>6, <2>8, <2>9, <2>10, <2>11, <2>12 DEF Lone, Sending,
       Keeps, Done, NothingComes, Vacant
  <2> QED
    BY <2>13, <2>14, <2>15, <2>16, <2>17, <2>18 DEF Lone
<1> QED
  BY <1>4, <1>6, <1>7

LEMMA ResetApps ==
    ASSUME IInv, AppsInv, NEW t \in Threads, ResetForNextRequest(t) PROVE AppsInv'
<1> USE DEF NoApps, NoSends
<1>1. At(t, "reset") /\ Shape /\ Start
  BY DEF ResetForNextRequest, Runs, AppsInv
<1>2. /\ UNCHANGED <<phase, slotSending, closing, receiving, after, heads, partial, gone>>
      /\ UNCHANGED <<clientClosed, disconnecting, acceptCounter, keepAlive, tcsSend>>
      /\ UNCHANGED <<request, lastFinished, disconnected>>
      /\ waiting' = TRUE /\ lastPacket' = FALSE /\ strays \subseteq strays'
      /\ Late(t, TRUE) \subseteq strays'
      /\ Goes(t, <<>>) \/ Goes(t, Rest(t))
  BY DEF ResetForNextRequest, slotVars, receiveVars, connectionVars, owinVars
<1>3. /\ Shape' /\ Start' /\ acceptCounter # 0 /\ Acts(t, {})
      /\ Quiet({}) /\ Related("reset", {})
  BY <1>1, <1>2, FrameRest, FrameNone
<1>4. ~Passes(thr'[t].todo, {"reset"})
  <2>1. ~Passes(Rest(t), {"reset"}) /\ ~Passes(<<>>, {"reset"})
    BY <1>1, AtPoint, PassesMore, PassesNone DEF First, IInv
  <2>2. thr'[t].todo = <<>> \/ thr'[t].todo = Rest(t)
    BY <1>1, <1>2, FrameRest, FrameNone
  <2> QED
    BY <2>1, <2>2
<1> SUFFICES ASSUME Clean' PROVE Lone'
  BY <1>3 DEF AppsInv
<1>5. Lone /\ Own(t)
  BY <1>2, <1>3, WasClean, Later
<1>6. /\ Keeps({"app"}) /\ Keeps({"report"}) /\ Keeps({"caught"}) /\ Keeps({"reset"})
      /\ Keeps({"close"}) /\ Keeps({"sent"})
      /\ Keeps(Closed) /\ Keeps(Answers) /\ Keeps(Arrivals)
  BY <1>3 DEF Quiet
<1>7. /\ AppsCurrent => AppsCurrent'
      /\ NoCurrentReport => NoCurrentReport'
      /\ OnlyCloser => OnlyCloser'
      /\ Awaiting => Awaiting'
      /\ Closes => Closes'
      /\ Unasked => Unasked'
  BY <1>2, <1>3 DEF Related
<1>8. ~NoOwn({"reset"}) /\ NoOwn({"reset"})'
  BY <1>1, <1>3, <1>4, <1>5, Departs DEF NoOwn, Lone, Renewing
<1>9. /\ NoApps /\ NoSends /\ ~slotSending /\ ~lastPacket /\ ~Done
      /\ lastFinished # "pending"
      /\ NoOwn({"report"}) \/ lastFinished # "done"
      /\ NoOwn({"caught"})
  BY <1>5, <1>8 DEF Lone, Renewing, Reporting, Done
<1>10. NoOwn({"sent"})
  BY <1>5, <1>9 DEF Lone, Sending
<1>11. ~NoneOwn
  BY <1>5 DEF NoneOwn
<1>12. Calling'
  BY <1>2, <1>5, <1>6, <1>7, <1>8, <1>9, <1>10, <1>11 DEF Lone, Calling, Keeps, Done,
     NothingComes, Vacant
<1>13. Reporting'
  BY <1>2, <1>5, <1>6, <1>7, <1>8, <1>9, <1>10, <1>11 DEF Lone, Reporting, Keeps, Done,
     NothingComes, Vacant
<1>14. Renewing'
  BY <1>2, <1>5, <1>6, <1>7, <1>8, <1>9, <1>10, <1>11 DEF Lone, Renewing, Keeps, Done,
     NothingComes, Vacant
<1>15. Leaving'
  BY <1>2, <1>5, <1>6, <1>7, <1>8, <1>9, <1>10, <1>11 DEF Lone, Leaving, Keeps, Done,
     NothingComes, Vacant
<1>16. Between'
  BY <1>2, <1>5, <1>6, <1>7, <1>8, <1>9, <1>10, <1>11 DEF Lone, Between, Keeps, Done,
     NothingComes, Vacant
<1>17. Sending'
  BY <1>2, <1>5, <1>6, <1>7, <1>8, <1>9, <1>10, <1>11 DEF Lone, Sending, Keeps, Done,
     NothingComes, Vacant
<1> QED
  BY <1>12, <1>13, <1>14, <1>15, <1>16, <1>17 DEF Lone

LEMMA CloseApps ==
    ASSUME IInv, AppsInv, NEW t \in Threads, CloseConnection(t) PROVE AppsInv'
<1> USE DEF NoApps, NoSends
<1>1. At(t, "close") /\ Shape /\ Start
  BY DEF CloseConnection, Runs, AppsInv
<1>2. /\ UNCHANGED <<receiving, after, heads, partial, gone, clientClosed, acceptCounter>>
      /\ UNCHANGED <<keepAlive, lastPacket, tcsSend, waiting, request, lastFinished>>
      /\ UNCHANGED disconnected /\ disconnecting' = TRUE /\ strays \subseteq strays'
      /\ Goes(t, <<>>) \/ Goes(t, Rest(t))
  BY DEF CloseConnection, CallDown, receiveVars, responseVars, requestVars, owinVars
<1>3. /\ Shape' /\ Start' /\ acceptCounter # 0 /\ Acts(t, {})
      /\ Quiet({}) /\ Related("close", {})
  BY <1>1, <1>2, FrameRest, FrameNone
<1> SUFFICES ASSUME Clean' PROVE Lone'
  BY <1>3 DEF AppsInv
<1>4. Lone
  BY <1>2, WasClean
<1>5. Goes(t, Rest(t))
  BY DEF CloseConnection, CallDown, Clean
<1>6. NoApps' => NoApps
  BY <1>1, <1>3, <1>5, AppsStay, FrameRest, <1>2 DEF IInv
<1>7. CASE disconnecting
  <2>1. Idly
    <3>1. UNCHANGED slotVars /\ disconnecting' = disconnecting
      BY <1>2, <1>7 DEF CloseConnection, IInv, OtherTypes
    <3> QED
      BY <1>2, <3>1 DEF Idly, slotVars
  <2> QED
    BY <1>3, <1>4, <1>6, <1>7, <2>1, LoneStays
<1>8. CASE ~disconnecting
  <2>1. /\ phase = "open" /\ ~closing /\ closing' = TRUE
        /\ UNCHANGED <<phase, slotSending>> /\ Late(t, TRUE) \subseteq strays'
    BY <1>8 DEF CloseConnection, CallDown, Clean, Slot!MayDisconnect, Slot!StartDisconnect
  <2>2. Own(t)
    BY <1>3, <2>1, Later
  <2>3. Has(t, {"close"})
    BY <1>1, AtPoint DEF IInv
  <2>4. ~NoOwn({"close"})
    BY <2>2, <2>3 DEF NoOwn
  <2>5. /\ Keeps({"app"}) /\ Keeps({"report"}) /\ Keeps({"caught"}) /\ Keeps({"reset"})
        /\ Keeps({"close"}) /\ Keeps({"sent"})
        /\ Keeps(Closed) /\ Keeps(Answers) /\ Keeps(Arrivals)
    BY <1>3 DEF Quiet
  <2>6. /\ AppsCurrent => AppsCurrent'
        /\ NoCurrentReport => NoCurrentReport'
        /\ OnlyCloser => OnlyCloser'
        /\ Awaiting => Awaiting'
        /\ Unasked => Unasked'
    BY <1>2, <1>3 DEF Related
  <2>7. Calling'
    BY <1>2, <1>4, <1>6, <1>8, <2>1, <2>4, <2>5, <2>6 DEF Lone, Calling, Keeps, Done,
       NothingComes, Vacant
  <2>8. Reporting'
    BY <1>2, <1>4, <1>6, <1>8, <2>1, <2>4, <2>5, <2>6 DEF Lone, Reporting, Keeps, Done,
       NothingComes, Vacant
  <2>9. Renewing'
    BY <1>2, <1>4, <1>6, <1>8, <2>1, <2>4, <2>5, <2>6 DEF Lone, Renewing, Keeps, Done,
       NothingComes, Vacant
  <2>10. Leaving'
    BY <1>2, <1>4, <1>6, <1>8, <2>1, <2>4, <2>5, <2>6 DEF Lone, Leaving, Keeps, Done,
       NothingComes, Vacant
  <2>11. Between'
    BY <1>2, <1>4, <1>6, <1>8, <2>1, <2>4, <2>5, <2>6 DEF Lone, Between, Keeps, Done,
       NothingComes, Vacant
  <2>12. Sending'
    BY <1>2, <1>4, <1>6, <1>8, <2>1, <2>4, <2>5, <2>6 DEF Lone, Sending, Keeps, Done,
       NothingComes, Vacant
  <2> QED
    BY <2>7, <2>8, <2>9, <2>10, <2>11, <2>12 DEF Lone
<1> QED
  BY <1>7, <1>8

LEMMA NoteClosedApps ==
    ASSUME IInv, AppsInv, NEW t \in Threads, NoteClosed(t) PROVE AppsInv'
<1> USE DEF NoApps, NoSends
<1>1. At(t, "closed") /\ Shape /\ Start
  BY DEF NoteClosed, Runs, AppsInv
<1>2. /\ UNCHANGED <<phase, slotSending, closing, receiving, heads, partial, gone>>
      /\ UNCHANGED <<disconnecting, acceptCounter, keepAlive, lastPacket, tcsSend, waiting>>
      /\ UNCHANGED <<request, lastFinished, disconnected>>
      /\ after' = FALSE /\ strays \subseteq strays'
  BY DEF NoteClosed, slotVars, connectionVars, responseVars, requestVars, owinVars
<1>3. CASE after
  <2>1. Goes(t, <<"realPrepareAccept">>) /\ UNCHANGED clientClosed
    BY <1>3 DEF NoteClosed
  <2>2. /\ Shape' /\ Start' /\ Acts(t, {"realPrepareAccept"})
        /\ Quiet({"realPrepareAccept"}) /\ Related("closed", {"realPrepareAccept"})
    BY <1>1, <1>2, <2>1, FrameOne DEF Point
  <2> SUFFICES ASSUME Clean' PROVE Lone'
    BY <2>2 DEF AppsInv
  <2>3. Lone
    BY <1>2, WasClean
  <2>4. ~Unasked
    BY <1>3 DEF Unasked
  <2>5. /\ Keeps({"app"}) /\ Keeps({"report"}) /\ Keeps({"caught"}) /\ Keeps({"reset"})
        /\ Keeps({"close"}) /\ Keeps({"sent"})
        /\ Keeps(Closed) /\ Keeps(Answers) /\ Keeps(Arrivals)
    BY <2>2 DEF Quiet, Closed, Answers, Arrivals
  <2>6. /\ AppsCurrent => AppsCurrent'
        /\ NoCurrentReport => NoCurrentReport'
        /\ OnlyCloser => OnlyCloser'
        /\ Awaiting => Awaiting'
        /\ Closes => Closes'
        /\ NoneOwn => NoneOwn'
    BY <1>2, <2>2 DEF Related
  <2>7. NoApps /\ NoSends /\ lastFinished # "pending"
    BY <2>3, <2>4 DEF Lone, Between
  <2>8. Calling'
    BY <1>2, <2>1, <2>3, <2>5, <2>6, <2>7 DEF Lone, Calling, Keeps, Done, NothingComes, Vacant
  <2>9. Reporting'
    BY <1>2, <2>1, <2>3, <2>5, <2>6, <2>7 DEF Lone, Reporting, Keeps, Done, NothingComes, Vacant
  <2>10. Renewing'
    BY <1>2, <2>1, <2>3, <2>5, <2>6, <2>7 DEF Lone, Renewing, Keeps, Done, NothingComes, Vacant
  <2>11. Leaving'
    BY <1>2, <2>1, <2>3, <2>5, <2>6, <2>7 DEF Lone, Leaving, Keeps, Done, NothingComes, Vacant
  <2>12. Between'
    BY <1>2, <2>1, <2>3, <2>5, <2>6, <2>7 DEF Lone, Between, Keeps, Done, NothingComes, Vacant
  <2>13. Sending'
    BY <1>2, <2>1, <2>3, <2>5, <2>6, <2>7 DEF Lone, Sending, Keeps, Done, NothingComes, Vacant
  <2> QED
    BY <2>8, <2>9, <2>10, <2>11, <2>12, <2>13 DEF Lone
<1>4. CASE ~after
  <2>1. Goes(t, Rest(t)) /\ clientClosed' = TRUE /\ Late(t, TRUE) \subseteq strays'
    BY <1>4 DEF NoteClosed
  <2>2. /\ Shape' /\ Start' /\ acceptCounter # 0 /\ Acts(t, {}) /\ thr'[t].todo = Rest(t)
        /\ Quiet({}) /\ Related("closed", {})
    BY <1>1, <1>2, <2>1, FrameRest
  <2>3. NoApps' => NoApps
    BY <1>1, <2>2, AppsStay DEF IInv
  <2> SUFFICES ASSUME Clean' PROVE Lone'
    BY <2>2 DEF AppsInv
  <2>4. Lone /\ Own(t) /\ ~NoneOwn
    BY <1>2, <2>1, <2>2, WasClean, Later DEF NoneOwn
  <2>5. /\ Keeps({"app"}) /\ Keeps({"report"}) /\ Keeps({"caught"}) /\ Keeps({"reset"})
        /\ Keeps({"close"}) /\ Keeps({"sent"})
        /\ Keeps(Closed) /\ Keeps(Answers) /\ Keeps(Arrivals)
    BY <2>2 DEF Quiet, Closed, Answers, Arrivals
  <2>6. /\ AppsCurrent => AppsCurrent'
        /\ NoCurrentReport => NoCurrentReport'
        /\ OnlyCloser => OnlyCloser'
        /\ Awaiting => Awaiting'
        /\ Closes => Closes'
        /\ Unasked => Unasked'
    BY <1>2, <1>4, <2>2 DEF Related
  <2>7. Calling'
    BY <1>2, <2>1, <2>3, <2>4, <2>5, <2>6 DEF Lone, Calling, Keeps, Done, NothingComes, Vacant
  <2>8. Reporting'
    BY <1>2, <2>1, <2>3, <2>4, <2>5, <2>6 DEF Lone, Reporting, Keeps, Done, NothingComes, Vacant
  <2>9. Renewing'
    BY <1>2, <2>1, <2>3, <2>4, <2>5, <2>6 DEF Lone, Renewing, Keeps, Done, NothingComes, Vacant
  <2>10. Leaving'
    BY <1>2, <2>1, <2>3, <2>4, <2>5, <2>6 DEF Lone, Leaving, Keeps, Done, NothingComes, Vacant
  <2>11. Between'
    BY <1>2, <2>1, <2>3, <2>4, <2>5, <2>6 DEF Lone, Between, Keeps, Done, NothingComes, Vacant
  <2>12. Sending'
    BY <1>2, <2>1, <2>3, <2>4, <2>5, <2>6 DEF Lone, Sending, Keeps, Done, NothingComes, Vacant
  <2> QED
    BY <2>7, <2>8, <2>9, <2>10, <2>11, <2>12 DEF Lone
<1> QED
  BY <1>3, <1>4

(* CheckAfter, StartReceive, StartSend, StartSendError.                     *)
LEMMA CheckAfterApps ==
    ASSUME IInv, AppsInv, NEW t \in Threads, CheckAfter(t) PROVE AppsInv'
<1> USE DEF NoApps, NoSends
<1>1. PICK p \in {"check", "checkStart"} : At(t, p)
  BY DEF CheckAfter, Runs
<1>2. /\ UNCHANGED <<phase, slotSending, closing, receiving, heads, partial, gone>>
      /\ UNCHANGED <<clientClosed, disconnecting, acceptCounter, keepAlive, lastPacket>>
      /\ UNCHANGED <<tcsSend, waiting, request, lastFinished, disconnected>>
      /\ after' = FALSE /\ strays \subseteq strays'
  BY DEF CheckAfter, slotVars, connectionVars, responseVars, requestVars, owinVars
<1>3. Shape /\ Start
  BY DEF AppsInv
<1>4. CASE after
  <2>1. Goes(t, <<"realPrepareAccept">>)
    BY <1>4 DEF CheckAfter
  <2>2. /\ Shape' /\ Start' /\ Acts(t, {"realPrepareAccept"})
        /\ Quiet({"realPrepareAccept"}) /\ Related(p, {"realPrepareAccept"})
    BY <1>1, <1>2, <1>3, <2>1, FrameOne DEF Point
  <2> SUFFICES ASSUME Clean' PROVE Lone'
    BY <2>2 DEF AppsInv
  <2>3. Lone
    BY <1>2, WasClean
  <2>4. NoApps /\ NoSends /\ lastFinished # "pending"
    BY <1>4, <2>3 DEF Lone, Between, Unasked
  <2>5. /\ Keeps({"app"}) /\ Keeps({"report"}) /\ Keeps({"caught"}) /\ Keeps({"reset"})
        /\ Keeps({"close"}) /\ Keeps({"sent"})
        /\ Keeps(Closed) /\ Keeps(Answers) /\ Keeps(Arrivals)
    BY <2>2 DEF Quiet, Closed, Answers, Arrivals
  <2>6. /\ AppsCurrent => AppsCurrent'
        /\ NoCurrentReport => NoCurrentReport'
        /\ OnlyCloser => OnlyCloser'
        /\ Awaiting => Awaiting'
        /\ Closes => Closes'
        /\ NoneOwn => NoneOwn'
    BY <1>1, <1>2, <2>2 DEF Related
  <2>7. Calling'
    BY <1>2, <2>3, <2>4, <2>5, <2>6 DEF Lone, Calling, Keeps, Done, NothingComes, Vacant
  <2>8. Reporting'
    BY <1>2, <2>3, <2>4, <2>5, <2>6 DEF Lone, Reporting, Keeps, Done, NothingComes, Vacant
  <2>9. Renewing'
    BY <1>2, <2>3, <2>4, <2>5, <2>6 DEF Lone, Renewing, Keeps, Done, NothingComes, Vacant
  <2>10. Leaving'
    BY <1>2, <2>3, <2>4, <2>5, <2>6 DEF Lone, Leaving, Keeps, Done, NothingComes, Vacant
  <2>11. Between'
    BY <1>2, <2>3, <2>4, <2>5, <2>6 DEF Lone, Between, Keeps, Done, NothingComes, Vacant
  <2>12. Sending'
    BY <1>2, <2>3, <2>4, <2>5, <2>6 DEF Lone, Sending, Keeps, Done, NothingComes, Vacant
  <2> QED
    BY <2>7, <2>8, <2>9, <2>10, <2>11, <2>12 DEF Lone
<1>5. CASE ~after
  <2>1. Idly
    BY <1>2 DEF Idly
  <2>2. CASE p = "check"
    <3>1. Goes(t, <<>>)
      BY <1>1, <1>5, <2>2 DEF CheckAfter
    <3>2. Shape' /\ Start' /\ Quiet({}) /\ Related(p, {}) /\ Acts(t, {})
      BY <1>1, <1>2, <1>3, <3>1, FrameNone
    <3>3. NoApps' => NoApps
      BY <1>1, <1>3, <3>2, AppsStay DEF IInv, Calls
    <3> QED
      BY <1>1, <1>2, <2>1, <3>2, <3>3, LoneStays, WasClean DEF AppsInv
  <2>3. CASE p # "check"
    <3> DEFINE N == {"startReceive"}
    <3>1. Goes(t, <<"startReceive">>)
      BY <1>1, <1>5, <2>3 DEF CheckAfter, At
    <3>2. /\ Shape' /\ Start' /\ Quiet(N) /\ Related(p, N) /\ Acts(t, N)
      BY <1>1, <1>2, <1>3, <3>1, FrameOne DEF Point
    <3>3. NoApps' => NoApps
      BY <1>1, <1>3, <3>2, AppsStay DEF IInv, Calls
    <3> QED
      BY <1>1, <1>2, <2>1, <3>2, <3>3, LoneStays, WasClean DEF AppsInv
  <2> QED
    BY <2>2, <2>3
<1> QED
  BY <1>4, <1>5

LEMMA StartReceiveApps ==
    ASSUME IInv, AppsInv, NEW t \in Threads, StartReceive(t) PROVE AppsInv'
<1>1. At(t, "startReceive") /\ Shape /\ Start
  BY DEF StartReceive, Runs, AppsInv
<1>2. /\ UNCHANGED <<phase, slotSending, closing>>
      /\ strays \subseteq strays'
      /\ Goes(t, Rest(t)) \/ Goes(t, <<>>)
      /\ Clean' => Goes(t, Rest(t))
  BY DEF StartReceive, CallDown, slotVars, Slot!StartReceive, Clean
<1>3. Idly /\ request' = request /\ acceptCounter' = acceptCounter
  BY <1>2 DEF StartReceive, receiveVars, connectionVars, responseVars, requestVars, owinVars,
     Idly
<1>4. /\ Shape' /\ Start' /\ Acts(t, {}) /\ Quiet({}) /\ Related("startReceive", {})
  BY <1>1, <1>2, <1>3, FrameRest, FrameNone
<1>5. Clean' => (NoApps' => NoApps)
  <2>1. Goes(t, Rest(t)) => thr'[t].todo = Rest(t)
    BY <1>1, <1>3, FrameRest
  <2> QED
    BY <1>1, <1>2, <1>4, <2>1, AppsStay DEF IInv
<1> QED
  BY <1>2, <1>3, <1>4, <1>5, LoneStays, WasClean DEF AppsInv

(* A thread that is about to send is the only one, and the slot is open.    *)
LEMMA Sends ==
    ASSUME IInv, Shape, Lone, NEW t \in Threads, NEW p \in Answers, At(t, p)
    PROVE  /\ ~NoSends /\ ~slotSending /\ ~waiting /\ NoOwn({"reset"})
           /\ phase = "open" \/ (phase = "asked" /\ closing)
           /\ disconnecting \/ NoOwn({"close"})
           /\ (~NoApps /\ tcsSend # {}) \/ (NoApps /\ lastPacket /\ ~disconnecting)
           /\ (Done /\ disconnecting) \/ NoOwn({"sent"})
           /\ Unasked
<1>1. Has(t, Answers)
  BY AtPoint DEF IInv
<1>2. ~NoSends
  BY <1>1 DEF NoSends, No
<1>3. ~Vacant
  BY <1>2 DEF Vacant
<1>4. phase \in {"new", "asked", "accepting", "open"}
  BY DEF IInv, Core, CoreTypes, Slot!Phase
<1>5. phase = "open" \/ (phase = "asked" /\ closing)
  BY <1>3, <1>4 DEF Lone, Between
<1>6. /\ ~slotSending /\ ~waiting /\ NoOwn({"reset"})
      /\ disconnecting \/ NoOwn({"close"})
      /\ Unasked
  BY <1>2 DEF Lone, Sending, Renewing, Leaving, Between
<1>7. /\ (~NoApps /\ tcsSend # {}) \/ (NoApps /\ lastPacket /\ ~disconnecting)
      /\ (Done /\ disconnecting) \/ NoOwn({"sent"})
  BY <1>2 DEF Lone, Sending
<1> QED
  BY <1>2, <1>5, <1>6, <1>7

(* Having sent, it sends no more, and waits for the answer if it is to.     *)
LEMMA SendLeaves ==
    ASSUME IInv, Shape, One(Answers), NEW t \in Threads, NEW p \in Answers, At(t, p),
           Acts(t, {}), thr'[t].todo = Rest(t)
    PROVE  /\ NoSends'
           /\ Awaiting /\ tcsSend' = tcsSend => Awaiting'
<1>1. ~Passes(Rest(t), First) /\ Rest(t) \in Seq(Point)
      /\ \A P : Has(t, P) <=> p \in P \/ Passes(Rest(t), P)
  BY AtPoint DEF IInv
<1>2. ~Passes(Rest(t), Answers)
  BY <1>1, PassesMore DEF First, Answers
<1>3. NoSends'
  BY <1>2, Departs DEF NoSends
<1>4. ASSUME Awaiting, tcsSend' = tcsSend, NEW u \in tcsSend
      PROVE  Passes(thr'[u].todo, {"app"}) /\ Awaits(thr'[u].todo)
  <2>1. Has(u, {"app"}) /\ Awaits(thr[u].todo)
    BY <1>4 DEF Awaiting
  <2>2. CASE u = t
    <3>1. thr[t].todo # <<>> /\ Head(thr[t].todo) = p /\ p # "await" /\ p # "app"
      BY DEF At, Answers
    <3>2. Rest(t) # <<>> /\ Head(Rest(t)) = "await"
      BY <2>1, <2>2, <3>1 DEF Awaits, Rest
    <3>3. Passes(Rest(t), {"app"})
      BY <1>1, <2>1, <2>2, <3>1
    <3> QED
      BY <2>2, <3>2, <3>3 DEF Awaits
  <2>3. CASE u # t
    <3>1. u \in Threads
      BY <1>4 DEF IInv, OtherTypes
    <3> QED
      BY <2>1, <2>3, <3>1 DEF Acts, Has
  <2> QED
    BY <2>2, <2>3
<1>5. Awaiting /\ tcsSend' = tcsSend => Awaiting'
  BY <1>4 DEF Awaiting, Has, Awaits
<1> QED
  BY <1>3, <1>5

(* A send that is started.                                                  *)
LEMMA SendStarted ==
    ASSUME IInv, AppsInv, NEW t \in Threads, NEW p \in Answers, At(t, p), Goes(t, Rest(t)),
           strays \subseteq strays', Clean' => slotSending' = TRUE,
           UNCHANGED <<phase, closing, receiving, after, heads, partial, gone, clientClosed>>,
           UNCHANGED <<disconnecting, acceptCounter, keepAlive, lastPacket, tcsSend, waiting>>,
           UNCHANGED <<request, lastFinished, disconnected>>
    PROVE  AppsInv'
<1> USE DEF NoApps, NoSends
<1>1. Shape /\ Start
  BY DEF AppsInv
<1>2. /\ Shape' /\ Start' /\ acceptCounter # 0 /\ Acts(t, {}) /\ thr'[t].todo = Rest(t)
      /\ Quiet({}) /\ Related(p, {})
  BY <1>1, FrameRest DEF Answers
<1> SUFFICES ASSUME Clean' PROVE Lone'
  BY <1>2 DEF AppsInv
<1>3. Lone
  BY WasClean
<1>4. /\ ~NoSends /\ ~slotSending /\ ~waiting /\ NoOwn({"reset"})
      /\ phase = "open" \/ (phase = "asked" /\ closing)
      /\ disconnecting \/ NoOwn({"close"})
      /\ (~NoApps /\ tcsSend # {}) \/ (NoApps /\ lastPacket /\ ~disconnecting)
      /\ (Done /\ disconnecting) \/ NoOwn({"sent"})
      /\ Unasked
  BY <1>1, <1>3, Sends
<1>5. NoSends' /\ Awaiting'
  BY <1>1, <1>2, <1>3, SendLeaves DEF Lone, Sending
<1>6. NoApps' => NoApps
  BY <1>1, <1>2, AppsStay DEF IInv, Answers
<1>7. /\ Keeps({"app"}) /\ Keeps({"report"}) /\ Keeps({"caught"}) /\ Keeps({"reset"})
      /\ Keeps({"close"}) /\ Keeps({"sent"})
      /\ Keeps(Closed) /\ Keeps(Answers) /\ Keeps(Arrivals)
  BY <1>2 DEF Quiet
<1>8. /\ AppsCurrent => AppsCurrent'
      /\ NoCurrentReport => NoCurrentReport'
      /\ OnlyCloser => OnlyCloser'
      /\ Closes => Closes'
      /\ Unasked => Unasked'
  BY <1>2 DEF Related, Answers
<1>9. Calling'
  BY <1>3, <1>4, <1>5, <1>6, <1>7, <1>8 DEF Lone, Calling, Keeps, Done, NothingComes, Vacant
<1>10. Reporting'
  BY <1>3, <1>4, <1>5, <1>6, <1>7, <1>8 DEF Lone, Reporting, Keeps, Done, NothingComes, Vacant
<1>11. Renewing'
  BY <1>3, <1>4, <1>5, <1>6, <1>7, <1>8 DEF Lone, Renewing, Keeps, Done, NothingComes, Vacant
<1>12. Leaving'
  BY <1>3, <1>4, <1>5, <1>6, <1>7, <1>8 DEF Lone, Leaving, Keeps, Done, NothingComes, Vacant
<1>13. Between'
  BY <1>3, <1>4, <1>5, <1>6, <1>7, <1>8 DEF Lone, Between, Keeps, Done, NothingComes, Vacant
<1>14. Sending'
  BY <1>3, <1>4, <1>5, <1>6, <1>7, <1>8 DEF Lone, Sending, Keeps, Done, NothingComes, Vacant
<1> QED
  BY <1>9, <1>10, <1>11, <1>12, <1>13, <1>14 DEF Lone

LEMMA StartSendApps ==
    ASSUME IInv, AppsInv, NEW t \in Threads, StartSend(t) PROVE AppsInv'
<1>1. At(t, "send") /\ Shape /\ Start
  BY DEF StartSend, Runs, AppsInv
<1>2. /\ UNCHANGED <<phase, closing, receiving, after, heads, partial, gone, clientClosed>>
      /\ UNCHANGED <<disconnecting, acceptCounter, keepAlive, lastPacket, tcsSend, waiting>>
      /\ UNCHANGED <<request, lastFinished, disconnected>> /\ strays \subseteq strays'
  BY DEF StartSend, CallDown, slotVars, receiveVars, connectionVars, responseVars,
     requestVars, owinVars, Slot!StartSend
<1>3. CASE Slot!MaySend
  <2>1. Goes(t, Rest(t)) /\ slotSending' = TRUE
    BY <1>3 DEF StartSend, CallDown, Slot!StartSend
  <2> QED
    BY <1>1, <1>2, <2>1, SendStarted DEF Answers
<1>4. CASE ~Slot!MaySend
  <2>1. Goes(t, <<>>) /\ ~Clean'
    BY <1>4 DEF StartSend, CallDown, Clean
  <2>2. Shape' /\ Start'
    BY <1>1, <1>2, <2>1, FrameNone
  <2> QED
    BY <2>1, <2>2 DEF AppsInv
<1> QED
  BY <1>3, <1>4

LEMMA StartSendErrorApps ==
    ASSUME IInv, AppsInv, NEW t \in Threads, StartSendError(t) PROVE AppsInv'
<1>1. At(t, "sendError") /\ Shape /\ Start
  BY DEF StartSendError, Runs, AppsInv
<1>2. /\ UNCHANGED <<phase, closing, receiving, after, heads, partial, gone, clientClosed>>
      /\ UNCHANGED <<disconnecting, acceptCounter, keepAlive, lastPacket, tcsSend, waiting>>
      /\ UNCHANGED <<request, lastFinished, disconnected>> /\ strays = strays'
  BY DEF StartSendError, SendsError, slotVars, receiveVars, connectionVars, responseVars,
     requestVars, owinVars, Slot!StartSend
<1>3. CASE Slot!MaySend
  <2>1. Goes(t, Rest(t)) /\ slotSending' = TRUE
    BY <1>3 DEF StartSendError, SendsError, Slot!StartSend
  <2> QED
    BY <1>1, <1>2, <2>1, SendStarted DEF Answers
<1>4. CASE ~Slot!MaySend
  <2>1. Goes(t, <<"close">> \o Rest(t))
    BY <1>4 DEF StartSendError, SendsError
  <2>2. Shape' /\ Start'
    BY <1>1, <1>2, <2>1, FrameLonger DEF Point, Calls
  <2>3. ~Clean'
    <3>1. Lone => ~slotSending /\ (phase = "open" \/ (phase = "asked" /\ closing))
      BY <1>1, Sends DEF Answers
    <3>2. ~Lone
      BY <1>4, <3>1 DEF Slot!MaySend, Slot!Usable
    <3> QED
      BY <1>2, <3>2 DEF AppsInv, Clean
  <2> QED
    BY <2>2, <2>3 DEF AppsInv
<1> QED
  BY <1>3, <1>4

(* The application and its end.                                             *)

(* A thread at its application is the only one, and waits for no send.      *)
LEMMA AtApp ==
    ASSUME IInv, Shape, Lone, NEW t \in Threads, At(t, "app")
    PROVE  /\ Has(t, {"app"}) /\ ~NoApps /\ tcsSend = {}
           /\ NoSends /\ ~slotSending /\ ~waiting /\ ~lastPacket
           /\ lastFinished # "done" /\ (disconnected => lastFinished = "pending")
           /\ NoOwn({"reset"}) /\ NoOwn({"sent"}) /\ ~Closes
           /\ lastFinished = "pending" => disconnecting
           /\ lastFinished # "pending" => ~disconnecting /\ NoOwn({"close"})
           /\ disconnecting \/ NoOwn({"close"})
           /\ phase = "open" \/ (phase = "asked" /\ disconnecting /\ closing)
           /\ Unasked /\ NoCurrentReport
           /\ Own(t) /\ thr[t].request = request
<1>1. Has(t, {"app"})
  BY AtPoint DEF IInv
<1>2. ~NoApps
  BY <1>1 DEF NoApps, No
<1>3. ~Vacant /\ ~Done
  BY <1>2 DEF Vacant, Done
<1>4. phase \in {"new", "asked", "accepting", "open"}
  BY DEF IInv, Core, CoreTypes, Slot!Phase
<1>5. phase = "open" \/ (phase = "asked" /\ disconnecting /\ closing)
  BY <1>3, <1>4 DEF Lone, Between
<1>6. tcsSend = {}
  <2>1. ASSUME NEW u \in tcsSend PROVE FALSE
    <3>1. u \in Threads
      BY <2>1 DEF IInv, OtherTypes
    <3>2. Has(u, {"app"}) /\ Awaits(thr[u].todo)
      BY <2>1 DEF Lone, Sending, Awaiting
    <3>3. u = t
      BY <1>1, <3>1, <3>2 DEF Lone, Calling, One
    <3> QED
      BY <3>2, <3>3 DEF At, Awaits
  <2> QED
    BY <2>1
<1>7. ~Has(t, {"close"})
  BY AtFirst DEF First, IInv
<1>8. ~Closes
  <2> SUFFICES ASSUME NEW u \in Threads, Has(u, {"close"}), Has(u, {"app"}) PROVE FALSE
    BY DEF Closes
  <2>1. u = t
    BY <1>1 DEF Lone, Calling, One
  <2> QED
    BY <1>7, <2>1
<1>9. OnlyCloser => NoOwn({"close"})
  BY <1>1, <1>7 DEF OnlyCloser, NoOwn
<1>10. Own(t) /\ thr[t].request = request
  BY <1>1 DEF Lone, Calling, AppsCurrent
<1>11. /\ NoSends /\ ~slotSending /\ ~waiting /\ ~lastPacket
       /\ lastFinished # "done" /\ (disconnected => lastFinished = "pending")
       /\ NoOwn({"reset"}) /\ NoOwn({"sent"}) /\ Unasked /\ NoCurrentReport
  BY <1>2, <1>3, <1>6 DEF Lone, Calling, Renewing, Sending, Between
<1>12. /\ lastFinished = "pending" => disconnecting
       /\ lastFinished # "pending" => ~disconnecting /\ NoOwn({"close"})
       /\ disconnecting \/ NoOwn({"close"})
  BY <1>2, <1>8, <1>9 DEF Lone, Reporting, Leaving
<1> QED
  BY <1>1, <1>2, <1>5, <1>6, <1>8, <1>10, <1>11, <1>12

(* It goes on with points before it.                                        *)
LEMMA FrameApp ==
    ASSUME IInv, Shape, Start, NEW t \in Threads, At(t, "app"),
           NEW q \in Point \ Calls, Goes(t, <<q>> \o thr[t].todo),
           request' = request, acceptCounter' = acceptCounter
    PROVE  /\ Shape' /\ Start' /\ acceptCounter # 0
           /\ Acts(t, {q}) /\ thr'[t].todo = <<q>> \o thr[t].todo
           /\ Quiet({q}) /\ Related("app", {q}) /\ Has(t, {"app"})'
<1> DEFINE old == thr[t].todo
           todo == <<q>> \o old
           N == {q}
<1>1. old \in Seq(Point) /\ Orderly(old) /\ ~Passes(old, First) /\ Passes(old, {"app"})
      /\ \A P : Has(t, P) <=> Passes(old, P)
  <2>1. old \in Seq(Point) /\ old # <<>> /\ Head(old) = "app" /\ Orderly(old)
    BY DEF IInv, Core, ThreadsInv, Sound, At, Shape
  <2>2. ~Passes(Rest(t), First) /\ \A P : Has(t, P) <=> "app" \in P \/ Passes(Rest(t), P)
    BY AtPoint DEF IInv
  <2>3. \A P : Has(t, P) <=> Passes(old, P)
    BY DEF Has
  <2> HIDE DEF old
  <2> QED
    BY <2>1, <2>2, <2>3 DEF First
<1> HIDE DEF old
<1>2. todo \in Seq(Point) /\ \A P : Passes(todo, P) <=> q \in P \/ Passes(old, P)
  BY <1>1, LongerHead, PassesLonger
<1>3. Orderly(todo)
  BY <1>1, OrderlyLonger
<1>4. Goes(t, todo) /\ \A P \in SUBSET Point : P \cap N = {} /\ Passes(todo, P) => Has(t, P)
  BY <1>1, <1>2 DEF old
<1>5. request' \in Nat /\ request <= request'
  BY RequestStays
<1>6. Passes(todo, {"app"})
  BY <1>1, <1>2
<1> HIDE DEF todo, N
<1>7. /\ Shape' /\ Start' /\ acceptCounter # 0 /\ Acts(t, N) /\ thr'[t].todo = todo
      /\ Quiet(N) /\ Related("app", N)
  BY <1>2, <1>3, <1>4, <1>5, Frame
<1>8. Has(t, {"app"})'
  BY <1>6, <1>7 DEF Has
<1> QED
  BY <1>7, <1>8 DEF todo, N, old

LEMMA AppDisconnectsApps ==
    ASSUME IInv, AppsInv, NEW t \in Threads, AppDisconnects(t) PROVE AppsInv'
<1> USE DEF NoSends
<1>1. At(t, "app") /\ Shape /\ Start
  BY DEF AppDisconnects, Runs, AppsInv
<1>2. /\ UNCHANGED <<phase, slotSending, closing, receiving, after, heads, partial, gone>>
      /\ UNCHANGED <<clientClosed, disconnecting, acceptCounter, keepAlive, lastPacket>>
      /\ UNCHANGED <<tcsSend, waiting, request, strays>>
      /\ Goes(t, <<"close">> \o thr[t].todo) /\ disconnected' = TRUE
      /\ lastFinished' = IF lastFinished = "null" THEN "pending" ELSE lastFinished
  BY DEF AppDisconnects, slotVars, receiveVars, connectionVars, responseVars, requestVars
<1>3. /\ Shape' /\ Start' /\ Acts(t, {"close"}) /\ Quiet({"close"})
      /\ Related("app", {"close"}) /\ Has(t, {"app"})'
      /\ thr'[t].todo = <<"close">> \o thr[t].todo
  BY <1>1, <1>2, FrameApp DEF Point, Calls
<1> SUFFICES ASSUME Clean' PROVE Lone'
  BY <1>3 DEF AppsInv
<1>4. Lone
  BY <1>2, WasClean
<1>5. /\ Has(t, {"app"}) /\ ~NoApps /\ tcsSend = {}
      /\ NoSends /\ ~slotSending /\ ~waiting /\ ~lastPacket
      /\ lastFinished # "done" /\ NoOwn({"reset"}) /\ NoOwn({"sent"})
      /\ disconnecting \/ NoOwn({"close"})
      /\ phase = "open" \/ (phase = "asked" /\ disconnecting /\ closing)
      /\ Unasked
  BY <1>1, <1>4, AtApp
<1>6. lastFinished' = "pending"
  BY <1>2, <1>5 DEF IInv, OtherTypes
<1>7. ~NoApps' /\ Closes'
  <2>1. Has(t, {"close"})'
    <3>1. thr[t].todo \in Seq(Point) /\ "close" \in Point
      BY DEF IInv, Core, ThreadsInv, Sound, Point
    <3>2. Passes(<<"close">> \o thr[t].todo, {"close"})
      BY <3>1, PassesLonger
    <3> QED
      BY <1>3, <3>2 DEF Has
  <2> QED
    BY <1>3, <2>1 DEF NoApps, No, Closes
<1>8. /\ Keeps({"app"}) /\ Keeps({"report"}) /\ Keeps({"caught"}) /\ Keeps({"reset"})
      /\ Keeps({"sent"}) /\ Keeps(Closed) /\ Keeps(Answers) /\ Keeps(Arrivals)
  BY <1>3 DEF Quiet, Closed, Answers, Arrivals
<1>9. /\ AppsCurrent => AppsCurrent'
      /\ NoCurrentReport => NoCurrentReport'
      /\ Awaiting => Awaiting'
      /\ Unasked => Unasked'
  BY <1>2, <1>3 DEF Related
<1>10. NoOwn({"close"}) => OnlyCloser'
  <2> SUFFICES ASSUME NoOwn({"close"}), NEW u \in Threads, NEW v \in Threads,
                      Has(u, {"close"})', Own(u)', Has(v, {"app"})'
               PROVE  u = v
    BY DEF OnlyCloser
  <2>1. v = t
    <3>1. One({"app"})'
      BY <1>4, <1>8 DEF Keeps, Lone, Calling
    <3> QED
      BY <1>3, <3>1 DEF One
  <2>2. u = t
    BY <1>3, ActsOwn DEF NoOwn
  <2> QED
    BY <2>1, <2>2
<1>11. Calling'
  BY <1>2, <1>4, <1>5, <1>6, <1>7, <1>8, <1>9, <1>10 DEF Lone, Calling, Keeps, Done,
     NothingComes, Vacant
<1>12. Reporting'
  BY <1>2, <1>4, <1>5, <1>6, <1>7, <1>8, <1>9, <1>10 DEF Lone, Reporting, Keeps, Done,
     NothingComes, Vacant
<1>13. Renewing'
  BY <1>2, <1>4, <1>5, <1>6, <1>7, <1>8, <1>9, <1>10 DEF Lone, Renewing, Keeps, Done,
     NothingComes, Vacant
<1>14. Leaving'
  BY <1>2, <1>4, <1>5, <1>6, <1>7, <1>8, <1>9, <1>10 DEF Lone, Leaving, Keeps, Done,
     NothingComes, Vacant
<1>15. Between'
  BY <1>2, <1>4, <1>5, <1>6, <1>7, <1>8, <1>9, <1>10 DEF Lone, Between, Keeps, Done,
     NothingComes, Vacant
<1>16. Sending'
  BY <1>2, <1>4, <1>5, <1>6, <1>7, <1>8, <1>9, <1>10 DEF Lone, Sending, Keeps, Done,
     NothingComes, Vacant
<1> QED
  BY <1>11, <1>12, <1>13, <1>14, <1>15, <1>16 DEF Lone

LEMMA AppFlushesApps ==
    ASSUME IInv, AppsInv, NEW t \in Threads, AppFlushes(t) PROVE AppsInv'
<1> USE DEF NoSends
<1> DEFINE N == {"send", "await"}
           old == thr[t].todo
           todo == <<"send", "await">> \o old
<1>1. At(t, "app") /\ Shape /\ Start
  BY DEF AppFlushes, Runs, AppsInv
<1>2. /\ UNCHANGED <<phase, slotSending, closing, receiving, after, heads, partial, gone>>
      /\ UNCHANGED <<clientClosed, disconnecting, acceptCounter, lastPacket, waiting>>
      /\ UNCHANGED <<request, lastFinished, disconnected, strays>>
      /\ Goes(t, todo) /\ tcsSend' = {t}
  BY DEF AppFlushes, slotVars, receiveVars, connectionVars, requestVars, owinVars
<1>3. old \in Seq(Point) /\ Orderly(old) /\ ~Passes(old, First) /\ Passes(old, {"app"})
      /\ \A P : Has(t, P) <=> Passes(old, P)
  <2>1. old \in Seq(Point) /\ old # <<>> /\ Head(old) = "app" /\ Orderly(old)
    BY <1>1 DEF IInv, Core, ThreadsInv, Sound, At, Shape
  <2>2. ~Passes(Rest(t), First) /\ \A P : Has(t, P) <=> "app" \in P \/ Passes(Rest(t), P)
    BY <1>1, AtPoint DEF IInv
  <2>3. \A P : Has(t, P) <=> Passes(old, P)
    BY DEF Has
  <2> HIDE DEF old
  <2> QED
    BY <2>1, <2>2, <2>3 DEF First
<1> HIDE DEF old
<1>4. todo \in Seq(Point) /\ Orderly(todo) /\ todo # <<>>
      /\ Head(todo) = "send" /\ Tail(todo) # <<>> /\ Head(Tail(todo)) = "await"
      /\ \A P : Passes(todo, P) <=> "send" \in P \/ "await" \in P \/ Passes(old, P)
  <2> DEFINE more == <<"await">> \o old
  <2>1. todo = <<"send">> \o more
    BY <1>3, PairOnIsConcat DEF Point
  <2>2. more \in Seq(Point) /\ more # <<>> /\ Head(more) = "await"
        /\ \A P : Passes(more, P) <=> "await" \in P \/ Passes(old, P)
    BY <1>3, LongerHead, PassesLonger DEF Point
  <2>3. Orderly(more) /\ ~Passes(more, First)
    BY <1>3, <2>2, OrderlyLonger DEF Point, Calls, First
  <2> HIDE DEF more, todo
  <2>4. todo \in Seq(Point) /\ todo # <<>> /\ Head(todo) = "send" /\ Tail(todo) = more
        /\ \A P : Passes(todo, P) <=> "send" \in P \/ Passes(more, P)
    BY <2>1, <2>2, LongerHead, PassesLonger DEF Point
  <2>5. Orderly(todo)
    BY <2>1, <2>2, <2>3, OrderlyLonger DEF Point, Calls
  <2> QED
    BY <2>2, <2>4, <2>5
<1> HIDE DEF todo
<1>5. /\ Shape' /\ Start' /\ Acts(t, N) /\ thr'[t].todo = todo
      /\ Quiet(N) /\ Related("app", N)
  <2>1. \A P \in SUBSET Point : P \cap N = {} /\ Passes(todo, P) => Has(t, P)
    BY <1>3, <1>4
  <2>2. request' \in Nat /\ request <= request'
    BY <1>2, RequestStays
  <2> HIDE DEF N
  <2> QED
    BY <1>1, <1>2, <1>4, <2>1, <2>2, Frame
<1> SUFFICES ASSUME Clean' PROVE Lone'
  BY <1>5 DEF AppsInv
<1>6. Lone
  BY <1>2, WasClean
<1>7. /\ Has(t, {"app"}) /\ ~NoApps /\ tcsSend = {}
      /\ NoSends /\ ~slotSending /\ ~waiting /\ ~lastPacket
      /\ lastFinished # "done" /\ NoOwn({"reset"}) /\ NoOwn({"sent"})
      /\ lastFinished = "pending" => disconnecting
      /\ disconnecting \/ NoOwn({"close"})
      /\ phase = "open" \/ (phase = "asked" /\ disconnecting /\ closing)
      /\ Unasked
  BY <1>1, <1>6, AtApp
<1>8. ~NoApps' /\ Awaiting'
  <2>1. Has(t, {"app"})'
    BY <1>3, <1>4, <1>5 DEF Has
  <2>2. Awaits(thr'[t].todo)
    BY <1>4, <1>5 DEF Awaits
  <2> QED
    BY <1>2, <2>1, <2>2 DEF NoApps, No, Awaiting, Awaits
<1>9. One(Answers)'
  BY <1>5, <1>7, ActsOwn DEF One, No
<1>10. /\ Keeps({"app"}) /\ Keeps({"report"}) /\ Keeps({"caught"}) /\ Keeps({"reset"})
       /\ Keeps({"close"}) /\ Keeps({"sent"}) /\ Keeps(Closed) /\ Keeps(Arrivals)
  BY <1>5 DEF Quiet, Closed, Arrivals
<1>11. /\ AppsCurrent => AppsCurrent'
       /\ NoCurrentReport => NoCurrentReport'
       /\ OnlyCloser => OnlyCloser'
       /\ Unasked => Unasked'
  BY <1>2, <1>5 DEF Related
<1>12. tcsSend' # {}
  BY <1>2
<1>13. Calling'
  BY <1>2, <1>6, <1>7, <1>8, <1>9, <1>10, <1>11, <1>12 DEF Lone, Calling, Keeps, Done,
     NothingComes, Vacant
<1>14. Reporting'
  BY <1>2, <1>6, <1>7, <1>8, <1>9, <1>10, <1>11, <1>12 DEF Lone, Reporting, Keeps, Done,
     NothingComes, Vacant
<1>15. Renewing'
  BY <1>2, <1>6, <1>7, <1>8, <1>9, <1>10, <1>11, <1>12 DEF Lone, Renewing, Keeps, Done,
     NothingComes, Vacant
<1>16. Leaving'
  BY <1>2, <1>6, <1>7, <1>8, <1>9, <1>10, <1>11, <1>12 DEF Lone, Leaving, Keeps, Done,
     NothingComes, Vacant
<1>17. Between'
  BY <1>2, <1>6, <1>7, <1>8, <1>9, <1>10, <1>11, <1>12 DEF Lone, Between, Keeps, Done,
     NothingComes, Vacant
<1>18. Sending'
  BY <1>2, <1>6, <1>7, <1>8, <1>9, <1>10, <1>11, <1>12 DEF Lone, Sending, Keeps, Done,
     NothingComes, Vacant
<1> QED
  BY <1>13, <1>14, <1>15, <1>16, <1>17, <1>18 DEF Lone

(* What ResponseFinished leaves to the thread.                              *)
LEMMA Finished ==
    ASSUME IInv, NEW point, NEW failed \in BOOLEAN, ResponseFinished(point, failed)
    PROVE  /\ point \in {"send", "sendError", "close"}
           /\ point # "close" => lastPacket'
           /\ point = "close" => (lastPacket' <=> lastPacket)
           /\ tcsSend' = tcsSend
<1>1. CASE RespondFailure(point, failed)
  <2>1. lastPacket \in BOOLEAN /\ headersSent \in BOOLEAN
    BY DEF IInv, OtherTypes
  <2>2. CASE headersSent = TRUE
    BY <1>1, <2>1, <2>2 DEF RespondFailure, ResponseFinished
  <2>3. CASE headersSent = FALSE
    BY <1>1, <2>1, <2>3 DEF RespondFailure, ResponseFinished
  <2> QED
    BY <2>1, <2>2, <2>3
<1>2. CASE RespondNormally(point)
  <2>1. \/ point \in {"send", "sendError"} /\ lastPacket' = TRUE
        \/ point = "close" /\ lastPacket' = lastPacket
    BY <1>2 DEF RespondNormally
  <2>2. tcsSend' = tcsSend
    BY DEF ResponseFinished
  <2> QED
    BY <2>1, <2>2
<1>3. RespondFailure(point, failed) \/ RespondNormally(point)
  BY DEF ResponseFinished
<1> QED
  BY <1>1, <1>2, <1>3

(* The application ends, or throws; its thread may be about to send or to   *)
(* close.                                                                   *)
LEMMA AppOver ==
    ASSUME IInv, Shape, Lone, NEW t \in Threads, At(t, "app"), NEW N, Acts(t, N),
           N \subseteq {"send", "sendError", "close", "report"},
           ~Passes(thr'[t].todo, {"app"}), Quiet(N), Related("app", N),
           UNCHANGED <<phase, slotSending, closing, receiving, after, heads, partial, gone>>,
           UNCHANGED <<clientClosed, disconnecting, acceptCounter, waiting, tcsSend>>,
           UNCHANGED <<request, lastFinished, disconnected>>,
           N \cap First # {} => ~disconnected,
           "close" \in N => (lastPacket' <=> lastPacket) /\ N \cap Answers = {},
           N \cap Answers # {} => lastPacket',
           N \cap First = {} => lastPacket' = lastPacket
    PROVE  Lone'
<1> USE DEF NoSends
<1>1. /\ Has(t, {"app"}) /\ ~NoApps /\ tcsSend = {}
      /\ NoSends /\ ~slotSending /\ ~waiting /\ ~lastPacket
      /\ lastFinished # "done" /\ (disconnected => lastFinished = "pending")
      /\ NoOwn({"reset"}) /\ NoOwn({"sent"})
      /\ lastFinished = "pending" => disconnecting
      /\ lastFinished # "pending" => ~disconnecting /\ NoOwn({"close"})
      /\ disconnecting \/ NoOwn({"close"})
      /\ phase = "open" \/ (phase = "asked" /\ disconnecting /\ closing)
      /\ Unasked
  BY AtApp
<1>2. lastFinished = "pending" => disconnected
  BY DEF Lone, Reporting
<1>3. NoApps'
  BY <1>1, Departs DEF NoApps, Lone, Calling
<1>4. /\ Keeps({"caught"}) /\ Keeps({"reset"}) /\ Keeps({"sent"}) /\ Keeps(Closed)
      /\ Keeps(Arrivals)
      /\ "close" \notin N => Keeps({"close"})
      /\ Answers \cap N = {} => Keeps(Answers)
  BY DEF Quiet, Closed, Arrivals
<1>5. Awaiting' /\ (Unasked => Unasked')
  BY <1>1 DEF Awaiting, Related
<1>6. NoApps' => AppsCurrent' /\ OnlyCloser' /\ One({"app"})'
  BY DEF NoApps, No, AppsCurrent, OnlyCloser, One
<1>7. One(Answers)'
  BY <1>1, ActsOwn DEF One, No
<1>8. /\ "close" \in N => "close" \in N \cap First
      /\ Answers \cap N # {} => N \cap First # {} /\ N \cap Answers # {}
      /\ N \cap First # {} => "close" \in N \/ Answers \cap N # {}
  BY DEF First, Answers
<1>9. /\ "close" \in N \/ Answers \cap N # {} => lastFinished # "pending"
      /\ lastPacket' => Answers \cap N # {}
      /\ Answers \cap N # {} => lastPacket' /\ "close" \notin N
      /\ "close" \in N => Answers \cap N = {}
  BY <1>1, <1>2, <1>8
<1> DEFINE closes == "close" \in N
           answers == Answers \cap N # {}
<1>10. /\ closes \/ answers => lastFinished # "pending"
       /\ lastPacket' => answers
       /\ answers => lastPacket' /\ ~closes
       /\ ~closes => Keeps({"close"})
       /\ ~answers => Keeps(Answers)
  BY <1>4, <1>9
<1> HIDE DEF closes, answers
<1>11. Calling'
  BY <1>1, <1>3, <1>4, <1>5, <1>6, <1>7, <1>10 DEF Lone, Calling, Keeps, Done, NothingComes,
     Vacant
<1>12. Reporting'
  BY <1>1, <1>3, <1>4, <1>5, <1>6, <1>7, <1>10 DEF Lone, Reporting, Keeps, Done, NothingComes,
     Vacant
<1>13. Renewing'
  BY <1>1, <1>3, <1>4, <1>5, <1>6, <1>7, <1>10 DEF Lone, Renewing, Keeps, Done, NothingComes,
     Vacant
<1>14. Leaving'
  BY <1>1, <1>3, <1>4, <1>5, <1>6, <1>7, <1>10 DEF Lone, Leaving, Keeps, Done, NothingComes,
     Vacant
<1>15. Between'
  BY <1>1, <1>3, <1>4, <1>5, <1>6, <1>7, <1>10 DEF Lone, Between, Keeps, Done, NothingComes,
     Vacant
<1>16. Sending'
  BY <1>1, <1>3, <1>4, <1>5, <1>6, <1>7, <1>10 DEF Lone, Sending, Keeps, Done, NothingComes,
     Vacant
<1> QED
  BY <1>11, <1>12, <1>13, <1>14, <1>15, <1>16 DEF Lone

(* Behind the application is only what its caller does.                     *)
LEMMA BehindApp ==
    ASSUME IInv, Shape, NEW t \in Threads, NEW p \in Calls, At(t, p), NEW q \in Point
    PROVE  /\ Rest(t) \in Seq(Point) /\ ~Passes(Rest(t), {"app"})
           /\ q # "app" => ~Passes(<<q>> \o Rest(t), {"app"})
           /\ q # "app" => ~Passes(<<q, "report">> \o Rest(t), {"app"})
<1>1. Rest(t) \in Seq(Point) /\ ~Passes(Rest(t), Point \ Returns)
  BY AtPoint DEF IInv
<1>2. {"app"} \subseteq Point \ Returns /\ "report" \in Point
  BY DEF Point, Returns
<1>3. ~Passes(Rest(t), {"app"})
  BY <1>1, <1>2, PassesMore
<1>4. Passes(<<q>> \o Rest(t), {"app"}) <=> q = "app" \/ Passes(Rest(t), {"app"})
  BY <1>1, PassesLonger
<1>5. Passes(<<q, "report">> \o Rest(t), {"app"})
         <=> q \in {"app"} \/ "report" \in {"app"} \/ Passes(Rest(t), {"app"})
  BY <1>1, <1>2, PassesTwoOn
<1> QED
  BY <1>1, <1>3, <1>4, <1>5

LEMMA AppEndsApps ==
    ASSUME IInv, AppsInv, NEW t \in Threads, AppEnds(t) PROVE AppsInv'
<1>1. At(t, "app") /\ Shape /\ Start
  BY DEF AppEnds, Runs, AppsInv
<1>2. /\ UNCHANGED <<phase, slotSending, closing, receiving, after, heads, partial, gone>>
      /\ UNCHANGED <<clientClosed, disconnecting, acceptCounter, waiting>>
      /\ UNCHANGED <<request, lastFinished, disconnected, strays>>
  BY DEF AppEnds, slotVars, receiveVars, connectionVars, owinVars
<1>3. Clean' => Lone
  BY <1>2, WasClean
<1>4. CASE disconnected
  <2> DEFINE N == {"report"}
  <2>1. Goes(t, <<"report">> \o Rest(t)) /\ UNCHANGED <<lastPacket, tcsSend>>
    BY <1>4 DEF AppEnds, responseVars
  <2>2. /\ Shape' /\ Start' /\ Acts(t, N) /\ thr'[t].todo = <<"report">> \o Rest(t)
        /\ Quiet(N) /\ Related("app", N)
    BY <1>1, <1>2, <2>1, FrameLonger DEF Point, Calls
  <2>3. ~Passes(thr'[t].todo, {"app"})
    BY <1>1, <2>2, BehindApp DEF Point, Calls
  <2>4. N \cap First = {} /\ "close" \notin N /\ N \cap Answers = {}
        /\ N \subseteq {"send", "sendError", "close", "report"}
    BY DEF First, Answers
  <2> HIDE DEF N
  <2> QED
    BY <1>1, <1>2, <1>3, <2>1, <2>2, <2>3, <2>4, AppOver DEF AppsInv
<1>5. CASE ~disconnected
  <2>1. PICK point \in {"send", "sendError", "close"}, failed \in BOOLEAN :
           ResponseFinished(point, failed) /\ Goes(t, <<point, "report">> \o Rest(t))
    BY <1>5 DEF AppEnds
  <2> DEFINE N == {point, "report"}
  <2>2. /\ Shape' /\ Start' /\ Acts(t, N) /\ thr'[t].todo = <<point, "report">> \o Rest(t)
        /\ Quiet(N) /\ Related("app", N)
    <3>1. "app" \in Calls /\ point \in Point \ Calls /\ "report" \in Point \ First
      BY DEF Point, Calls, First
    <3> QED
      BY <1>1, <1>2, <2>1, <3>1, FrameTwoOn
  <2>3. ~Passes(thr'[t].todo, {"app"})
    BY <1>1, <2>2, BehindApp DEF Point, Calls
  <2>4. /\ point # "close" => lastPacket'
        /\ point = "close" => (lastPacket' <=> lastPacket)
        /\ tcsSend' = tcsSend
    BY <2>1, Finished
  <2>5. /\ N \subseteq {"send", "sendError", "close", "report"} /\ N \cap First # {}
        /\ "close" \in N => point = "close" /\ N \cap Answers = {}
        /\ N \cap Answers # {} => point # "close"
    BY DEF First, Answers
  <2> HIDE DEF N
  <2> QED
    BY <1>1, <1>2, <1>3, <1>5, <2>2, <2>3, <2>4, <2>5, AppOver DEF AppsInv
<1> QED
  BY <1>4, <1>5

LEMMA AppThrowsApps ==
    ASSUME IInv, AppsInv, NEW t \in Threads, AppThrows(t) PROVE AppsInv'
<1>1. At(t, "app") /\ Shape /\ Start
  BY DEF AppThrows, Runs, AppsInv
<1>2. /\ UNCHANGED <<phase, slotSending, closing, receiving, after, heads, partial, gone>>
      /\ UNCHANGED <<clientClosed, disconnecting, acceptCounter, waiting>>
      /\ UNCHANGED <<request, lastFinished, disconnected, strays>>
  BY DEF AppThrows, slotVars, receiveVars, connectionVars, owinVars
<1>3. Clean' => Lone
  BY <1>2, WasClean
<1>4. CASE disconnected
  <2> DEFINE N == {"report"}
  <2>1. Goes(t, <<"report">> \o Rest(t)) /\ UNCHANGED <<lastPacket, tcsSend>>
    BY <1>4 DEF AppThrows, responseVars
  <2>2. /\ Shape' /\ Start' /\ Acts(t, N) /\ thr'[t].todo = <<"report">> \o Rest(t)
        /\ Quiet(N) /\ Related("app", N)
    BY <1>1, <1>2, <2>1, FrameLonger DEF Point, Calls
  <2>3. ~Passes(thr'[t].todo, {"app"})
    BY <1>1, <2>2, BehindApp DEF Point, Calls
  <2>4. N \cap First = {} /\ "close" \notin N /\ N \cap Answers = {}
        /\ N \subseteq {"send", "sendError", "close", "report"}
    BY DEF First, Answers
  <2> HIDE DEF N
  <2> QED
    BY <1>1, <1>2, <1>3, <2>1, <2>2, <2>3, <2>4, AppOver DEF AppsInv
<1>5. CASE ~disconnected
  <2>1. PICK point \in {"sendError", "close"} :
           ResponseFinished(point, TRUE) /\ Goes(t, <<point>> \o Rest(t))
    BY <1>5 DEF AppThrows
  <2> DEFINE N == {point}
  <2>2. /\ Shape' /\ Start' /\ Acts(t, N) /\ thr'[t].todo = <<point>> \o Rest(t)
        /\ Quiet(N) /\ Related("app", N)
    BY <1>1, <1>2, <2>1, FrameLonger DEF Point, Calls
  <2>3. ~Passes(thr'[t].todo, {"app"})
    BY <1>1, <2>2, BehindApp DEF Point, Calls
  <2>4. /\ point # "close" => lastPacket'
        /\ point = "close" => (lastPacket' <=> lastPacket)
        /\ tcsSend' = tcsSend
    BY <2>1, Finished
  <2>5. /\ N \subseteq {"send", "sendError", "close", "report"} /\ N \cap First # {}
        /\ "close" \in N => point = "close" /\ N \cap Answers = {}
        /\ N \cap Answers # {} => point # "close"
    BY DEF First, Answers
  <2> HIDE DEF N
  <2> QED
    BY <1>1, <1>2, <1>3, <1>5, <2>2, <2>3, <2>4, <2>5, AppOver DEF AppsInv
<1> QED
  BY <1>4, <1>5

(* An exception is brought to the caller of the application instead of its  *)
(* return.                                                                  *)
LEMMA FrameCaught ==
    ASSUME IInv, Shape, Start, NEW t \in Threads, At(t, "report"), Rest(t) # <<>>,
           Goes(t, <<"caught">> \o Tail(Rest(t))),
           request' = request, acceptCounter' = acceptCounter
    PROVE  /\ Shape' /\ Start' /\ acceptCounter # 0 /\ Acts(t, {"caught"})
           /\ Quiet({"caught"}) /\ Related("report", {"caught"})
<1> DEFINE rest == Rest(t)
           todo == <<"caught">> \o Tail(rest)
           N == {"caught"}
           p == "report"
<1>1. /\ rest \in Seq(Point) /\ Orderly(rest) /\ rest # <<>>
      /\ ~Passes(rest, Point \ Returns)
      /\ \A P : Has(t, P) <=> "report" \in P \/ Passes(rest, P)
  BY AtPoint DEF IInv, Calls
<1>2. "caught" \in Point /\ At(t, p) /\ p \notin {"awaitApp", "realPrepareAccept"}
  BY DEF Point
<1>3. Goes(t, todo) /\ request' \in Nat /\ request <= request'
  BY RequestStays
<1> HIDE DEF rest, p
<1>4. Orderly(Tail(rest)) /\ Tail(rest) \in Seq(Point) /\ ~Passes(Tail(rest), First)
  BY <1>1, OrderlyRest
<1>5. \A P : Passes(Tail(rest), P) => Passes(rest, P)
  BY <1>1, PassesRest
<1>6. todo \in Seq(Point) /\ \A P : Passes(todo, P) <=> "caught" \in P \/ Passes(Tail(rest), P)
  BY <1>2, <1>4, LongerHead, PassesLonger
<1>7. Orderly(todo)
  BY <1>1, <1>2, <1>4, <1>5, OrderlyLonger
<1>8. \A P \in SUBSET Point : P \cap N = {} /\ Passes(todo, P) => Has(t, P)
  BY <1>1, <1>5, <1>6
<1> HIDE DEF todo, N
<1>9. /\ Shape' /\ Start' /\ acceptCounter # 0 /\ Acts(t, N)
      /\ Quiet(N) /\ Related(p, N)
  BY <1>2, <1>3, <1>6, <1>7, <1>8, Frame
<1> QED
  BY <1>9 DEF N, p

LEMMA ReportApps ==
    ASSUME IInv, AppsInv, NEW t \in Threads, Report(t) PROVE AppsInv'
<1> USE DEF NoApps, NoSends
<1>1. At(t, "report") /\ Shape /\ Start
  BY DEF Report, Runs, AppsInv
<1>2. /\ UNCHANGED <<phase, slotSending, closing, receiving, after, heads, partial, gone>>
      /\ UNCHANGED <<clientClosed, disconnecting, acceptCounter, keepAlive, lastPacket>>
      /\ UNCHANGED <<tcsSend, waiting, request, disconnected>>
      /\ strays \subseteq strays'
      /\ lastFinished' = IF lastFinished = "pending" THEN "done" ELSE lastFinished
  BY DEF Report, slotVars, receiveVars, connectionVars, responseVars, requestVars
<1>3. Clean' => Lone
  BY <1>2, WasClean
<1>4. Has(t, {"report"})
  BY <1>1, AtPoint DEF IInv
<1>5. CASE lastFinished = "done" /\ Rest(t) # <<>>
  <2>1. Goes(t, <<"caught">> \o Tail(Rest(t))) /\ lastFinished' = lastFinished
    BY <1>2, <1>5 DEF Report
  <2>2. /\ Shape' /\ Start' /\ acceptCounter # 0 /\ Acts(t, {"caught"})
        /\ Quiet({"caught"}) /\ Related("report", {"caught"})
    BY <1>1, <1>2, <1>5, <2>1, FrameCaught
  <2> SUFFICES ASSUME Clean' PROVE Lone'
    BY <2>2 DEF AppsInv
  <2>3. NoApps' => NoApps
    BY <1>1, <2>2, AppsStay DEF IInv, Calls
  <2>4. Own(t) => ~NoOwn({"report"})
    BY <1>4 DEF NoOwn
  <2>5. ~Own(t) => (NoOwn({"caught"}) => NoOwn({"caught"})')
    BY <2>2, StrangerKeeps
  <2>6. /\ Keeps({"app"}) /\ Keeps({"report"}) /\ Keeps({"reset"}) /\ Keeps({"close"})
        /\ Keeps({"sent"}) /\ Keeps(Closed) /\ Keeps(Answers) /\ Keeps(Arrivals)
    BY <2>2 DEF Quiet, Closed, Answers, Arrivals
  <2>7. /\ AppsCurrent => AppsCurrent'
        /\ NoCurrentReport => NoCurrentReport'
        /\ OnlyCloser => OnlyCloser'
        /\ Awaiting => Awaiting'
        /\ Closes => Closes'
        /\ Unasked => Unasked'
        /\ NoneOwn => NoneOwn'
    BY <1>2, <2>2 DEF Related
  <2>8. Calling'
    BY <1>2, <1>3, <1>5, <2>1, <2>3, <2>4, <2>5, <2>6, <2>7 DEF Lone, Calling, Keeps, Done,
       NothingComes, Vacant
  <2>9. Reporting'
    BY <1>2, <1>3, <1>5, <2>1, <2>3, <2>4, <2>5, <2>6, <2>7 DEF Lone, Reporting, Keeps, Done,
       NothingComes, Vacant
  <2>10. Renewing'
    BY <1>2, <1>3, <1>5, <2>1, <2>3, <2>4, <2>5, <2>6, <2>7 DEF Lone, Renewing, Keeps, Done,
       NothingComes, Vacant
  <2>11. Leaving'
    BY <1>2, <1>3, <1>5, <2>1, <2>3, <2>4, <2>5, <2>6, <2>7 DEF Lone, Leaving, Keeps, Done,
       NothingComes, Vacant
  <2>12. Between'
    BY <1>2, <1>3, <1>5, <2>1, <2>3, <2>4, <2>5, <2>6, <2>7 DEF Lone, Between, Keeps, Done,
       NothingComes, Vacant
  <2>13. Sending'
    BY <1>2, <1>3, <1>5, <2>1, <2>3, <2>4, <2>5, <2>6, <2>7 DEF Lone, Sending, Keeps, Done,
       NothingComes, Vacant
  <2> QED
    BY <2>8, <2>9, <2>10, <2>11, <2>12, <2>13 DEF Lone
<1>6. CASE ~(lastFinished = "done" /\ Rest(t) # <<>>)
  <2>1. Goes(t, Rest(t))
    BY <1>6 DEF Report
  <2>2. /\ Shape' /\ Start' /\ Acts(t, {}) /\ thr'[t].todo = Rest(t)
        /\ Quiet({}) /\ Related("report", {})
    BY <1>1, <1>2, <2>1, FrameRest
  <2>3. NoApps' => NoApps
    BY <1>1, <2>2, AppsStay DEF IInv
  <2> SUFFICES ASSUME Clean' PROVE Lone'
    BY <2>2 DEF AppsInv
  <2>4. CASE lastFinished # "pending"
    <3>1. Idly
      BY <1>2, <2>4 DEF Idly
    <3> QED
      BY <1>3, <2>2, <2>3, <3>1, LoneStays
  <2>5. CASE lastFinished = "pending"
    <3>1. lastFinished' = "done" /\ thr[t].request = request
      BY <1>2, <2>5 DEF Report, Clean
    <3>2. NoApps
      BY <1>3, <1>4, <3>1 DEF Lone, Calling, NoCurrentReport
    <3>3. ~Closes
      BY <3>2 DEF Closes, No
    <3>4. Lone /\ Done /\ disconnecting
      BY <1>3, <2>5, <3>2, <3>3 DEF Lone, Reporting, Done
    <3>5. /\ Keeps({"app"}) /\ Keeps({"report"}) /\ Keeps({"caught"}) /\ Keeps({"reset"})
          /\ Keeps({"close"}) /\ Keeps({"sent"})
          /\ Keeps(Closed) /\ Keeps(Answers) /\ Keeps(Arrivals)
      BY <2>2 DEF Quiet
    <3>6. /\ AppsCurrent => AppsCurrent'
          /\ NoCurrentReport => NoCurrentReport'
          /\ OnlyCloser => OnlyCloser'
          /\ Awaiting => Awaiting'
          /\ Unasked => Unasked'
          /\ NoneOwn => NoneOwn'
      BY <1>2, <2>2 DEF Related
    <3>7. Calling'
      BY <1>2, <2>3, <2>5, <3>1, <3>2, <3>4, <3>5, <3>6 DEF Lone, Calling, Keeps, Done,
         NothingComes, Vacant
    <3>8. Reporting'
      BY <1>2, <2>3, <2>5, <3>1, <3>2, <3>4, <3>5, <3>6 DEF Lone, Reporting, Keeps, Done,
         NothingComes, Vacant
    <3>9. Renewing'
      BY <1>2, <2>3, <2>5, <3>1, <3>2, <3>4, <3>5, <3>6 DEF Lone, Renewing, Keeps, Done,
         NothingComes, Vacant
    <3>10. Leaving'
      BY <1>2, <2>3, <2>5, <3>1, <3>2, <3>4, <3>5, <3>6 DEF Lone, Leaving, Keeps, Done,
         NothingComes, Vacant
    <3>11. Between'
      BY <1>2, <2>3, <2>5, <3>1, <3>2, <3>4, <3>5, <3>6 DEF Lone, Between, Keeps, Done,
         NothingComes, Vacant
    <3>12. Sending'
      BY <1>2, <2>3, <2>5, <3>1, <3>2, <3>4, <3>5, <3>6 DEF Lone, Sending, Keeps, Done,
         NothingComes, Vacant
    <3> QED
      BY <3>7, <3>8, <3>9, <3>10, <3>11, <3>12 DEF Lone
  <2> QED
    BY <2>4, <2>5
<1> QED
  BY <1>5, <1>6

LEMMA CaughtApps ==
    ASSUME IInv, AppsInv, NEW t \in Threads, Caught(t) PROVE AppsInv'
<1> USE DEF NoApps, NoSends
<1>1. At(t, "caught") /\ Shape /\ Start
  BY DEF Caught, Runs, AppsInv
<1>2. /\ UNCHANGED <<receiving, after, heads, partial, gone, clientClosed, disconnecting>>
      /\ UNCHANGED <<acceptCounter, waiting, request, lastFinished, disconnected, strays>>
  BY DEF Caught, receiveVars, connectionVars, owinVars
<1>3. Clean' => Lone
  BY <1>2, WasClean
<1>4. CASE thr[t].accept # acceptCounter
  <2>1. Goes(t, Rest(t)) /\ Idly
    BY <1>2, <1>4 DEF Caught, slotVars, responseVars, Idly
  <2>2. /\ Shape' /\ Start' /\ Acts(t, {}) /\ thr'[t].todo = Rest(t)
        /\ Quiet({}) /\ Related("caught", {})
    BY <1>1, <1>2, <2>1, FrameRest
  <2>3. NoApps' => NoApps
    BY <1>1, <2>2, AppsStay DEF IInv
  <2> QED
    BY <1>3, <2>1, <2>2, <2>3, LoneStays DEF AppsInv
<1>5. CASE thr[t].accept = acceptCounter
  <2>1. PICK point \in {"sendError", "close"} :
           /\ ResponseFinished(point, TRUE)
           /\ IF point = "close"
                THEN Goes(t, <<point>> \o Rest(t)) /\ UNCHANGED slotVars
                ELSE SendsError(t, Rest(t))
    BY <1>5 DEF Caught
  <2>2. keepAlive' = FALSE /\ tcsSend' = tcsSend
    BY <2>1 DEF ResponseFinished, RespondFailure
  <2>3. /\ UNCHANGED <<phase, closing>>
        /\ slotSending' => slotSending \/ Goes(t, Rest(t))
        /\ \/ Goes(t, Rest(t))
           \/ Goes(t, <<"close">> \o Rest(t)) /\ UNCHANGED slotSending
    BY <2>1 DEF SendsError, slotVars, Slot!StartSend
  <2>4. /\ Shape' /\ Start' /\ acceptCounter # 0 /\ Acts(t, {"close"})
        /\ Quiet({"close"}) /\ Related("caught", {"close"})
    <3>1. CASE Goes(t, Rest(t))
      <4>1. \A P : Passes(Rest(t), P) => Has(t, P)
        BY <1>1, AtPoint DEF IInv
      <4>2. Rest(t) \in Seq(Point) /\ Orderly(Rest(t))
        BY <1>1, AtPoint DEF IInv
      <4>3. request' \in Nat /\ request <= request'
        BY <1>2, RequestStays
      <4> DEFINE todo == Rest(t)
                 N == {"close"}
                 p == "caught"
      <4>4. /\ Goes(t, todo) /\ todo \in Seq(Point) /\ Orderly(todo)
            /\ \A P \in SUBSET Point : P \cap N = {} /\ Passes(todo, P) => Has(t, P)
            /\ At(t, p) /\ p \notin {"awaitApp", "realPrepareAccept"}
        BY <1>1, <3>1, <4>1, <4>2
      <4> HIDE DEF todo, N, p
      <4>5. /\ Shape' /\ Start' /\ acceptCounter # 0 /\ Acts(t, N)
            /\ Quiet(N) /\ Related(p, N)
        BY <1>1, <1>2, <4>3, <4>4, Frame
      <4> QED
        BY <4>5 DEF N, p
    <3>2. CASE Goes(t, <<"close">> \o Rest(t))
      BY <1>1, <1>2, <3>2, FrameLonger DEF Point, Calls
    <3> QED
      BY <2>3, <3>1, <3>2
  <2> SUFFICES ASSUME Clean' PROVE Lone'
    BY <2>4 DEF AppsInv
  <2>5. Has(t, {"caught"}) /\ Own(t)
    BY <1>1, <1>5, <2>4, AtPoint DEF IInv, Own
  <2>6. Lone /\ Done /\ disconnecting /\ lastFinished = "done" /\ ~NoneOwn
    BY <1>3, <2>5 DEF Lone, Reporting, NoOwn, NoneOwn
  <2>7. NoSends
    BY <2>6 DEF Lone, Sending, Done
  <2>8. /\ Keeps({"app"}) /\ Keeps({"report"}) /\ Keeps({"caught"}) /\ Keeps({"reset"})
        /\ Keeps({"sent"}) /\ Keeps(Closed) /\ Keeps(Answers) /\ Keeps(Arrivals)
    BY <2>4 DEF Quiet, Closed, Answers, Arrivals
  <2>9. /\ AppsCurrent => AppsCurrent'
        /\ NoCurrentReport => NoCurrentReport'
        /\ Awaiting => Awaiting'
        /\ Closes => Closes'
        /\ Unasked => Unasked'
    BY <1>2, <2>2, <2>4 DEF Related
  <2>10. Calling'
    BY <1>2, <2>2, <2>3, <2>6, <2>7, <2>8, <2>9 DEF Lone, Calling, Keeps, Done, NothingComes,
       Vacant
  <2>11. Reporting'
    BY <1>2, <2>2, <2>3, <2>6, <2>7, <2>8, <2>9 DEF Lone, Reporting, Keeps, Done, NothingComes,
       Vacant
  <2>12. Renewing'
    BY <1>2, <2>2, <2>3, <2>6, <2>7, <2>8, <2>9 DEF Lone, Renewing, Keeps, Done, NothingComes,
       Vacant
  <2>13. Leaving'
    BY <1>2, <2>2, <2>3, <2>6, <2>7, <2>8, <2>9 DEF Lone, Leaving, Keeps, Done, NothingComes,
       Vacant
  <2>14. Between'
    BY <1>2, <2>2, <2>3, <2>6, <2>7, <2>8, <2>9 DEF Lone, Between, Keeps, Done, NothingComes,
       Vacant
  <2>15. Sending'
    BY <1>2, <2>2, <2>3, <2>6, <2>7, <2>8, <2>9 DEF Lone, Sending, Keeps, Done, NothingComes,
       Vacant
  <2> QED
    BY <2>10, <2>11, <2>12, <2>13, <2>14, <2>15 DEF Lone
<1> QED
  BY <1>4, <1>5

----------------------------------------------------------------------------
(* Calls up: a free thread begins                                          *)

LEMMA Beginning ==
    ASSUME IInv, Shape, NEW t \in Threads, thr[t].todo = <<>>,
           NEW todo \in Seq(Point), Orderly(todo), Begins(t, todo),
           acceptCounter' = acceptCounter, request' = request,
           NEW N, \A P \in SUBSET Point : P \cap N = {} => ~Passes(todo, P)
    PROVE  /\ Shape' /\ Quiet(N) /\ thr'[t].todo = todo
           /\ \A P \in SUBSET Point : P \cap N = {} => Keeps(P)
           /\ \A u \in Threads \ {t} : thr'[u] = thr[u]
           /\ "app" \notin N => (AppsCurrent => AppsCurrent')
           /\ "report" \notin N => (NoCurrentReport => NoCurrentReport')
           /\ "app" \notin N /\ "close" \notin N => (OnlyCloser => OnlyCloser')
           /\ tcsSend' = tcsSend => (Awaiting => Awaiting')
           /\ Closes => Closes'
           /\ "realPrepareAccept" \notin N /\ after' = after => (Unasked => Unasked')
           /\ ~Passes(todo, Bound) => (NoneOwn => NoneOwn')
<1> DEFINE new == Thread(todo, acceptCounter, request)
<1>1. /\ thr \in [Threads -> ThreadState] /\ acceptCounter \in 0..(MaxAccepts + 1)
      /\ request \in 0..MaxRequests
  BY DEF IInv, Core, CoreTypes
<1>2. new \in ThreadState /\ new.todo = todo /\ new.request \in {0, request}
      /\ new.accept = IF Passes(todo, Bound) THEN acceptCounter ELSE 0
  BY <1>1, ThreadIs DEF Thread
<1>3. thr' = [thr EXCEPT ![t] = new]
  BY DEF Begins
<1> HIDE DEF new
<1>4. thr'[t] = new /\ \A u \in Threads \ {t} : thr'[u] = thr[u]
  BY <1>1, <1>2, <1>3
<1>5. \A P : ~Has(t, P)
  BY PassesNone DEF Has
<1>6. \A P \in SUBSET Point : P \cap N = {} => ~Passes(thr'[t].todo, P)
  BY <1>2, <1>4
<1>7. \A u \in Threads \ {t} : /\ \A P : Has(u, P)' <=> Has(u, P)
                               /\ Own(u)' <=> Own(u)
  BY <1>4 DEF Has, Own
<1>8. \A P \in SUBSET Point : P \cap N = {} => ~Has(t, P)'
  BY <1>6 DEF Has
<1>9. ASSUME NEW P \in SUBSET Point, P \cap N = {} PROVE Keeps(P)
  <2>1. \A u \in Threads : Has(u, P)' => Has(u, P) /\ (Own(u)' => Own(u))
    BY <1>7, <1>8, <1>9
  <2> QED
    BY <2>1 DEF Keeps, No, NoOwn, One, OneOwn
<1>10. Quiet(N)
  <2>1. /\ {"app"} \in SUBSET Point /\ {"report"} \in SUBSET Point
        /\ {"caught"} \in SUBSET Point /\ {"reset"} \in SUBSET Point
        /\ {"close"} \in SUBSET Point /\ {"sent"} \in SUBSET Point
        /\ Closed \in SUBSET Point /\ Answers \in SUBSET Point /\ Arrivals \in SUBSET Point
    BY DEF Point, Closed, Answers, Arrivals
  <2>2. \A q : q \notin N => {q} \cap N = {}
    OBVIOUS
  <2> HIDE DEF Keeps
  <2> QED
    BY <1>9, <2>1, <2>2 DEF Quiet
<1>11. Shape'
  <2> SUFFICES ASSUME NEW u \in Threads
               PROVE Orderly(thr'[u].todo) /\ thr'[u].request <= request'
    BY DEF Shape, Orderly
  <2>1. request \in Nat
    BY <1>1
  <2>2. CASE u = t
    BY <1>2, <1>4, <2>1, <2>2
  <2>3. CASE u # t
    BY <1>4, <2>3 DEF Shape
  <2> QED
    BY <2>2, <2>3
<1>12. "app" \notin N => ~Has(t, {"app"})'
  BY <1>8 DEF Point
<1>13. "report" \notin N => ~Has(t, {"report"})'
  BY <1>8 DEF Point
<1>14. "close" \notin N => ~Has(t, {"close"})'
  BY <1>8 DEF Point
<1>15. "realPrepareAccept" \notin N => ~Has(t, {"realPrepareAccept"})'
  BY <1>8 DEF Point
<1>16. /\ "app" \notin N => (AppsCurrent => AppsCurrent')
       /\ "report" \notin N => (NoCurrentReport => NoCurrentReport')
       /\ "app" \notin N /\ "close" \notin N => (OnlyCloser => OnlyCloser')
  <2>1. "app" \notin N => (AppsCurrent => AppsCurrent')
    BY <1>4, <1>7, <1>12 DEF AppsCurrent
  <2>2. "report" \notin N => (NoCurrentReport => NoCurrentReport')
    BY <1>4, <1>7, <1>13 DEF NoCurrentReport
  <2>3. "app" \notin N /\ "close" \notin N => (OnlyCloser => OnlyCloser')
    BY <1>7, <1>12, <1>14 DEF OnlyCloser
  <2> QED
    BY <2>1, <2>2, <2>3
<1>17. tcsSend' = tcsSend => (Awaiting => Awaiting')
  <2> SUFFICES ASSUME tcsSend' = tcsSend, Awaiting, NEW u \in tcsSend
               PROVE  Passes(thr'[u].todo, {"app"}) /\ Awaits(thr'[u].todo)
    BY DEF Awaiting, Has, Awaits
  <2>1. u \in Threads /\ Has(u, {"app"}) /\ Awaits(thr[u].todo)
    BY DEF Awaiting, IInv, OtherTypes
  <2>2. u # t
    BY <1>5, <2>1
  <2> QED
    BY <1>4, <2>1, <2>2 DEF Has
<1>18. Closes => Closes'
  BY <1>5, <1>7 DEF Closes
<1>19. "realPrepareAccept" \notin N /\ after' = after => (Unasked => Unasked')
  BY <1>7, <1>15 DEF Unasked
<1>20. ~Passes(todo, Bound) => (NoneOwn => NoneOwn')
  BY <1>2, <1>4, <1>7 DEF NoneOwn, Own
<1> QED
  BY <1>2, <1>4, <1>9, <1>10, <1>11, <1>16, <1>17, <1>18, <1>19, <1>20

LEMMA FinishAcceptApps == ASSUME IInv, AppsInv, FinishAccept PROVE AppsInv'
<1> USE DEF NoApps, NoSends
<1>1. PICK t \in Threads : Free(t) /\ Begins(t, <<"accepted">>)
  BY DEF FinishAccept
<1>2. /\ phase = "accepting" /\ phase' = "open" /\ gone' = FALSE /\ waiting' = TRUE
      /\ lastPacket' = FALSE /\ heads' = 0 /\ partial' = "none" /\ receiving' = TRUE
      /\ UNCHANGED <<slotSending, closing, after, clientClosed, disconnecting>>
      /\ UNCHANGED <<acceptCounter, keepAlive, tcsSend, request, lastFinished>>
      /\ UNCHANGED <<disconnected, strays>>
  BY DEF FinishAccept, Slot!FinishAccept, owinVars
<1> DEFINE N == {"accepted"}
           todo == <<"accepted">>
<1>3. /\ todo \in Seq(Point) /\ Orderly(todo) /\ ~Passes(todo, Bound)
      /\ \A P \in SUBSET Point : P \cap N = {} => ~Passes(todo, P)
      /\ thr[t].todo = <<>> /\ Begins(t, todo)
  BY <1>1, PassesOne, OrderlyOne DEF Point, Bound, Free
<1> HIDE DEF todo
<1>4. Shape /\ acceptCounter # 0
  BY <1>2 DEF AppsInv, Start
<1>5. /\ Shape' /\ Quiet(N)
      /\ tcsSend' = tcsSend => (Awaiting => Awaiting')
      /\ "realPrepareAccept" \notin N /\ after' = after => (Unasked => Unasked')
      /\ NoneOwn => NoneOwn'
  <2> HIDE DEF N
  <2> QED
    BY <1>2, <1>3, <1>4, Beginning, ZenonT(30)
<1>6. Start'
  BY <1>2, <1>4 DEF Start
<1> SUFFICES ASSUME Clean' PROVE Lone'
  BY <1>5, <1>6 DEF AppsInv
<1>7. Lone
  BY <1>2, WasClean
<1>8. Vacant /\ ~clientClosed /\ ~disconnecting
  BY <1>2, <1>7 DEF Lone, Between
<1>9. Keeps({"app"}) /\ Keeps(Answers)
  BY <1>5 DEF Quiet, Answers
<1>10. NoApps' /\ NoSends' /\ NoneOwn' /\ Awaiting'
  BY <1>2, <1>5, <1>7, <1>8, <1>9 DEF Vacant, Keeps, Lone, Sending
<1>11. /\ NoOwn({"report"})' /\ NoOwn({"reset"})' /\ NoOwn({"caught"})' /\ NoOwn({"close"})'
       /\ NoOwn({"sent"})' /\ NoOwn(Closed)' /\ OneOwn({"reset"})' /\ OneOwn({"sent"})'
       /\ OnlyCloser'
  BY <1>10 DEF NoneOwn, NoOwn, OneOwn, OnlyCloser
<1>12. AppsCurrent' /\ One({"app"})' /\ One(Answers)'
  BY <1>10 DEF AppsCurrent, One, No
<1>13. lastFinished # "pending" /\ ~slotSending /\ ~closing
  BY <1>8 DEF Vacant
<1>14. disconnected' => NoApps'
  BY <1>10
<1>15. Calling'
  BY <1>2, <1>8, <1>10, <1>11, <1>12, <1>13 DEF Lone, Calling, Keeps, Done, NothingComes, Vacant
<1>16. Reporting'
  BY <1>2, <1>8, <1>10, <1>11, <1>12, <1>13 DEF Lone, Reporting, Keeps, Done, NothingComes,
     Vacant
<1>17. Renewing'
  BY <1>2, <1>8, <1>10, <1>11, <1>12, <1>13 DEF Lone, Renewing, Keeps, Done, NothingComes,
     Vacant
<1>18. Leaving'
  BY <1>2, <1>8, <1>10, <1>11, <1>12, <1>13 DEF Lone, Leaving, Keeps, Done, NothingComes, Vacant
<1>19. Between'
  BY <1>2, <1>8, <1>10, <1>11, <1>12, <1>13 DEF Lone, Between, Keeps, Done, NothingComes, Vacant
<1>20. Sending'
  BY <1>2, <1>8, <1>10, <1>11, <1>12, <1>13 DEF Lone, Sending, Keeps, Done, NothingComes, Vacant
<1> QED
  BY <1>15, <1>16, <1>17, <1>18, <1>19, <1>20 DEF Lone

LEMMA PrepareAcceptApps == ASSUME IInv, AppsInv, PrepareAccept PROVE AppsInv'
<1> USE DEF NoApps, NoSends
<1>1. PICK t \in Threads :
         Free(t) /\ Begins(t, IF lastFinished = "pending"
                                THEN <<"awaitApp", "realPrepareAccept">>
                                ELSE <<"realPrepareAccept">>)
  BY DEF PrepareAccept
<1>2. /\ phase' = "asked"
      /\ phase \in {"new", "accepting"} \/ (phase = "open" /\ closing)
      /\ UNCHANGED <<slotReceiving, slotSending, closing, receiving, after, heads, partial>>
      /\ UNCHANGED <<gone, clientClosed, disconnecting, acceptCounter, keepAlive, lastPacket>>
      /\ UNCHANGED <<tcsSend, waiting, request, lastFinished, disconnected, strays>>
  BY DEF PrepareAccept, Slot!PrepareAccept, receiveVars, connectionVars, responseVars,
     requestVars, owinVars
<1> DEFINE N == {"awaitApp", "realPrepareAccept"}
           todo == IF lastFinished = "pending" THEN <<"awaitApp", "realPrepareAccept">>
                   ELSE <<"realPrepareAccept">>
<1>3. /\ todo \in Seq(Point) /\ Orderly(todo) /\ ~Passes(todo, Bound)
      /\ \A P \in SUBSET Point : P \cap N = {} => ~Passes(todo, P)
      /\ lastFinished = "pending" => Passes(todo, {"awaitApp"})
  <2>1. "awaitApp" \in Point \ Calls /\ "realPrepareAccept" \in Point \ First
        /\ "awaitApp" \notin Bound /\ "realPrepareAccept" \notin Bound
    BY DEF Point, Calls, First, Bound
  <2>2. CASE lastFinished = "pending"
    <3>1. todo = <<"awaitApp", "realPrepareAccept">>
      BY <2>2
    <3> HIDE DEF todo
    <3>2. todo \in Seq(Point) /\ Orderly(todo)
          /\ \A P : Passes(todo, P) <=> "awaitApp" \in P \/ "realPrepareAccept" \in P
      BY <2>1, <3>1, PassesTwo, OrderlyTwo
    <3> QED
      BY <2>1, <3>2
  <2>3. CASE lastFinished # "pending"
    <3>1. todo = <<"realPrepareAccept">>
      BY <2>3
    <3> HIDE DEF todo
    <3>2. todo \in Seq(Point) /\ Orderly(todo)
          /\ \A P : Passes(todo, P) <=> "realPrepareAccept" \in P
      BY <2>1, <3>1, PassesOne, OrderlyOne
    <3> QED
      BY <2>1, <2>3, <3>2
  <2> QED
    BY <2>2, <2>3
<1>4. thr[t].todo = <<>> /\ Begins(t, todo)
  BY <1>1 DEF Free
<1> HIDE DEF todo
<1>5. Shape
  BY DEF AppsInv
<1>6. /\ Shape' /\ Quiet(N) /\ thr'[t].todo = todo
      /\ \A P \in SUBSET Point : P \cap N = {} => Keeps(P)
      /\ \A u \in Threads \ {t} : thr'[u] = thr[u]
      /\ "app" \notin N => (AppsCurrent => AppsCurrent')
      /\ "report" \notin N => (NoCurrentReport => NoCurrentReport')
      /\ "app" \notin N /\ "close" \notin N => (OnlyCloser => OnlyCloser')
      /\ tcsSend' = tcsSend => (Awaiting => Awaiting')
      /\ Closes => Closes'
      /\ NoneOwn => NoneOwn'
  <2> HIDE DEF N
  <2> QED
    BY <1>2, <1>3, <1>4, <1>5, Beginning, ZenonT(30)
<1>7. Start'
  <2>1. Keeps(Point \ N)
    BY <1>6
  <2>2. Start /\ (No(Point \ N) => No(Point \ N)')
    BY <2>1 DEF Keeps, AppsInv
  <2> QED
    BY <1>2, <2>2 DEF Start, No
<1> SUFFICES ASSUME Clean' PROVE Lone'
  BY <1>6, <1>7 DEF AppsInv
<1>8. Lone
  BY <1>2, WasClean
<1>9. Vacant \/ (disconnecting /\ closing)
  BY <1>2, <1>8 DEF Lone, Between
<1>10. lastFinished # "pending" => NoApps /\ NoSends
  BY <1>8, <1>9 DEF Lone, Vacant, Leaving, Sending
<1>11. /\ Keeps({"app"}) /\ Keeps({"report"}) /\ Keeps({"caught"}) /\ Keeps({"reset"})
       /\ Keeps({"close"}) /\ Keeps({"sent"})
       /\ Keeps(Closed) /\ Keeps(Answers) /\ Keeps(Arrivals)
  BY <1>6 DEF Quiet, Closed, Answers, Arrivals
<1>12. lastFinished = "pending" => (Unasked => Unasked')
  <2>1. Has(t, {"awaitApp"})' <=> Passes(todo, {"awaitApp"})
    BY <1>6 DEF Has
  <2>2. \A u \in Threads \ {t} : \A P : Has(u, P)' <=> Has(u, P)
    BY <1>6 DEF Has
  <2> QED
    BY <1>2, <1>3, <2>1, <2>2 DEF Unasked
<1>13. lastFinished = "pending" => Unasked
  BY <1>8 DEF Lone, Between
<1>14. /\ AppsCurrent => AppsCurrent'
       /\ NoCurrentReport => NoCurrentReport'
       /\ OnlyCloser => OnlyCloser'
       /\ Awaiting => Awaiting'
       /\ Closes => Closes'
       /\ NoneOwn => NoneOwn'
  BY <1>2, <1>6
<1>15. NoApps' => NoApps
  <2>1. \A P : ~Has(t, P)
    BY <1>4, PassesNone DEF Has
  <2> QED
    BY <1>6, <2>1 DEF No, Has
<1>16. Calling'
  BY <1>2, <1>8, <1>9, <1>10, <1>11, <1>12, <1>13, <1>14, <1>15 DEF Lone, Calling, Keeps, Done,
     NothingComes, Vacant
<1>17. Reporting'
  BY <1>2, <1>8, <1>9, <1>10, <1>11, <1>12, <1>13, <1>14, <1>15 DEF Lone, Reporting, Keeps,
     Done, NothingComes, Vacant
<1>18. Renewing'
  BY <1>2, <1>8, <1>9, <1>10, <1>11, <1>12, <1>13, <1>14, <1>15 DEF Lone, Renewing, Keeps, Done,
     NothingComes, Vacant
<1>19. Leaving'
  BY <1>2, <1>8, <1>9, <1>10, <1>11, <1>12, <1>13, <1>14, <1>15 DEF Lone, Leaving, Keeps, Done,
     NothingComes, Vacant
<1>20. Between'
  BY <1>2, <1>8, <1>9, <1>10, <1>11, <1>12, <1>13, <1>14, <1>15 DEF Lone, Between, Keeps, Done,
     NothingComes, Vacant
<1>21. Sending'
  BY <1>2, <1>8, <1>9, <1>10, <1>11, <1>12, <1>13, <1>14, <1>15 DEF Lone, Sending, Keeps, Done,
     NothingComes, Vacant
<1> QED
  BY <1>16, <1>17, <1>18, <1>19, <1>20, <1>21 DEF Lone

(* A receive is outstanding.                                                *)
LEMMA Outstanding ==
    ASSUME IInv, Clean, slotReceiving
    PROVE  receiving /\ heads = 0 /\ partial # "full" /\ No(Arrivals)
<1>1. /\ receiving /\ \A t \in Threads : ~Takes(thr[t].todo)
      /\ heads = 0 /\ partial # "full"
  BY DEF IInv, Core, ReceivingInv, BufferInv
<1>2. \A t \in Threads : Has(t, Arrivals) => Takes(thr[t].todo)
  BY PassesMore DEF Has, Takes, Arrivals, TakingPoints
<1> QED
  BY <1>1, <1>2 DEF No

LEMMA FinishReceiveApps == ASSUME IInv, AppsInv, FinishReceive PROVE AppsInv'
<1> USE DEF NoApps, NoSends
<1>1. PICK t \in Threads : Free(t) /\ Begins(t, <<"received">>)
  BY DEF FinishReceive
<1>2. /\ UNCHANGED <<phase, slotSending, closing, receiving, after, heads, partial, gone>>
      /\ UNCHANGED <<clientClosed, disconnecting, acceptCounter, keepAlive, lastPacket>>
      /\ UNCHANGED <<tcsSend, waiting, request, lastFinished, disconnected, strays>>
      /\ slotReceiving /\ phase = "open" /\ ~gone
  BY DEF FinishReceive, Slot!FinishReceive, receiveVars, connectionVars, responseVars,
     requestVars, owinVars
<1> DEFINE N == {"received"}
           todo == <<"received">>
<1>3. /\ todo \in Seq(Point) /\ Orderly(todo) /\ ~Passes(todo, Bound)
      /\ \A P \in SUBSET Point : P \cap N = {} => ~Passes(todo, P)
      /\ thr[t].todo = <<>> /\ Begins(t, todo)
  BY <1>1, PassesOne, OrderlyOne DEF Point, Bound, Free
<1> HIDE DEF todo
<1>4. Shape /\ acceptCounter # 0
  BY <1>2 DEF AppsInv, Start
<1>5. /\ Shape' /\ Quiet(N)
      /\ \A P \in SUBSET Point : P \cap N = {} => Keeps(P)
      /\ \A u \in Threads \ {t} : thr'[u] = thr[u]
      /\ "app" \notin N => (AppsCurrent => AppsCurrent')
      /\ "report" \notin N => (NoCurrentReport => NoCurrentReport')
      /\ "app" \notin N /\ "close" \notin N => (OnlyCloser => OnlyCloser')
      /\ tcsSend' = tcsSend => (Awaiting => Awaiting')
      /\ Closes => Closes'
      /\ "realPrepareAccept" \notin N /\ after' = after => (Unasked => Unasked')
      /\ NoneOwn => NoneOwn'
  <2> HIDE DEF N
  <2> QED
    BY <1>2, <1>3, <1>4, Beginning, ZenonT(30)
<1>6. Start'
  BY <1>2, <1>4 DEF Start
<1> SUFFICES ASSUME Clean' PROVE Lone'
  BY <1>5, <1>6 DEF AppsInv
<1>7. Lone /\ Clean
  BY <1>2, WasClean
<1>8. ~NothingComes
  BY <1>2, <1>7, Outstanding DEF NothingComes
<1>9. /\ Keeps({"app"}) /\ Keeps({"report"}) /\ Keeps({"caught"}) /\ Keeps({"reset"})
      /\ Keeps({"close"}) /\ Keeps({"sent"}) /\ Keeps(Closed) /\ Keeps(Answers)
  BY <1>5 DEF Quiet, Closed, Answers
<1>10. /\ AppsCurrent => AppsCurrent'
       /\ NoCurrentReport => NoCurrentReport'
       /\ OnlyCloser => OnlyCloser'
       /\ Awaiting => Awaiting'
       /\ Closes => Closes'
       /\ Unasked => Unasked'
       /\ NoneOwn => NoneOwn'
  BY <1>2, <1>5
<1>11. NoApps' => NoApps
  <2>1. \A P : ~Has(t, P)
    BY <1>3, PassesNone DEF Has
  <2> QED
    BY <1>5, <2>1 DEF No, Has
<1>12. Calling'
  BY <1>2, <1>7, <1>8, <1>9, <1>10, <1>11 DEF Lone, Calling, Keeps, Done, NothingComes, Vacant
<1>13. Reporting'
  BY <1>2, <1>7, <1>8, <1>9, <1>10, <1>11 DEF Lone, Reporting, Keeps, Done, NothingComes, Vacant
<1>14. Renewing'
  BY <1>2, <1>7, <1>8, <1>9, <1>10, <1>11 DEF Lone, Renewing, Keeps, Done, NothingComes, Vacant
<1>15. Leaving'
  BY <1>2, <1>7, <1>8, <1>9, <1>10, <1>11 DEF Lone, Leaving, Keeps, Done, NothingComes, Vacant
<1>16. Between'
  BY <1>2, <1>7, <1>8, <1>9, <1>10, <1>11 DEF Lone, Between, Keeps, Done, NothingComes, Vacant
<1>17. Sending'
  BY <1>2, <1>7, <1>8, <1>9, <1>10, <1>11 DEF Lone, Sending, Keeps, Done, NothingComes, Vacant
<1> QED
  BY <1>12, <1>13, <1>14, <1>15, <1>16, <1>17 DEF Lone

LEMMA FinishReceiveClosedApps == ASSUME IInv, AppsInv, FinishReceiveClosed PROVE AppsInv'
<1> USE DEF NoApps, NoSends
<1>1. PICK t \in Threads : Free(t) /\ Begins(t, <<"closed", "told">>)
  BY DEF FinishReceiveClosed
<1>2. /\ UNCHANGED <<phase, slotSending, closing, after, heads, partial>>
      /\ UNCHANGED <<clientClosed, disconnecting, acceptCounter, keepAlive, lastPacket>>
      /\ UNCHANGED <<tcsSend, waiting, request, lastFinished, disconnected, strays>>
      /\ slotReceiving /\ gone' = TRUE /\ receiving' = FALSE
  BY DEF FinishReceiveClosed, Slot!FinishReceive, responseVars, requestVars, owinVars
<1> DEFINE N == {"closed", "told"}
           todo == <<"closed", "told">>
<1>3. /\ todo \in Seq(Point) /\ Orderly(todo)
      /\ \A P \in SUBSET Point : P \cap N = {} => ~Passes(todo, P)
      /\ thr[t].todo = <<>> /\ Begins(t, todo)
  <2>1. "closed" \in Point \ Calls /\ "told" \in Point \ First
    BY DEF Point, Calls, First
  <2>2. todo \in Seq(Point) /\ Orderly(todo)
        /\ \A P : Passes(todo, P) <=> "closed" \in P \/ "told" \in P
    BY <2>1, PassesTwo, OrderlyTwo
  <2> HIDE DEF todo
  <2>3. \A P \in SUBSET Point : P \cap N = {} => ~Passes(todo, P)
    BY <2>2
  <2> QED
    BY <1>1, <2>2, <2>3 DEF Free, todo
<1> HIDE DEF todo
<1>4. Shape /\ acceptCounter # 0
  BY <1>2 DEF AppsInv, Start
<1>5. /\ Shape' /\ Quiet(N)
      /\ \A u \in Threads \ {t} : thr'[u] = thr[u]
      /\ "app" \notin N => (AppsCurrent => AppsCurrent')
      /\ "report" \notin N => (NoCurrentReport => NoCurrentReport')
      /\ "app" \notin N /\ "close" \notin N => (OnlyCloser => OnlyCloser')
      /\ tcsSend' = tcsSend => (Awaiting => Awaiting')
      /\ Closes => Closes'
      /\ "realPrepareAccept" \notin N /\ after' = after => (Unasked => Unasked')
  <2> HIDE DEF N
  <2> QED
    BY <1>2, <1>3, <1>4, Beginning, ZenonT(30)
<1>6. Start'
  BY <1>2, <1>4 DEF Start
<1> SUFFICES ASSUME Clean' PROVE Lone'
  BY <1>5, <1>6 DEF AppsInv
<1>7. Lone /\ Clean
  BY <1>2, WasClean
<1>8. receiving /\ heads = 0 /\ partial # "full" /\ No(Arrivals)
  BY <1>2, <1>7, Outstanding
<1>9. /\ Keeps({"app"}) /\ Keeps({"report"}) /\ Keeps({"caught"}) /\ Keeps({"reset"})
      /\ Keeps({"close"}) /\ Keeps({"sent"}) /\ Keeps(Arrivals) /\ Keeps(Answers)
  BY <1>5 DEF Quiet, Arrivals, Answers, Closed
<1>10. /\ AppsCurrent => AppsCurrent'
       /\ NoCurrentReport => NoCurrentReport'
       /\ OnlyCloser => OnlyCloser'
       /\ Awaiting => Awaiting'
       /\ Closes => Closes'
       /\ Unasked => Unasked'
  BY <1>2, <1>5
<1>11. NoApps' => NoApps
  <2>1. \A P : ~Has(t, P)
    BY <1>3, PassesNone DEF Has
  <2> QED
    BY <1>5, <2>1 DEF No, Has
<1>12. Calling'
  BY <1>2, <1>7, <1>8, <1>9, <1>10, <1>11 DEF Lone, Calling, Keeps, Done, NothingComes, Vacant
<1>13. Reporting'
  BY <1>2, <1>7, <1>8, <1>9, <1>10, <1>11 DEF Lone, Reporting, Keeps, Done, NothingComes, Vacant
<1>14. Renewing'
  BY <1>2, <1>7, <1>8, <1>9, <1>10, <1>11 DEF Lone, Renewing, Keeps, Done, NothingComes, Vacant
<1>15. Leaving'
  BY <1>2, <1>7, <1>8, <1>9, <1>10, <1>11 DEF Lone, Leaving, Keeps, Done, NothingComes, Vacant
<1>16. Between'
  BY <1>2, <1>7, <1>8, <1>9, <1>10, <1>11 DEF Lone, Between, Keeps, Done, NothingComes, Vacant
<1>17. Sending'
  BY <1>2, <1>7, <1>8, <1>9, <1>10, <1>11 DEF Lone, Sending, Keeps, Done, NothingComes, Vacant
<1> QED
  BY <1>12, <1>13, <1>14, <1>15, <1>16, <1>17 DEF Lone

----------------------------------------------------------------------------
(* The next accept, and the application that goes on elsewhere             *)

(* A step before the next accept, that passes what the thread had.          *)
LEMMA FrameBefore ==
    ASSUME IInv, Shape, Start, NEW t \in Threads, NEW p, At(t, p),
           NEW todo \in Seq(Point), Goes(t, todo), Orderly(todo),
           \A P : Passes(todo, P) => Has(t, P),
           UNCHANGED <<phase, slotReceiving, slotSending, acceptCounter, request>>
    PROVE  /\ Shape' /\ Start' /\ Acts(t, {}) /\ thr'[t].todo = todo
           /\ Quiet({}) /\ Related(p, {})
<1> DEFINE N == {}
<1>1. Core /\ CoreTypes
  BY DEF IInv, Core
<1>2. \A P \in SUBSET Point : P \cap N = {} /\ Passes(todo, P) => Has(t, P)
  OBVIOUS
<1> HIDE DEF N
<1>3. Acts(t, N) /\ thr'[t].todo = todo /\ thr'[t].request \in {0, thr[t].request}
  BY <1>1, <1>2, GoesActs
<1>4. Quiet(N)
  BY <1>3, ActsQuiet
<1>5. /\ "app" \notin N /\ request' = request => (AppsCurrent => AppsCurrent')
      /\ "report" \notin N /\ request' = request => (NoCurrentReport => NoCurrentReport')
      /\ "app" \notin N /\ "close" \notin N => (OnlyCloser => OnlyCloser')
  BY <1>3, ActsRelations
<1>6. /\ p \notin {"send", "await"} /\ tcsSend' = tcsSend => (Awaiting => Awaiting')
      /\ p # "close" => (Closes => Closes')
      /\ p # "awaitApp" /\ "realPrepareAccept" \notin N /\ (after' => after) =>
            (Unasked => Unasked')
  BY <1>3, Elsewhere
<1>7. NoneOwn => NoneOwn'
  BY <1>3, ActsOwn
<1>8. Related(p, N)
  BY <1>5, <1>6, <1>7 DEF Related
<1>9. Shape'
  <2> SUFFICES ASSUME NEW u \in Threads
               PROVE Orderly(thr'[u].todo) /\ thr'[u].request <= request'
    BY DEF Shape, Orderly
  <2>1. request \in Nat /\ Orderly(thr[u].todo) /\ thr[u].request <= request
    BY ConstantsAssumption, <1>1 DEF CoreTypes, Shape
  <2>2. CASE u = t
    BY <1>3, <2>1, <2>2
  <2>3. CASE u # t
    BY <1>3, <2>1, <2>3 DEF Acts
  <2> QED
    BY <2>2, <2>3
<1>10. Start'
  <2>1. Keeps(Point \ {"awaitApp", "realPrepareAccept"})
    BY <1>3, ActsKeeps DEF N
  <2> QED
    BY <2>1 DEF Start, Keeps, No
<1> QED
  BY <1>3, <1>4, <1>8, <1>9, <1>10 DEF N

LEMMA AppAwaitedApps ==
    ASSUME IInv, AppsInv, NEW t \in Threads, AppAwaited(t) PROVE AppsInv'
<1> USE DEF NoApps, NoSends
<1>1. At(t, "awaitApp") /\ lastFinished = "done" /\ Shape /\ Start /\ Goes(t, Rest(t))
  BY DEF AppAwaited, Runs, AppsInv
<1>2. /\ UNCHANGED <<phase, slotReceiving, slotSending, closing, receiving, after, heads>>
      /\ UNCHANGED <<partial, gone, clientClosed, disconnecting, acceptCounter, keepAlive>>
      /\ UNCHANGED <<lastPacket, tcsSend, waiting, request, lastFinished, disconnected, strays>>
  BY DEF AppAwaited, slotVars, receiveVars, connectionVars, responseVars, requestVars, owinVars
<1>3. /\ Rest(t) \in Seq(Point) /\ Orderly(Rest(t))
      /\ \A P : Passes(Rest(t), P) => Has(t, P)
  BY <1>1, AtPoint DEF IInv
<1>4. /\ Shape' /\ Start' /\ Acts(t, {}) /\ thr'[t].todo = Rest(t)
      /\ Quiet({}) /\ Related("awaitApp", {})
  <2> DEFINE todo == Rest(t)
             p == "awaitApp"
  <2>1. /\ At(t, p) /\ todo \in Seq(Point) /\ Goes(t, todo) /\ Orderly(todo)
        /\ \A P : Passes(todo, P) => Has(t, P)
    BY <1>1, <1>3
  <2> HIDE DEF todo, p
  <2>2. /\ Shape' /\ Start' /\ Acts(t, {}) /\ thr'[t].todo = todo
        /\ Quiet({}) /\ Related(p, {})
    BY <1>1, <1>2, <2>1, FrameBefore
  <2> QED
    BY <2>2 DEF todo, p
<1> SUFFICES ASSUME Clean' PROVE Lone'
  BY <1>4 DEF AppsInv
<1>5. Lone
  BY <1>2, WasClean
<1>6. NoApps
  BY <1>1, <1>5 DEF Lone, Calling
<1>7. Unasked \/ NoSends
  BY <1>5 DEF Lone, Between
<1>8. NoSends \/ (Unasked => Unasked')
  <2>1. CASE Prepares(thr[t].todo)
    <3>1. phase = "asked"
      BY <2>1 DEF IInv, Core, PrepareInv
    <3> QED
      BY <1>5, <1>6, <3>1 DEF Lone, Between, Vacant, Sending
  <2>2. CASE ~Prepares(thr[t].todo)
    <3>1. ~Passes(thr'[t].todo, {"realPrepareAccept"})
      BY <1>3, <1>4, <2>2 DEF Prepares, Has
    <3>2. \A u \in Threads \ {t} : \A P : Has(u, P)' <=> Has(u, P)
      BY <1>4, ActsOwn
    <3>3. ~Has(t, {"realPrepareAccept"})'
      BY <3>1 DEF Has
    <3> QED
      BY <1>2, <3>2, <3>3 DEF Unasked
  <2> QED
    BY <2>1, <2>2
<1>9. /\ Keeps({"app"}) /\ Keeps({"report"}) /\ Keeps({"caught"}) /\ Keeps({"reset"})
      /\ Keeps({"close"}) /\ Keeps({"sent"})
      /\ Keeps(Closed) /\ Keeps(Answers) /\ Keeps(Arrivals)
  BY <1>4 DEF Quiet
<1>10. /\ AppsCurrent => AppsCurrent'
       /\ NoCurrentReport => NoCurrentReport'
       /\ OnlyCloser => OnlyCloser'
       /\ Awaiting => Awaiting'
       /\ Closes => Closes'
       /\ NoneOwn => NoneOwn'
  BY <1>2, <1>4 DEF Related
<1>11. Calling'
  BY <1>1, <1>2, <1>5, <1>6, <1>7, <1>8, <1>9, <1>10 DEF Lone, Calling, Keeps, Done,
     NothingComes, Vacant
<1>12. Reporting'
  BY <1>1, <1>2, <1>5, <1>6, <1>7, <1>8, <1>9, <1>10 DEF Lone, Reporting, Keeps, Done,
     NothingComes, Vacant
<1>13. Renewing'
  BY <1>1, <1>2, <1>5, <1>6, <1>7, <1>8, <1>9, <1>10 DEF Lone, Renewing, Keeps, Done,
     NothingComes, Vacant
<1>14. Leaving'
  BY <1>1, <1>2, <1>5, <1>6, <1>7, <1>8, <1>9, <1>10 DEF Lone, Leaving, Keeps, Done,
     NothingComes, Vacant
<1>15. Between'
  BY <1>1, <1>2, <1>5, <1>6, <1>7, <1>8, <1>9, <1>10 DEF Lone, Between, Keeps, Done,
     NothingComes, Vacant
<1>16. Sending'
  BY <1>1, <1>2, <1>5, <1>6, <1>7, <1>8, <1>9, <1>10 DEF Lone, Sending, Keeps, Done,
     NothingComes, Vacant
<1> QED
  BY <1>11, <1>12, <1>13, <1>14, <1>15, <1>16 DEF Lone

LEMMA RealPrepareAcceptApps ==
    ASSUME IInv, AppsInv, NEW t \in Threads, RealPrepareAccept(t) PROVE AppsInv'
<1> USE DEF NoApps, NoSends
<1>1. At(t, "realPrepareAccept") /\ Shape /\ Start /\ Goes(t, <<>>)
  BY DEF RealPrepareAccept, Runs, CallDown, AppsInv
<1>2. /\ UNCHANGED <<slotReceiving, slotSending, receiving, heads, partial, gone, keepAlive>>
      /\ UNCHANGED <<lastPacket, tcsSend, waiting, request, lastFinished, disconnected>>
      /\ strays \subseteq strays'
  BY DEF RealPrepareAccept, CallDown, Slot!StartAccept, slotVars, connectionVars,
     responseVars, requestVars, owinVars
<1>3. Has(t, {"realPrepareAccept"}) /\ ~Has(t, {"awaitApp"})
  BY <1>1, AtPoint, AtFirst DEF IInv, First
<1>4. ~Unasked
  BY <1>3 DEF Unasked
<1>5. Lone => NoApps /\ NoSends /\ lastFinished # "pending"
  BY <1>4 DEF Lone, Between
<1>6. CASE receiving
  <2>1. /\ UNCHANGED <<phase, closing, clientClosed, disconnecting, acceptCounter, strays>>
        /\ after' = TRUE
    BY <1>6 DEF RealPrepareAccept, slotVars, connectionVars
  <2>2. /\ Shape' /\ Start' /\ Acts(t, {})
        /\ Quiet({}) /\ Related("realPrepareAccept", {})
    <3> DEFINE todo == <<>>
               p == "realPrepareAccept"
    <3>1. /\ At(t, p) /\ todo \in Seq(Point) /\ Goes(t, todo) /\ Orderly(todo)
          /\ \A P : Passes(todo, P) => Has(t, P)
      BY <1>1, PassesNone, OrderlyNone
    <3> HIDE DEF todo, p
    <3>2. /\ Shape' /\ Start' /\ Acts(t, {}) /\ Quiet({}) /\ Related(p, {})
      BY <1>1, <1>2, <2>1, <3>1, FrameBefore
    <3> QED
      BY <3>2 DEF p
  <2> SUFFICES ASSUME Clean' PROVE Lone'
    BY <2>2 DEF AppsInv
  <2>3. Lone /\ NoApps /\ NoSends /\ lastFinished # "pending"
    BY <1>2, <1>5, WasClean
  <2>4. /\ Keeps({"app"}) /\ Keeps({"report"}) /\ Keeps({"caught"}) /\ Keeps({"reset"})
        /\ Keeps({"close"}) /\ Keeps({"sent"})
        /\ Keeps(Closed) /\ Keeps(Answers) /\ Keeps(Arrivals)
    BY <2>2 DEF Quiet
  <2>5. /\ AppsCurrent => AppsCurrent'
        /\ NoCurrentReport => NoCurrentReport'
        /\ OnlyCloser => OnlyCloser'
        /\ Awaiting => Awaiting'
        /\ Closes => Closes'
        /\ NoneOwn => NoneOwn'
    BY <1>2, <2>2 DEF Related
  <2>6. Calling'
    BY <1>2, <2>1, <2>3, <2>4, <2>5 DEF Lone, Calling, Keeps, Done, NothingComes, Vacant
  <2>7. Reporting'
    BY <1>2, <2>1, <2>3, <2>4, <2>5 DEF Lone, Reporting, Keeps, Done, NothingComes, Vacant
  <2>8. Renewing'
    BY <1>2, <2>1, <2>3, <2>4, <2>5 DEF Lone, Renewing, Keeps, Done, NothingComes, Vacant
  <2>9. Leaving'
    BY <1>2, <2>1, <2>3, <2>4, <2>5 DEF Lone, Leaving, Keeps, Done, NothingComes, Vacant
  <2>10. Between'
    BY <1>2, <2>1, <2>3, <2>4, <2>5 DEF Lone, Between, Keeps, Done, NothingComes, Vacant
  <2>11. Sending'
    BY <1>2, <2>1, <2>3, <2>4, <2>5 DEF Lone, Sending, Keeps, Done, NothingComes, Vacant
  <2> QED
    BY <2>6, <2>7, <2>8, <2>9, <2>10, <2>11 DEF Lone
<1>7. CASE ~receiving
  <2>1. /\ acceptCounter' = acceptCounter + 1 /\ disconnecting' = FALSE
        /\ clientClosed' = FALSE /\ after' = after
    BY <1>7 DEF RealPrepareAccept
  <2>2. acceptCounter \in Nat /\ acceptCounter' # 0
    BY <2>1, ConstantsAssumption DEF IInv, Core, CoreTypes
  <2>3. Moves(t, <<>>)
    BY <1>1, EmptyTodo, GoesMoves DEF IInv, Core, Sound
  <2>4. \A u \in Threads : thr'[u].accept \in Nat /\ thr'[u].accept <= acceptCounter
    <3> SUFFICES ASSUME NEW u \in Threads
                 PROVE  thr'[u].accept \in Nat /\ thr'[u].accept <= acceptCounter
      OBVIOUS
    <3>1. /\ thr[u].accept \in Nat /\ thr[t].accept \in Nat
          /\ thr[u].accept <= acceptCounter /\ thr[t].accept <= acceptCounter
      BY AcceptIsNumber DEF IInv, Core, ThreadsInv
    <3>2. thr'[u].accept \in {0, thr[u].accept}
      BY <2>3 DEF Moves
    <3> QED
      BY <2>2, <3>1, <3>2
  <2>5. NoneOwn'
    BY <2>1, <2>2, <2>4 DEF NoneOwn, Own
  <2>6. \A u \in Threads : \A P : Has(u, P)' => Has(u, P)
    <3>1. ASSUME NEW u \in Threads, NEW P, Passes(thr'[u].todo, P) PROVE Passes(thr[u].todo, P)
      <4>1. CASE u = t
        BY <2>3, <3>1, <4>1, PassesNone DEF Moves
      <4>2. CASE u # t
        BY <2>3, <3>1, <4>2 DEF Moves
      <4> QED
        BY <4>1, <4>2
    <3> QED
      BY <3>1 DEF Has
  <2>7. Shape'
    <3> SUFFICES ASSUME NEW u \in Threads
                 PROVE Orderly(thr'[u].todo) /\ thr'[u].request <= request'
      BY DEF Shape, Orderly
    <3>1. request \in Nat /\ Orderly(thr[u].todo) /\ thr[u].request <= request
          /\ thr[t].request <= request
      BY <1>1, ConstantsAssumption DEF IInv, Core, CoreTypes, Shape
    <3>2. CASE u = t
      <4> DEFINE todo == <<>>
                 N == {}
      <4>1. todo \in Seq(Point) /\ Goes(t, todo)
        BY <1>1
      <4>2. thr'[t].todo = todo
        BY <2>3 DEF Moves
      <4>3. thr'[t].request = 0
        <5>1. ~Passes(todo, {"app", "report"})
          BY PassesNone
        <5>2. Thread(todo, thr[t].accept, thr[t].request).request = 0
          BY <5>1 DEF Thread
        <5> HIDE DEF todo
        <5> QED
          BY <4>1, <5>2 DEF Goes, IInv, Core, CoreTypes
      <4> QED
        BY <1>2, <3>1, <3>2, <4>2, <4>3, OrderlyNone
    <3>3. CASE u # t
      BY <1>2, <2>3, <3>1, <3>3 DEF Moves
    <3> QED
      BY <3>2, <3>3
  <2>8. Start'
    BY <2>2 DEF Start
  <2> SUFFICES ASSUME Clean' PROVE Lone'
    BY <2>7, <2>8 DEF AppsInv
  <2>9. Lone /\ NoApps /\ NoSends /\ lastFinished # "pending"
    BY <1>2, <1>5, WasClean
  <2>10. phase' = "accepting" /\ closing' = FALSE /\ ~slotSending
    <3>1. CASE Slot!MayAccept
      <4>1. Slot!StartAccept /\ (slotSending => "unanswered" \in strays')
        BY <1>7, <3>1 DEF RealPrepareAccept, CallDown
      <4> QED
        BY <4>1 DEF Slot!StartAccept, Clean
    <3>2. CASE ~Slot!MayAccept
      BY <1>7, <3>2 DEF RealPrepareAccept, CallDown, Clean
    <3> QED
      BY <3>1, <3>2
  <2>11. NoApps' /\ NoSends' /\ (No(Arrivals) => No(Arrivals)')
    BY <2>6, <2>9 DEF No
  <2>12. /\ NoOwn({"report"})' /\ NoOwn({"reset"})' /\ NoOwn({"caught"})'
         /\ NoOwn({"close"})' /\ NoOwn({"sent"})' /\ NoOwn(Closed)'
         /\ OneOwn({"reset"})' /\ OneOwn({"sent"})' /\ OnlyCloser'
    BY <2>5 DEF NoneOwn, NoOwn, OneOwn, OnlyCloser
  <2>13. AppsCurrent' /\ One({"app"})' /\ One(Answers)'
    BY <2>11 DEF AppsCurrent, One, No
  <2>14. tcsSend = {}
    <3>1. ASSUME NEW u \in tcsSend PROVE FALSE
      <4>1. u \in Threads /\ Has(u, {"app"})
        BY <2>9, <3>1 DEF Lone, Sending, Awaiting, IInv, OtherTypes
      <4> QED
        BY <2>9, <4>1 DEF No
    <3> QED
      BY <3>1
  <2>15. Awaiting'
    BY <1>2, <2>14 DEF Awaiting
  <2>16. waiting /\ lastPacket => No(Arrivals) /\ heads = 0
    BY <2>9 DEF Lone, Renewing, NothingComes
  <2>17. Calling'
    BY <1>2, <1>7, <2>1, <2>5, <2>9, <2>10, <2>11, <2>12, <2>13, <2>15 DEF Lone, Calling, Keeps,
       Done, NothingComes, Vacant
  <2>18. Reporting'
    BY <1>2, <1>7, <2>1, <2>5, <2>9, <2>10, <2>11, <2>12, <2>13, <2>15 DEF Lone, Reporting,
       Keeps, Done, NothingComes, Vacant
  <2>19. Renewing'
    BY <1>2, <1>7, <2>1, <2>5, <2>9, <2>10, <2>11, <2>12, <2>13, <2>15 DEF Lone, Renewing,
       Keeps, Done, NothingComes, Vacant
  <2>20. Leaving'
    BY <1>2, <1>7, <2>1, <2>5, <2>9, <2>10, <2>11, <2>12, <2>13, <2>15 DEF Lone, Leaving, Keeps,
       Done, NothingComes, Vacant
  <2>21. Between'
    BY <1>2, <1>7, <2>1, <2>5, <2>9, <2>10, <2>11, <2>12, <2>13, <2>15 DEF Lone, Between, Keeps,
       Done, NothingComes, Vacant
  <2>22. Sending'
    BY <1>2, <1>7, <2>1, <2>5, <2>9, <2>10, <2>11, <2>12, <2>13, <2>15 DEF Lone, Sending, Keeps,
       Done, NothingComes, Vacant
  <2> QED
    BY <2>17, <2>18, <2>19, <2>20, <2>21, <2>22 DEF Lone
<1> QED
  BY <1>6, <1>7

(* The application goes on elsewhere.                                       *)
LEMMA AppContinuesLaterApps ==
    ASSUME IInv, AppsInv, NEW t \in Threads, AppContinuesLater(t) PROVE AppsInv'
<1> USE DEF NoSends
<1>1. At(t, "app") /\ Shape /\ Start
  BY DEF AppContinuesLater, Runs, AppsInv
<1>2. PICK u \in Threads :
         /\ Free(u)
         /\ thr' = [thr EXCEPT ![t] = Thread(Rest(t), @.accept, @.request),
                               ![u] = Thread(<<"app">>, thr[t].accept, thr[t].request)]
  BY DEF AppContinuesLater
<1>3. /\ UNCHANGED <<phase, slotSending, closing, receiving, after, heads, partial, gone>>
      /\ UNCHANGED <<clientClosed, disconnecting, acceptCounter, keepAlive, lastPacket>>
      /\ UNCHANGED <<tcsSend, waiting, request, lastFinished, disconnected, strays>>
  BY DEF AppContinuesLater, slotVars, receiveVars, connectionVars, responseVars,
     requestVars, owinVars
<1> DEFINE rest == Rest(t)
           one == <<"app">>
           a == thr[t].accept
           r == thr[t].request
           old == Thread(rest, a, r)
           new == Thread(one, a, r)
<1>4. /\ thr \in [Threads -> ThreadState] /\ a \in 0..(MaxAccepts + 1)
      /\ r \in 0..MaxRequests /\ thr[u].todo = <<>> /\ u # t /\ r <= request
  BY <1>1, <1>2 DEF IInv, Core, CoreTypes, ThreadState, Free, At, Shape
<1>5. /\ rest \in Seq(Point) /\ Orderly(rest) /\ ~Passes(rest, First)
      /\ ~Passes(rest, {"app"})
      /\ \A P : Has(t, P) <=> "app" \in P \/ Passes(rest, P)
  BY <1>1, AtPoint, BehindApp DEF IInv, Calls
<1>6. one \in Seq(Point) /\ Orderly(one) /\ \A P : Passes(one, P) <=> "app" \in P
  BY PassesOne, OrderlyOne DEF Point
<1>7. thr' = [thr EXCEPT ![t] = old, ![u] = new]
  BY <1>2
<1> HIDE DEF rest, one, a, r
<1>8. /\ old.todo = rest /\ old.accept \in {0, a} /\ old.request \in {0, r}
      /\ Passes(rest, {"report"}) => old.request = r
      /\ new.todo = one /\ new.accept = a /\ new.request = r
  BY <1>4, <1>5, <1>6, ThreadIs
<1> HIDE DEF old, new
<1>9. thr'[t] = old /\ thr'[u] = new /\ \A v \in Threads \ {t, u} : thr'[v] = thr[v]
  BY <1>4, <1>7
<1>10. acceptCounter # 0 /\ Has(t, {"app"})
  <2>1. Has(t, {"app"}) /\ "app" \in Point
    BY <1>5 DEF Point
  <2> QED
    BY <1>1, <2>1, Started
<1>11. /\ Has(u, {"app"})' /\ \A v \in Threads \ {u} : Has(v, {"app"})' => Has(v, {"app"}) /\ v # t
       /\ \A v \in Threads : \A P : "app" \notin P /\ Has(v, P)' => Has(v, P) /\ v # u
       /\ \A v \in Threads \ {u} : Own(v)' => Own(v)
       /\ Own(u)' <=> Own(t)
  <2>1. Has(u, {"app"})' /\ \A P : "app" \notin P => ~Has(u, P)'
    BY <1>6, <1>8, <1>9 DEF Has
  <2>2. ~Has(t, {"app"})' /\ \A P : Has(t, P)' => Has(t, P)
    <3>1. \A P : Has(t, P)' <=> Passes(rest, P)
      BY <1>8, <1>9 DEF Has
    <3> QED
      BY <1>5, <3>1
  <2>3. \A v \in Threads \ {t, u} : \A P : Has(v, P)' <=> Has(v, P)
    BY <1>9 DEF Has
  <2>4. /\ \A v \in Threads \ {u} : Own(v)' => Own(v)
        /\ Own(u)' <=> Own(t)
    BY <1>3, <1>8, <1>9 DEF Own, a
  <2>5. \A v \in Threads \ {u} : Has(v, {"app"})' => Has(v, {"app"}) /\ v # t
    BY <2>2, <2>3
  <2>6. \A v \in Threads : \A P : "app" \notin P /\ Has(v, P)' => Has(v, P) /\ v # u
    BY <2>1, <2>2, <2>3
  <2> QED
    BY <2>1, <2>4, <2>5, <2>6
<1>12. Shape'
  <2> SUFFICES ASSUME NEW v \in Threads
               PROVE Orderly(thr'[v].todo) /\ thr'[v].request <= request'
    BY DEF Shape, Orderly
  <2>1. r \in Nat /\ request \in Nat /\ r <= request /\ request' = request
    BY <1>3, <1>4, ConstantsAssumption DEF IInv, Core, CoreTypes
  <2>2. CASE v = t
    BY <1>5, <1>8, <1>9, <2>1, <2>2
  <2>3. CASE v = u
    BY <1>6, <1>8, <1>9, <2>1, <2>3
  <2>4. CASE v \notin {t, u}
    BY <1>1, <1>9, <2>1, <2>4 DEF Shape
  <2> QED
    BY <2>2, <2>3, <2>4
<1>13. Start'
  BY <1>3, <1>10 DEF Start
<1> SUFFICES ASSUME Clean' PROVE Lone'
  BY <1>12, <1>13 DEF AppsInv
<1>14. Lone
  BY <1>3, WasClean
<1>15. /\ ~NoApps /\ tcsSend = {}
       /\ NoSends /\ ~slotSending /\ ~waiting /\ ~lastPacket
       /\ lastFinished # "done" /\ (disconnected => lastFinished = "pending")
       /\ NoOwn({"reset"}) /\ NoOwn({"sent"})
       /\ lastFinished = "pending" => disconnecting
       /\ disconnecting \/ NoOwn({"close"})
       /\ phase = "open" \/ (phase = "asked" /\ disconnecting /\ closing)
       /\ Unasked /\ NoCurrentReport /\ Own(t) /\ r = request
  BY <1>1, <1>14, AtApp DEF r
<1>16. \A P : "app" \notin P => Keeps(P)
  <2> SUFFICES ASSUME NEW P, "app" \notin P PROVE Keeps(P)
    OBVIOUS
  <2>1. \A v \in Threads : Has(v, P)' => Has(v, P) /\ (Own(v)' => Own(v))
    BY <1>11
  <2> QED
    BY <2>1 DEF Keeps, No, NoOwn, One, OneOwn
<1>17. /\ Keeps({"report"}) /\ Keeps({"caught"}) /\ Keeps({"reset"}) /\ Keeps({"close"})
       /\ Keeps({"sent"}) /\ Keeps(Closed) /\ Keeps(Answers) /\ Keeps(Arrivals)
  <2>1. "app" \notin Closed /\ "app" \notin Answers /\ "app" \notin Arrivals
    BY DEF Closed, Answers, Arrivals
  <2> HIDE DEF Keeps
  <2> QED
    BY <1>16, <2>1
<1>18. One({"app"})' /\ AppsCurrent' /\ ~NoApps'
  <2>1. \A v \in Threads : Has(v, {"app"})' => v = u
    BY <1>10, <1>11, <1>14 DEF Lone, Calling, One
  <2>2. Own(u)' /\ thr'[u].request = request'
    BY <1>3, <1>8, <1>9, <1>11, <1>15
  <2> QED
    BY <1>11, <2>1, <2>2 DEF One, AppsCurrent, NoApps, No
<1>19. NoCurrentReport'
  <2> SUFFICES ASSUME NEW v \in Threads, Has(v, {"report"})' PROVE thr'[v].request # request'
    BY DEF NoCurrentReport
  <2>1. Has(v, {"report"}) /\ v # u
    BY <1>11
  <2>2. thr[v].request # request
    BY <1>15, <2>1 DEF NoCurrentReport
  <2>3. CASE v = t
    BY <1>15, <2>2, <2>3 DEF r
  <2>4. CASE v # t
    BY <1>3, <1>9, <2>1, <2>2, <2>4
  <2> QED
    BY <2>3, <2>4
<1>20. Unasked'
  <2>1. ~Has(t, {"realPrepareAccept"})
    BY <1>1, <1>15, AtFirst DEF Unasked, IInv, First
  <2>2. ASSUME NEW v \in Threads, Has(v, {"realPrepareAccept"})' PROVE Has(v, {"awaitApp"})'
    <3>1. Has(v, {"realPrepareAccept"}) /\ v # u /\ v # t
      BY <1>11, <2>1, <2>2
    <3>2. Has(v, {"awaitApp"}) /\ thr'[v] = thr[v]
      BY <1>9, <1>15, <3>1 DEF Unasked
    <3> QED
      BY <3>2 DEF Has
  <2> QED
    BY <1>3, <1>15, <2>2 DEF Unasked
<1>21. Awaiting' /\ (NoOwn({"close"})' => OnlyCloser')
  BY <1>3, <1>15 DEF Awaiting, NoOwn, OnlyCloser
<1>22. Calling'
  BY <1>3, <1>14, <1>15, <1>17, <1>18, <1>19, <1>20, <1>21 DEF Lone, Calling, Keeps, Done,
     NothingComes, Vacant
<1>23. Reporting'
  BY <1>3, <1>14, <1>15, <1>17, <1>18, <1>19, <1>20, <1>21 DEF Lone, Reporting, Keeps, Done,
     NothingComes, Vacant
<1>24. Renewing'
  BY <1>3, <1>14, <1>15, <1>17, <1>18, <1>19, <1>20, <1>21 DEF Lone, Renewing, Keeps, Done,
     NothingComes, Vacant
<1>25. Leaving'
  BY <1>3, <1>14, <1>15, <1>17, <1>18, <1>19, <1>20, <1>21 DEF Lone, Leaving, Keeps, Done,
     NothingComes, Vacant
<1>26. Between'
  BY <1>3, <1>14, <1>15, <1>17, <1>18, <1>19, <1>20, <1>21 DEF Lone, Between, Keeps, Done,
     NothingComes, Vacant
<1>27. Sending'
  BY <1>3, <1>14, <1>15, <1>17, <1>18, <1>19, <1>20, <1>21 DEF Lone, Sending, Keeps, Done,
     NothingComes, Vacant
<1> QED
  BY <1>22, <1>23, <1>24, <1>25, <1>26, <1>27 DEF Lone

(* The answer to a send resumes the application that waits for it.          *)
LEMMA ResumedOrderly ==
    ASSUME NEW todo \in Seq(Point), Orderly(todo)
    PROVE  /\ Resumed(todo) \in Seq(Point) /\ Orderly(Resumed(todo))
           /\ \A P : Passes(Resumed(todo), P) => Passes(todo, P)
           /\ Awaits(todo) => \A P : "await" \notin P /\ Passes(todo, P)
                                        => Passes(Resumed(todo), P)
<1>1. CASE ~Passes(todo, {"await"})
  BY <1>1 DEF Resumed
<1>2. CASE Passes(todo, {"await"})
  <2>1. todo # <<>>
    BY <1>2, PassesNone
  <2> DEFINE rest == Tail(todo)
             p == Head(todo)
             more == Tail(rest)
  <2>2. /\ p \in Point /\ rest \in Seq(Point) /\ Orderly(rest) /\ ~Passes(rest, First)
        /\ p \in Calls => ~Passes(rest, Point \ Returns)
        /\ \A P : Passes(todo, P) <=> p \in P \/ Passes(rest, P)
    <3>1. p \in Point
      BY <2>1
    <3>2. /\ rest \in Seq(Point) /\ Orderly(rest) /\ ~Passes(rest, First)
          /\ p \in Calls => ~Passes(rest, Point \ Returns)
      BY <2>1, OrderlyRest
    <3>3. \A P : Passes(todo, P) <=> p \in P \/ Passes(rest, P)
      BY <2>1, PassesRest
    <3> QED
      BY <3>1, <3>2, <3>3
  <2>3. Resumed(todo) = IF p = "await" THEN rest ELSE <<p>> \o more
    BY <1>2 DEF Resumed
  <2>4. Awaits(todo) => p = "await" \/ (p = "send" /\ rest # <<>> /\ Head(rest) = "await")
    BY DEF Awaits
  <2>5. CASE p = "await"
    <3>1. Resumed(todo) = rest
      BY <2>3, <2>5
    <3> HIDE DEF rest, p
    <3> QED
      BY <2>2, <2>5, <3>1
  <2>6. CASE p # "await"
    <3>1. rest # <<>>
      BY <1>2, <2>2, <2>6, PassesNone
    <3> HIDE DEF rest, p
    <3>2. /\ more \in Seq(Point) /\ Orderly(more)
          /\ \A P : Passes(rest, P) <=> Head(rest) \in P \/ Passes(more, P)
      BY <2>2, <3>1, OrderlyRest, PassesRest
    <3> HIDE DEF more
    <3>3. ~Passes(more, First) /\ (p \in Calls => ~Passes(more, Point \ Returns))
      BY <2>2, <3>2
    <3>4. /\ <<p>> \o more \in Seq(Point) /\ Orderly(<<p>> \o more)
          /\ \A P : Passes(<<p>> \o more, P) <=> p \in P \/ Passes(more, P)
      BY <2>2, <3>2, <3>3, LongerHead, OrderlyLonger, PassesLonger
    <3>5. Resumed(todo) = <<p>> \o more
      BY <2>3, <2>6
    <3>6. \A P : Passes(Resumed(todo), P) => Passes(todo, P)
      BY <2>2, <3>2, <3>4, <3>5
    <3>7. Awaits(todo) => \A P : "await" \notin P /\ Passes(todo, P)
                                    => Passes(Resumed(todo), P)
      BY <2>2, <2>4, <2>6, <3>2, <3>4, <3>5
    <3> QED
      BY <3>4, <3>5, <3>6, <3>7
  <2> QED
    BY <2>5, <2>6
<1> QED
  BY <1>1, <1>2

LEMMA FinishSendApps == ASSUME IInv, AppsInv, FinishSend PROVE AppsInv'
<1> USE DEF NoApps, NoSends
<1>1. PICK t \in Threads, success \in BOOLEAN :
         /\ Free(t)
         /\ keepAlive' = (keepAlive /\ success /\ ~clientClosed)
         /\ thr' = [u \in Threads |->
              IF u = t
                THEN Thread(<<IF tcsSend = {} THEN "sent" ELSE "flushed">>,
                            acceptCounter, request)
              ELSE IF u \in tcsSend
                THEN [thr[u] EXCEPT !.todo = Resumed(@)]
              ELSE thr[u]]
  BY DEF FinishSend
<1>2. /\ UNCHANGED <<phase, slotReceiving, closing, receiving, after, heads, partial, gone>>
      /\ UNCHANGED <<clientClosed, disconnecting, acceptCounter, lastPacket, waiting>>
      /\ UNCHANGED <<request, lastFinished, disconnected, strays>>
      /\ slotSending /\ slotSending' = FALSE /\ tcsSend' = {}
  BY DEF FinishSend, Slot!FinishSend, receiveVars, connectionVars, requestVars, owinVars
<1>3. ~keepAlive => ~keepAlive'
  BY <1>1
<1>4. Shape /\ Start /\ acceptCounter # 0
  BY <1>2 DEF AppsInv, Start
<1> DEFINE s == IF tcsSend = {} THEN "sent" ELSE "flushed"
           todo == <<s>>
           new == Thread(todo, acceptCounter, request)
<1>5. /\ thr \in [Threads -> ThreadState] /\ acceptCounter \in 0..(MaxAccepts + 1)
      /\ request \in 0..MaxRequests /\ thr[t].todo = <<>>
  BY <1>1 DEF IInv, Core, CoreTypes, Free
<1>6. s \in Point /\ s \in {"sent", "flushed"} /\ (tcsSend # {} => s # "sent")
  BY DEF Point
<1>7. thr'[t] = new
  BY <1>1
<1> HIDE DEF s
<1>8. todo \in Seq(Point) /\ Orderly(todo) /\ \A P : Passes(todo, P) <=> s \in P
  BY <1>6, PassesOne, OrderlyOne
<1> HIDE DEF todo
<1>9. new.todo = todo /\ new.request \in {0, request}
  BY <1>5, <1>8, ThreadIs
<1> HIDE DEF new
<1>10. ASSUME NEW u \in Threads \ {t}
       PROVE  /\ thr'[u].accept = thr[u].accept /\ thr'[u].request = thr[u].request
              /\ Orderly(thr'[u].todo)
              /\ \A P : Passes(thr'[u].todo, P) => Passes(thr[u].todo, P)
              /\ u \notin tcsSend \/ Awaits(thr[u].todo) =>
                    \A P : "await" \notin P /\ Passes(thr[u].todo, P)
                              => Passes(thr'[u].todo, P)
  <2>1. thr[u].todo \in Seq(Point) /\ Orderly(thr[u].todo) /\ thr[u] \in ThreadState
    BY <1>4, <1>5 DEF IInv, Core, ThreadsInv, Sound, Shape
  <2>2. CASE u \in tcsSend
    <3>1. thr'[u] = [thr[u] EXCEPT !.todo = Resumed(thr[u].todo)]
      BY <1>1, <2>2
    <3>2. /\ thr'[u].todo = Resumed(thr[u].todo) /\ thr'[u].accept = thr[u].accept
          /\ thr'[u].request = thr[u].request
      BY <2>1, <3>1 DEF ThreadState
    <3> QED
      BY <2>1, <2>2, <3>2, ResumedOrderly
  <2>3. CASE u \notin tcsSend
    <3>1. thr'[u] = thr[u]
      BY <1>1, <2>3
    <3> QED
      BY <2>1, <3>1
  <2> QED
    BY <2>2, <2>3
<1>11. Shape'
  <2> SUFFICES ASSUME NEW u \in Threads
               PROVE Orderly(thr'[u].todo) /\ thr'[u].request <= request'
    BY DEF Shape, Orderly
  <2>1. CASE u = t
    BY <1>2, <1>5, <1>7, <1>8, <1>9, <2>1, ConstantsAssumption
  <2>2. CASE u # t
    BY <1>2, <1>4, <1>10, <2>2 DEF Shape
  <2> QED
    BY <2>1, <2>2
<1>12. Start'
  BY <1>2, <1>4 DEF Start
<1> SUFFICES ASSUME Clean' PROVE Lone'
  BY <1>11, <1>12 DEF AppsInv
<1>13. Lone
  BY <1>2, WasClean
<1>14. NoSends /\ phase \notin {"new", "accepting"} /\ ~Vacant /\ NoOwn({"reset"})
       /\ (waiting => lastPacket)
  BY <1>2, <1>13 DEF Lone, Sending, Between, Vacant, Renewing
<1>15. \A u \in Threads \ {t} : u \notin tcsSend \/ Awaits(thr[u].todo)
  BY <1>13 DEF Lone, Sending, Awaiting
<1>16. /\ \A P : ~Has(t, P) /\ (Has(t, P)' <=> s \in P)
       /\ \A u \in Threads \ {t} : Own(u)' <=> Own(u)
       /\ \A u \in Threads \ {t} : \A P : Has(u, P)' => Has(u, P)
       /\ \A u \in Threads \ {t} : \A P : "await" \notin P => (Has(u, P)' <=> Has(u, P))
       /\ \A u \in Threads \ {t} : thr'[u].request = thr[u].request
  <2>1. \A P : ~Has(t, P) /\ (Has(t, P)' <=> s \in P)
    BY <1>5, <1>7, <1>8, <1>9, PassesNone DEF Has
  <2>2. \A u \in Threads \ {t} : Own(u)' <=> Own(u)
    BY <1>2, <1>10 DEF Own
  <2>3. \A u \in Threads \ {t} : \A P : Has(u, P)' => Has(u, P)
    BY <1>10 DEF Has
  <2>4. \A u \in Threads \ {t} : \A P : "await" \notin P => (Has(u, P)' <=> Has(u, P))
    BY <1>10, <1>15 DEF Has
  <2> QED
    BY <1>10, <2>1, <2>2, <2>3, <2>4
<1>17. \A P : s \notin P => Keeps(P)
  <2> SUFFICES ASSUME NEW P, s \notin P PROVE Keeps(P)
    OBVIOUS
  <2>1. \A u \in Threads : Has(u, P)' => Has(u, P) /\ (Own(u)' => Own(u))
    BY <1>16
  <2> QED
    BY <2>1 DEF Keeps, No, NoOwn, One, OneOwn
<1>18. /\ Keeps({"app"}) /\ Keeps({"report"}) /\ Keeps({"caught"}) /\ Keeps({"reset"})
       /\ Keeps({"close"}) /\ (tcsSend # {} => Keeps({"sent"}))
       /\ Keeps(Closed) /\ Keeps(Answers) /\ Keeps(Arrivals)
  <2>1. s \notin Closed /\ s \notin Answers /\ s \notin Arrivals
    BY <1>6 DEF Closed, Answers, Arrivals
  <2> HIDE DEF Keeps
  <2> QED
    BY <1>6, <1>17, <2>1
<1>19. \A u \in Threads : /\ Has(u, {"app"})' <=> Has(u, {"app"})
                          /\ Has(u, {"close"})' <=> Has(u, {"close"})
                          /\ Has(u, {"awaitApp"})' <=> Has(u, {"awaitApp"})
                          /\ Has(u, {"realPrepareAccept"})' <=> Has(u, {"realPrepareAccept"})
                          /\ Has(u, {"report"})' <=> Has(u, {"report"})
  <2>1. \A P : "await" \notin P /\ s \notin P => \A u \in Threads : Has(u, P)' <=> Has(u, P)
    BY <1>16
  <2> QED
    BY <1>6, <2>1
<1>20. /\ AppsCurrent => AppsCurrent'
       /\ NoCurrentReport => NoCurrentReport'
       /\ Closes => Closes'
       /\ Unasked => Unasked'
       /\ NoApps' => NoApps
       /\ Awaiting'
  <2>1. \A u \in Threads : Has(u, {"app"}) \/ Has(u, {"report"}) \/ Has(u, {"close"}) => u # t
    BY <1>16
  <2>2. AppsCurrent => AppsCurrent'
    BY <1>2, <1>16, <1>19, <2>1 DEF AppsCurrent
  <2>3. NoCurrentReport => NoCurrentReport'
    BY <1>2, <1>16, <1>19, <2>1 DEF NoCurrentReport
  <2>4. (Closes => Closes') /\ (NoApps' => NoApps)
    BY <1>19 DEF Closes, No
  <2>5. Unasked => Unasked'
    BY <1>2, <1>19 DEF Unasked
  <2>6. Awaiting'
    BY <1>2 DEF Awaiting
  <2> QED
    BY <2>2, <2>3, <2>4, <2>5, <2>6
<1>21. OnlyCloser => OnlyCloser'
  <2>1. \A u \in Threads : Has(u, {"close"}) => u # t
    BY <1>16
  <2> QED
    BY <1>16, <1>19, <2>1 DEF OnlyCloser
<1>22. Done => Done'
  BY <1>2, <1>3, <1>18 DEF Done, Keeps
<1>23. \/ Done /\ disconnecting
       \/ /\ OneOwn({"sent"})'
          /\ NoOwn({"sent"})' \/ (NoApps /\ lastPacket)
  <2>1. CASE tcsSend # {}
    BY <1>2, <1>13, <1>18, <2>1 DEF Lone, Sending, Keeps
  <2>2. CASE tcsSend = {}
    <3>1. NoApps /\ (lastPacket \/ disconnecting)
      BY <1>2, <1>13, <2>2 DEF Lone, Sending
    <3>2. (Done /\ disconnecting) \/ NoOwn({"sent"})
      BY <1>2, <1>13 DEF Lone, Sending
    <3>3. NoOwn({"sent"}) => OneOwn({"sent"})'
      BY <1>16 DEF NoOwn, OneOwn
    <3>4. ~lastPacket => Done
      BY <1>14, <3>1 DEF Done
    <3> QED
      BY <3>1, <3>2, <3>3, <3>4
  <2> QED
    BY <2>1, <2>2
<1> DEFINE waits == tcsSend # {}
<1>24. /\ Keeps({"app"}) /\ Keeps({"report"}) /\ Keeps({"caught"}) /\ Keeps({"reset"})
       /\ Keeps({"close"})
       /\ Keeps(Closed) /\ Keeps(Answers) /\ Keeps(Arrivals)
  BY <1>18
<1>25. Calling'
  BY <1>2, <1>3, <1>13, <1>14, <1>20, <1>21, <1>22, <1>23, <1>24 DEF Lone, Calling, Keeps, Done,
     NothingComes, Vacant
<1>26. Reporting'
  BY <1>2, <1>3, <1>13, <1>14, <1>20, <1>21, <1>22, <1>23, <1>24 DEF Lone, Reporting, Keeps,
     Done, NothingComes, Vacant
<1>27. Renewing'
  BY <1>2, <1>3, <1>13, <1>14, <1>20, <1>21, <1>22, <1>23, <1>24 DEF Lone, Renewing, Keeps,
     Done, NothingComes, Vacant
<1>28. Leaving'
  BY <1>2, <1>3, <1>13, <1>14, <1>20, <1>21, <1>22, <1>23, <1>24 DEF Lone, Leaving, Keeps, Done,
     NothingComes, Vacant
<1>29. Between'
  BY <1>2, <1>3, <1>13, <1>14, <1>20, <1>21, <1>22, <1>23, <1>24 DEF Lone, Between, Keeps, Done,
     NothingComes, Vacant
<1>30. Sending'
  BY <1>2, <1>3, <1>13, <1>14, <1>20, <1>21, <1>22, <1>23, <1>24 DEF Lone, Sending, Keeps, Done,
     NothingComes, Vacant
<1> QED
  BY <1>25, <1>26, <1>27, <1>28, <1>29, <1>30 DEF Lone

----------------------------------------------------------------------------
(* The lock region                                                         *)

(* What a region finds: the thread goes on for the present client, or it    *)
(* brings what came for it.                                                 *)
Entered(t, q, h, p, r) ==
    \/ /\ q \in {"reenter", "next"}
       /\ Own(t) /\ h = heads /\ p = partial /\ (r <=> receiving)
    \/ /\ q \in Arrivals
       /\ receiving /\ ~r /\ \A u \in Threads \ {t} : ~Has(u, Arrivals)

LEMMA Comes ==
    ASSUME IInv, Shape, Lone, Clean, NEW t \in Threads, NEW q, At(t, q),
           NEW h \in Nat, NEW p, NEW r \in BOOLEAN, Entered(t, q, h, p, r)
    PROVE  /\ ~Vacant
           /\ h > 0 => ~NothingComes
           /\ gone => h = 0 /\ p # "full"
           /\ NothingComes => q \notin Arrivals
           /\ ~r => \A u \in Threads \ {t} : ~Has(u, Arrivals)
<1>1. CASE q \in Arrivals
  <2>1. Has(t, Arrivals)
    BY <1>1, AtPoint DEF IInv
  <2>2. ~No(Arrivals)
    BY <2>1 DEF No
  <2>3. receiving /\ \A u \in Threads \ {t} : ~Has(u, Arrivals)
    BY <1>1 DEF Entered, Arrivals
  <2> QED
    BY <2>2, <2>3 DEF Vacant, NothingComes, Lone, Leaving
<1>2. CASE q \notin Arrivals
  <2>1. Own(t) /\ h = heads /\ p = partial /\ (r <=> receiving)
    BY <1>2 DEF Entered
  <2>2. ~Vacant
    BY <2>1 DEF Vacant, NoneOwn
  <2>3. ~receiving => \A u \in Threads : ~Takes(thr[u].todo)
    BY DEF IInv, Core, ReceivingInv
  <2>4. \A u \in Threads : Has(u, Arrivals) => Takes(thr[u].todo)
    BY PassesMore DEF Has, Takes, Arrivals, TakingPoints
  <2> QED
    BY <1>2, <2>1, <2>2, <2>3, <2>4 DEF NothingComes, Lone, Leaving
<1> QED
  BY <1>1, <1>2

(* The next request is waited for, and nothing else is on its way.          *)
LEMMA Waits ==
    ASSUME IInv, Shape, Lone, waiting, ~Vacant, ~gone, ~lastPacket, ~disconnecting,
           NoOwn({"close"})
    PROVE  /\ NoApps /\ NoSends /\ ~slotSending /\ tcsSend = {}
           /\ lastFinished # "pending" /\ NoOwn({"reset"}) /\ NoOwn({"caught"})
           /\ NoOwn({"sent"}) /\ NoOwn(Closed)
           /\ lastFinished = "done" => NoOwn({"report"})
           /\ phase = "open" /\ ~closing /\ ~after
           /\ \A u \in Threads : ~Prepares(thr[u].todo)
           /\ Slot!MaySend
<1>1. NoApps /\ NoSends /\ ~slotSending
  BY DEF Lone, Calling, Sending
<1>2. ~Done
  BY DEF Done
<1>3. /\ lastFinished # "pending" /\ NoOwn({"reset"}) /\ NoOwn({"caught"})
      /\ NoOwn({"sent"}) /\ NoOwn(Closed)
      /\ lastFinished = "done" => NoOwn({"report"})
  BY <1>2 DEF Lone, Reporting, Renewing, Leaving, Sending
<1>4. phase = "open" /\ ~closing
  <2>1. phase \in {"new", "asked", "accepting", "open"}
    BY DEF IInv, Core, CoreTypes, Slot!Phase
  <2> QED
    BY <2>1 DEF Lone, Between
<1>5. ~after /\ \A u \in Threads : ~Prepares(thr[u].todo)
  BY <1>4 DEF IInv, Core, PrepareInv
<1>6. tcsSend = {}
  <2>1. ASSUME NEW u \in tcsSend PROVE FALSE
    <3>1. u \in Threads /\ Has(u, {"app"})
      BY <2>1 DEF Lone, Sending, Awaiting, IInv, OtherTypes
    <3> QED
      BY <1>1, <3>1 DEF NoApps, No
  <2> QED
    BY <2>1
<1> QED
  BY <1>1, <1>3, <1>4, <1>5, <1>6 DEF Slot!MaySend, Slot!Usable

(* What is parsed was waited for.                                           *)
LEMMA WaitsForHead ==
    ASSUME IInv, Shape, Lone, Clean, waiting, ~NothingComes, ~gone
    PROVE  ~lastPacket /\ ~disconnecting /\ NoOwn({"close"})
<1>1. ~Done
  BY DEF Done
<1>2. ~lastPacket
  BY DEF Lone, Renewing
<1>3. lastFinished # "pending"
  BY DEF Lone, Reporting
<1> QED
  BY <1>1, <1>2, <1>3 DEF Lone, Leaving

(* Neither prepares what was not asked for.                                 *)
LEMMA StaysUnasked ==
    ASSUME NEW t \in Threads, NEW N, Acts(t, N), ~after', "realPrepareAccept" \notin N,
           \A u \in Threads : ~Prepares(thr[u].todo)
    PROVE  Unasked'
<1>1. {"realPrepareAccept"} \cap N = {} /\ {"realPrepareAccept"} \in SUBSET Point
  BY DEF Point
<1>2. No({"realPrepareAccept"})
  BY DEF No, Has, Prepares
<1>3. Keeps({"realPrepareAccept"})
  BY <1>1, ActsKeeps
<1>4. No({"realPrepareAccept"})'
  BY <1>2, <1>3 DEF Keeps
<1> QED
  BY <1>4 DEF No, Unasked

LEMMA ParseApps ==
    ASSUME IInv, AppsInv, NEW t \in Threads, NEW q, At(t, q),
           q \in Arrivals \cup {"reenter", "next"},
           NEW rest \in Seq(Point), Orderly(rest), ~Passes(rest, Point \ Returns),
           NEW h \in Nat, NEW p, NEW r \in BOOLEAN, h > 0, request + h <= MaxRequests,
           waiting, Parse(t, rest, h, p, r), waiting' = FALSE, request' = request + 1,
           lastFinished' = "null", disconnected' = FALSE, strays \subseteq strays',
           tcsSend' = tcsSend, UNCHANGED <<after, connectionVars>>,
           Clean' => Entered(t, q, h, p, r)
    PROVE  AppsInv'
<1> USE DEF NoApps, NoSends
<1> DEFINE N == {"startReceive", "app", "reenter", "check"}
           asks == IF h = 1 /\ p = "none" /\ ~r THEN <<"startReceive">> ELSE <<>>
           calls == <<"app", "reenter">> \o rest
           todo == asks \o <<"app", "reenter">> \o rest
           new == Thread(todo, acceptCounter, request + 1)
<1>1. /\ UNCHANGED <<phase, slotReceiving, slotSending, closing, gone, clientClosed>>
      /\ UNCHANGED <<disconnecting, acceptCounter, lastPacket>>
      /\ thr' = [thr EXCEPT ![t] = new]
  BY DEF Parse, slotVars, connectionVars
<1>2. /\ rest \in Seq(Point) /\ ~Passes(rest, First) /\ \A P : P \cap N = {} => ~Passes(rest, P)
  <2>1. First \subseteq Point \ Returns
    BY DEF First, Point, Returns
  <2>2. \A P : Passes(rest, P) => Passes(rest, P \cap Point)
    BY DEF Passes
  <2>3. \A P : P \cap N = {} => P \cap Point \subseteq Point \ Returns
    BY DEF Returns
  <2> QED
    BY <2>1, <2>2, <2>3, PassesMore
<1>3. /\ calls \in Seq(Point) /\ Orderly(calls) /\ ~Passes(calls, First)
      /\ \A P : Passes(calls, P) <=> "app" \in P \/ "reenter" \in P \/ Passes(rest, P)
  <2>1. /\ "app" \in Point /\ "reenter" \in Point \ First /\ "reenter" \in Returns
        /\ "app" \notin First
    BY DEF Point, First, Returns
  <2>2. /\ calls \in Seq(Point)
        /\ \A P : Passes(calls, P) <=> "app" \in P \/ "reenter" \in P \/ Passes(rest, P)
    BY <2>1, PassesTwoOn
  <2>3. Orderly(calls)
    BY <1>2, <2>1, OrderlyTwoOn
  <2> HIDE DEF calls
  <2> QED
    BY <1>2, <2>1, <2>2, <2>3
<1>4. /\ todo \in Seq(Point) /\ Orderly(todo) /\ Passes(todo, {"app"})
      /\ \A P : P \cap N = {} => ~Passes(todo, P)
  <2>1. "app" \in Point /\ "reenter" \in Point /\ "startReceive" \in Point \ Calls
    BY DEF Point, Calls
  <2>2. <<"app", "reenter">> \in Seq(Point) /\ <<"startReceive">> \in Seq(Point)
    BY <2>1
  <2>3. CASE asks = <<>>
    <3>1. todo = calls
      BY <2>2, <2>3, ConcatEmptySeq
    <3> HIDE DEF todo, calls
    <3> QED
      BY <1>2, <1>3, <3>1
  <2>4. CASE asks # <<>>
    <3>1. asks = <<"startReceive">>
      BY <2>4
    <3> HIDE DEF asks
    <3>2. todo = <<"startReceive">> \o calls
      BY <2>2, <3>1, ConcatAssociative
    <3> HIDE DEF todo, calls
    <3>3. /\ todo \in Seq(Point) /\ Orderly(todo)
          /\ \A P : Passes(todo, P) <=> "startReceive" \in P \/ Passes(calls, P)
      BY <1>3, <2>1, <3>2, LongerHead, OrderlyLonger, PassesLonger
    <3> QED
      BY <1>2, <1>3, <3>3
  <2> QED
    BY <2>3, <2>4
<1> HIDE DEF todo
<1>5. /\ thr \in [Threads -> ThreadState] /\ acceptCounter \in 0..(MaxAccepts + 1)
      /\ request \in Nat /\ request + 1 \in 0..MaxRequests
  BY ConstantsAssumption DEF IInv, Core, CoreTypes
<1>6. /\ new.todo = todo /\ new.accept = acceptCounter /\ new.request = request + 1
  BY <1>4, <1>5, ThreadIs
<1> HIDE DEF new
<1>7. thr'[t] = new /\ \A u \in Threads \ {t} : thr'[u] = thr[u]
  BY <1>1, <1>5
<1>8. Shape /\ Start /\ acceptCounter # 0
  <2>1. Shape /\ Start /\ q \in Point \ {"awaitApp", "realPrepareAccept"} /\ Has(t, {q})
    BY AtPoint DEF IInv, AppsInv, Arrivals
  <2> QED
    BY <2>1, Started
<1>9. Shape'
  <2> SUFFICES ASSUME NEW u \in Threads
               PROVE Orderly(thr'[u].todo) /\ thr'[u].request <= request'
    BY DEF Shape, Orderly
  <2>1. thr[u].request \in Nat /\ thr[u].request <= request
    BY <1>5, <1>8 DEF ThreadState, Shape
  <2>2. CASE u = t
    BY <1>4, <1>5, <1>6, <1>7, <2>2
  <2>3. CASE u # t
    BY <1>5, <1>7, <1>8, <2>1, <2>3 DEF Shape
  <2> QED
    BY <2>2, <2>3
<1>10. Start'
  BY <1>1, <1>8 DEF Start
<1> SUFFICES ASSUME Clean' PROVE Lone'
  BY <1>9, <1>10 DEF AppsInv
<1>11. Lone /\ Clean
  BY WasClean
<1>12. ~Vacant /\ ~NothingComes /\ ~gone
  BY <1>8, <1>11, Comes DEF AppsInv
<1>13. ~lastPacket /\ ~disconnecting /\ NoOwn({"close"})
  BY <1>8, <1>11, <1>12, WaitsForHead
<1>14. /\ NoApps /\ NoSends /\ ~slotSending /\ tcsSend = {}
       /\ NoOwn({"reset"}) /\ NoOwn({"caught"}) /\ NoOwn({"sent"}) /\ NoOwn(Closed)
       /\ phase = "open" /\ ~closing /\ ~after
       /\ \A u \in Threads : ~Prepares(thr[u].todo)
  BY <1>8, <1>11, <1>12, <1>13, Waits
<1>15. \A P : P \cap N = {} => Keeps(P)
  <2> SUFFICES ASSUME NEW P, P \cap N = {} PROVE Keeps(P)
    OBVIOUS
  <2>1. ~Has(t, P)'
    BY <1>4, <1>6, <1>7 DEF Has
  <2>2. \A u \in Threads \ {t} : (Has(u, P)' <=> Has(u, P)) /\ (Own(u)' <=> Own(u))
    BY <1>1, <1>7 DEF Has, Own
  <2> QED
    BY <2>1, <2>2 DEF Keeps, No, NoOwn, One, OneOwn
<1>16. /\ Keeps({"report"}) /\ Keeps({"caught"}) /\ Keeps({"reset"}) /\ Keeps({"close"})
       /\ Keeps({"sent"}) /\ Keeps(Closed) /\ Keeps(Answers) /\ Keeps({"realPrepareAccept"})
  <2>1. Closed \cap N = {} /\ Answers \cap N = {}
    BY DEF Closed, Answers
  <2> HIDE DEF Keeps
  <2> QED
    BY <1>15, <2>1
<1>17. One({"app"})' /\ AppsCurrent'
  <2>1. \A u \in Threads \ {t} : ~Has(u, {"app"})'
    BY <1>7, <1>14 DEF No, Has
  <2>2. Own(t)' /\ thr'[t].request = request'
    BY <1>1, <1>6, <1>7, <1>8 DEF Own
  <2> QED
    BY <2>1, <2>2 DEF One, AppsCurrent
<1>18. NoCurrentReport'
  <2> SUFFICES ASSUME NEW u \in Threads, Has(u, {"report"})' PROVE thr'[u].request # request'
    BY DEF NoCurrentReport
  <2>1. u # t
    BY <1>4, <1>6, <1>7 DEF Has
  <2>2. thr'[u].request \in Nat /\ thr'[u].request <= request
    BY <1>5, <1>7, <1>8, <2>1 DEF ThreadState, Shape
  <2> QED
    BY <1>5, <2>2
<1>19. Unasked'
  <2>1. No({"realPrepareAccept"})'
    BY <1>14, <1>16 DEF Keeps, No, Has, Prepares
  <2> QED
    BY <1>14, <2>1 DEF No, Unasked
<1>20. /\ NoOwn({"close"})' => OnlyCloser'
       /\ NoOwn({"sent"})' => OneOwn({"sent"})'
       /\ NoOwn({"reset"})' => OneOwn({"reset"})'
       /\ Awaiting'
  BY <1>14 DEF NoOwn, OnlyCloser, OneOwn, Awaiting
<1>21. ~waiting' /\ ~disconnected' /\ lastFinished' = "null"
  OBVIOUS
<1>22. Calling'
  BY <1>1, <1>11, <1>12, <1>13, <1>14, <1>16, <1>17, <1>18, <1>19, <1>20, <1>21 DEF Lone,
     Calling, Keeps, Done, NothingComes, Vacant
<1>23. Reporting'
  BY <1>1, <1>11, <1>12, <1>13, <1>14, <1>16, <1>17, <1>18, <1>19, <1>20, <1>21 DEF Lone,
     Reporting, Keeps, Done, NothingComes, Vacant
<1>24. Renewing'
  BY <1>1, <1>11, <1>12, <1>13, <1>14, <1>16, <1>17, <1>18, <1>19, <1>20, <1>21 DEF Lone,
     Renewing, Keeps, Done, NothingComes, Vacant
<1>25. Leaving'
  BY <1>1, <1>11, <1>12, <1>13, <1>14, <1>16, <1>17, <1>18, <1>19, <1>20, <1>21 DEF Lone,
     Leaving, Keeps, Done, NothingComes, Vacant
<1>26. Between'
  BY <1>1, <1>11, <1>12, <1>13, <1>14, <1>16, <1>17, <1>18, <1>19, <1>20, <1>21 DEF Lone,
     Between, Keeps, Done, NothingComes, Vacant
<1>27. Sending'
  BY <1>1, <1>11, <1>12, <1>13, <1>14, <1>16, <1>17, <1>18, <1>19, <1>20, <1>21 DEF Lone,
     Sending, Keeps, Done, NothingComes, Vacant
<1> QED
  BY <1>22, <1>23, <1>24, <1>25, <1>26, <1>27 DEF Lone

(* A region that answers an error goes on with what it was to do.           *)
LEMMA AnswerFrame ==
    ASSUME IInv, AppsInv, NEW t \in Threads, NEW q, At(t, q),
           q \in Arrivals \cup {"reenter", "next"},
           NEW rest \in Seq(Point), Orderly(rest), ~Passes(rest, Point \ Returns),
           SendsError(t, rest),
           request' \in Nat, request <= request', acceptCounter' = acceptCounter
    PROVE  /\ Shape' /\ Start' /\ UNCHANGED <<phase, slotReceiving, closing>>
           /\ Slot!MaySend => /\ slotSending' = TRUE /\ Acts(t, Returns)
                              /\ thr'[t].todo = rest /\ Quiet(Returns)
<1>1. Shape /\ Start /\ q \notin {"awaitApp", "realPrepareAccept"}
  BY DEF AppsInv, Arrivals
<1>2. UNCHANGED <<phase, slotReceiving, closing>>
  BY DEF SendsError, Slot!StartSend, slotVars
<1>3. \A P \in SUBSET Point : P \cap Returns = {} => ~Passes(rest, P)
  <2>1. \A P \in SUBSET Point : P \cap Returns = {} => P \subseteq Point \ Returns
    OBVIOUS
  <2> QED
    BY <2>1, PassesMore
<1>4. CASE Slot!MaySend
  <2>1. Goes(t, rest) /\ slotSending' = TRUE
    BY <1>4 DEF SendsError, Slot!StartSend
  <2> DEFINE N == Returns
  <2>2. \A P \in SUBSET Point : P \cap N = {} /\ Passes(rest, P) => Has(t, P)
    BY <1>3
  <2> HIDE DEF N
  <2>3. Shape' /\ Start' /\ Acts(t, N) /\ thr'[t].todo = rest /\ Quiet(N)
    BY <1>1, <2>1, <2>2, Frame
  <2> QED
    BY <1>2, <2>1, <2>3 DEF N
<1>5. CASE ~Slot!MaySend
  <2> DEFINE todo == <<"close">> \o rest
             N == Returns \cup {"close"}
  <2>1. "close" \in Point /\ "close" \notin Calls /\ ~Passes(rest, First)
    <3>1. First \subseteq Point \ Returns
      BY DEF First, Point, Returns
    <3> QED
      BY <3>1, PassesMore DEF Point, Calls
  <2>2. /\ todo \in Seq(Point) /\ Orderly(todo)
        /\ \A P : Passes(todo, P) <=> "close" \in P \/ Passes(rest, P)
    BY <2>1, LongerHead, OrderlyLonger, PassesLonger
  <2>3. Goes(t, todo)
    BY <1>5 DEF SendsError
  <2> HIDE DEF todo
  <2>4. \A P \in SUBSET Point : P \cap N = {} /\ Passes(todo, P) => Has(t, P)
    BY <1>3, <2>2
  <2> HIDE DEF N
  <2>5. Shape' /\ Start' /\ acceptCounter # 0 /\ Acts(t, N) /\ thr'[t].todo = todo
    BY <1>1, <2>2, <2>3, <2>4, Frame
  <2> QED
    BY <1>2, <1>5, <2>5
<1> QED
  BY <1>4, <1>5

LEMMA QuietReturns ==
    ASSUME Quiet(Returns)
    PROVE  /\ Keeps({"app"}) /\ Keeps({"report"}) /\ Keeps({"caught"}) /\ Keeps({"reset"})
           /\ Keeps({"close"}) /\ Keeps({"sent"})
           /\ Keeps(Closed) /\ Keeps(Answers) /\ Keeps(Arrivals)
  BY DEF Quiet, Returns, Closed, Answers, Arrivals

LEMMA ParseFailsApps ==
    ASSUME IInv, AppsInv, NEW t \in Threads, NEW q, At(t, q),
           q \in Arrivals \cup {"reenter", "next"},
           NEW rest \in Seq(Point), Orderly(rest), ~Passes(rest, Point \ Returns),
           NEW h \in Nat, NEW p, NEW r \in BOOLEAN, h > 0, request + h <= MaxRequests,
           waiting, ParseFails(t, rest, r), waiting' = FALSE, request' = request + 1,
           lastFinished' = "null", disconnected' = FALSE, strays \subseteq strays',
           tcsSend' = tcsSend, UNCHANGED <<after, connectionVars>>,
           Clean' => Entered(t, q, h, p, r)
    PROVE  AppsInv'
<1> USE DEF NoApps, NoSends
<1>1. /\ SendsError(t, rest) /\ lastPacket' /\ ~keepAlive'
      /\ UNCHANGED <<gone, clientClosed, disconnecting, acceptCounter>>
  <2>1. SendsError(t, rest) /\ RespondFailure("sendError", TRUE)
    BY DEF ParseFails
  <2>2. ~headersSent
    BY <2>1 DEF RespondFailure
  <2> QED
    BY <2>1, <2>2 DEF RespondFailure, connectionVars
<1>2. request' \in Nat /\ request <= request'
  BY ConstantsAssumption DEF IInv, Core, CoreTypes
<1>3. /\ Shape' /\ Start' /\ UNCHANGED <<phase, slotReceiving, closing>>
      /\ Slot!MaySend => /\ slotSending' = TRUE /\ Acts(t, Returns)
                         /\ thr'[t].todo = rest /\ Quiet(Returns)
  BY <1>1, <1>2, AnswerFrame
<1> SUFFICES ASSUME Clean' PROVE Lone'
  BY <1>3 DEF AppsInv
<1>4. Lone /\ Clean /\ Shape
  BY WasClean DEF AppsInv
<1>5. ~Vacant /\ ~NothingComes /\ ~gone
  BY <1>4, Comes
<1>6. ~lastPacket /\ ~disconnecting /\ NoOwn({"close"})
  BY <1>4, <1>5, WaitsForHead
<1>7. /\ NoApps /\ NoSends /\ ~slotSending /\ tcsSend = {}
      /\ NoOwn({"reset"}) /\ NoOwn({"caught"}) /\ NoOwn({"sent"}) /\ NoOwn(Closed)
      /\ phase = "open" /\ ~closing /\ ~after
      /\ \A u \in Threads : ~Prepares(thr[u].todo)
      /\ Slot!MaySend
  BY <1>4, <1>5, <1>6, Waits
<1>8. /\ slotSending' = TRUE /\ Acts(t, Returns) /\ Quiet(Returns)
  BY <1>3, <1>7
<1>9. /\ Keeps({"app"}) /\ Keeps({"report"}) /\ Keeps({"caught"}) /\ Keeps({"reset"})
      /\ Keeps({"close"}) /\ Keeps({"sent"})
      /\ Keeps(Closed) /\ Keeps(Answers) /\ Keeps(Arrivals)
  BY <1>8, QuietReturns
<1>10. Unasked'
  <2> DEFINE N == Returns
  <2>1. Acts(t, N) /\ "realPrepareAccept" \notin N /\ ~after'
    BY <1>7, <1>8 DEF Returns
  <2> HIDE DEF N
  <2> QED
    BY <1>7, <2>1, StaysUnasked
<1>11. /\ NoOwn({"close"})' => OnlyCloser'
       /\ NoOwn({"sent"})' => OneOwn({"sent"})'
       /\ NoOwn({"reset"})' => OneOwn({"reset"})'
       /\ Awaiting'
  BY <1>7 DEF NoOwn, OnlyCloser, OneOwn, Awaiting
<1>12. NoApps' => AppsCurrent'
  BY DEF No, AppsCurrent
<1>13. ~waiting' /\ ~disconnected' /\ lastFinished' = "null"
  OBVIOUS
<1>14. Calling'
  BY <1>1, <1>3, <1>4, <1>5, <1>6, <1>7, <1>8, <1>9, <1>10, <1>11, <1>12, <1>13 DEF Lone,
     Calling, Keeps, Done, NothingComes, Vacant
<1>15. Reporting'
  BY <1>1, <1>3, <1>4, <1>5, <1>6, <1>7, <1>8, <1>9, <1>10, <1>11, <1>12, <1>13 DEF Lone,
     Reporting, Keeps, Done, NothingComes, Vacant
<1>16. Renewing'
  BY <1>1, <1>3, <1>4, <1>5, <1>6, <1>7, <1>8, <1>9, <1>10, <1>11, <1>12, <1>13 DEF Lone,
     Renewing, Keeps, Done, NothingComes, Vacant
<1>17. Leaving'
  BY <1>1, <1>3, <1>4, <1>5, <1>6, <1>7, <1>8, <1>9, <1>10, <1>11, <1>12, <1>13 DEF Lone,
     Leaving, Keeps, Done, NothingComes, Vacant
<1>18. Between'
  BY <1>1, <1>3, <1>4, <1>5, <1>6, <1>7, <1>8, <1>9, <1>10, <1>11, <1>12, <1>13 DEF Lone,
     Between, Keeps, Done, NothingComes, Vacant
<1>19. Sending'
  BY <1>1, <1>3, <1>4, <1>5, <1>6, <1>7, <1>8, <1>9, <1>10, <1>11, <1>12, <1>13 DEF Lone,
     Sending, Keeps, Done, NothingComes, Vacant
<1> QED
  BY <1>14, <1>15, <1>16, <1>17, <1>18, <1>19 DEF Lone

LEMMA RefuseApps ==
    ASSUME IInv, AppsInv, NEW t \in Threads, NEW q, At(t, q),
           q \in Arrivals \cup {"reenter", "next"},
           NEW rest \in Seq(Point), Orderly(rest), ~Passes(rest, Point \ Returns),
           NEW r \in BOOLEAN, NEW late, ~r, waiting, RefuseLongHead(t, rest, r, late),
           UNCHANGED <<after, connectionVars>>,
           Clean' => Entered(t, q, 0, "full", r)
    PROVE  AppsInv'
<1> USE DEF NoApps, NoSends
<1>1. /\ SendsError(t, rest) /\ lastPacket' = TRUE /\ keepAlive' = FALSE /\ heads' = 0
      /\ partial' = "full" /\ ~receiving'
      /\ UNCHANGED <<gone, clientClosed, disconnecting, acceptCounter, after, waiting>>
      /\ UNCHANGED <<request, lastFinished, disconnected, tcsSend>>
      /\ strays \subseteq strays'
      /\ lastPacket \/ disconnecting \/ (\E u \in Threads : At(u, "close"))
            => "twice" \in strays'
  BY DEF RefuseLongHead, connectionVars, requestVars, owinVars
<1>2. request' \in Nat /\ request <= request'
  BY <1>1, RequestStays
<1>3. /\ Shape' /\ Start' /\ UNCHANGED <<phase, slotReceiving, closing>>
      /\ Slot!MaySend => /\ slotSending' = TRUE /\ Acts(t, Returns)
                         /\ thr'[t].todo = rest /\ Quiet(Returns)
  BY <1>1, <1>2, AnswerFrame
<1> SUFFICES ASSUME Clean' PROVE Lone'
  BY <1>3 DEF AppsInv
<1>4. Lone /\ Clean /\ Shape
  BY <1>1, WasClean DEF AppsInv
<1>5. /\ ~Vacant /\ ~gone
      /\ \A u \in Threads \ {t} : ~Has(u, Arrivals)
  <2> DEFINE h == 0
             p == "full"
  <2>1. h \in Nat /\ p = "full" /\ Entered(t, q, h, p, r)
    OBVIOUS
  <2> HIDE DEF h, p
  <2> QED
    BY <1>4, <2>1, Comes
<1>6. ~lastPacket /\ ~disconnecting /\ NoOwn({"close"})
  <2>1. \A u \in Threads : ~At(u, "close") /\ ~lastPacket /\ ~disconnecting
    BY <1>1 DEF Clean
  <2>2. ASSUME NEW u \in Threads, Has(u, {"close"}) PROVE FALSE
    <3> DEFINE todo == thr[u].todo
    <3>1. todo \in Seq(Point) /\ Orderly(todo) /\ Passes(todo, {"close"})
      BY <1>4, <2>2 DEF IInv, Core, ThreadsInv, Sound, Shape, Has
    <3> HIDE DEF todo
    <3>2. todo # <<>>
      BY <3>1, PassesNone
    <3>3. ~Passes(Tail(todo), {"close"})
      BY <3>1, <3>2, OrderlyRest, PassesMore DEF First
    <3>4. Head(todo) = "close"
      BY <3>1, <3>2, <3>3, PassesRest
    <3> QED
      BY <2>1, <3>2, <3>4 DEF At, todo
  <2> QED
    BY <2>1, <2>2 DEF NoOwn
<1>7. /\ NoApps /\ NoSends /\ ~slotSending /\ tcsSend = {}
      /\ lastFinished # "pending" /\ NoOwn({"reset"}) /\ NoOwn({"caught"})
      /\ NoOwn({"sent"}) /\ NoOwn(Closed)
      /\ lastFinished = "done" => NoOwn({"report"})
      /\ phase = "open" /\ ~closing /\ ~after
      /\ \A u \in Threads : ~Prepares(thr[u].todo)
      /\ Slot!MaySend
  BY <1>4, <1>5, <1>6, Waits
<1>8. /\ slotSending' = TRUE /\ Acts(t, Returns) /\ Quiet(Returns) /\ thr'[t].todo = rest
  BY <1>3, <1>7
<1>9. /\ Keeps({"app"}) /\ Keeps({"report"}) /\ Keeps({"caught"}) /\ Keeps({"reset"})
      /\ Keeps({"close"}) /\ Keeps({"sent"}) /\ Keeps(Closed) /\ Keeps(Answers)
  BY <1>8, QuietReturns
<1>10. Unasked'
  <2> DEFINE N == Returns
  <2>1. Acts(t, N) /\ "realPrepareAccept" \notin N /\ ~after'
    BY <1>1, <1>7, <1>8 DEF Returns
  <2> HIDE DEF N
  <2> QED
    BY <1>7, <2>1, StaysUnasked
<1>11. No(Arrivals)'
  <2>1. ~Has(t, Arrivals)'
    <3>1. Arrivals \subseteq Point \ Returns
      BY DEF Arrivals, Point, Returns
    <3>2. ~Passes(rest, Arrivals)
      BY <3>1, PassesMore
    <3> QED
      BY <1>8, <3>2 DEF Has
  <2>2. \A u \in Threads \ {t} : Has(u, Arrivals)' <=> Has(u, Arrivals)
    BY <1>8, ActsOwn
  <2> QED
    BY <1>5, <2>1, <2>2 DEF No
<1>12. /\ NoOwn({"close"})' => OnlyCloser'
       /\ NoOwn({"sent"})' => OneOwn({"sent"})'
       /\ NoOwn({"reset"})' => OneOwn({"reset"})'
       /\ Awaiting'
  BY <1>1, <1>7 DEF NoOwn, OnlyCloser, OneOwn, Awaiting
<1>13. NoApps' => AppsCurrent'
  BY DEF No, AppsCurrent
<1>14. NothingComes' /\ ~gone
  BY <1>1, <1>5, <1>11 DEF NothingComes
<1>15. Calling'
  BY <1>1, <1>3, <1>4, <1>6, <1>7, <1>8, <1>9, <1>10, <1>12, <1>13, <1>14 DEF Lone, Calling,
     Keeps, Done, NothingComes, Vacant
<1>16. Reporting'
  BY <1>1, <1>3, <1>4, <1>6, <1>7, <1>8, <1>9, <1>10, <1>12, <1>13, <1>14 DEF Lone, Reporting,
     Keeps, Done, NothingComes, Vacant
<1>17. Renewing'
  BY <1>1, <1>3, <1>4, <1>6, <1>7, <1>8, <1>9, <1>10, <1>12, <1>13, <1>14 DEF Lone, Renewing,
     Keeps, Done, NothingComes, Vacant
<1>18. Leaving'
  BY <1>1, <1>3, <1>4, <1>6, <1>7, <1>8, <1>9, <1>10, <1>12, <1>13, <1>14 DEF Lone, Leaving,
     Keeps, Done, NothingComes, Vacant
<1>19. Between'
  BY <1>1, <1>3, <1>4, <1>6, <1>7, <1>8, <1>9, <1>10, <1>12, <1>13, <1>14 DEF Lone, Between,
     Keeps, Done, NothingComes, Vacant
<1>20. Sending'
  BY <1>1, <1>3, <1>4, <1>6, <1>7, <1>8, <1>9, <1>10, <1>12, <1>13, <1>14 DEF Lone, Sending,
     Keeps, Done, NothingComes, Vacant
<1> QED
  BY <1>15, <1>16, <1>17, <1>18, <1>19, <1>20 DEF Lone

LEMMA LeaveApps ==
    ASSUME IInv, AppsInv, NEW t \in Threads, NEW q, At(t, q),
           q \in Arrivals \cup {"reenter", "next"},
           NEW rest \in Seq(Point), Orderly(rest), ~Passes(rest, Point \ Returns),
           NEW h \in Nat, NEW p, NEW r \in BOOLEAN, NEW late,
           ~(waiting /\ (h > 0 \/ p = "full")), Leave(t, rest, h, p, r, late),
           UNCHANGED <<after, connectionVars>>,
           Clean' => Entered(t, q, h, p, r)
    PROVE  AppsInv'
<1> USE DEF NoApps, NoSends
<1> DEFINE start == ((h = 0 /\ p = "none") \/ waiting) /\ ~r /\ ~clientClosed
           todo == Return(rest, start)
           N == Returns \cup {"checkStart", "startReceive"}
<1>1. /\ UNCHANGED <<phase, slotReceiving, slotSending, closing, gone, clientClosed>>
      /\ UNCHANGED <<disconnecting, acceptCounter, lastPacket, keepAlive, tcsSend, waiting>>
      /\ UNCHANGED <<request, lastFinished, disconnected, after>>
      /\ heads' = h /\ partial' = p /\ receiving' = (r \/ start)
      /\ Goes(t, todo) /\ strays \subseteq strays'
  BY DEF Leave, slotVars, connectionVars, responseVars, requestVars, owinVars
<1>3. p = "full" => ~start
  OBVIOUS
<1> HIDE DEF start
<1>4. /\ todo \in Seq(Point) /\ Orderly(todo)
      /\ \A P \in SUBSET Point : P \cap N = {} => ~Passes(todo, P)
  <2>1. todo \in {rest, <<"startReceive">>, <<"checkStart">>}
    BY DEF Return
  <2> HIDE DEF todo
  <2>2. \A P \in SUBSET Point : P \cap N = {} => P \subseteq Point \ Returns
    OBVIOUS
  <2>3. "startReceive" \in Point /\ "checkStart" \in Point
    BY DEF Point
  <2>4. \A P \in SUBSET Point : P \cap N = {} => ~Passes(rest, P)
    BY <2>2, PassesMore
  <2>5. CASE todo = rest
    BY <2>4, <2>5
  <2>6. CASE todo = <<"startReceive">>
    <3>1. /\ todo \in Seq(Point) /\ Orderly(todo)
          /\ \A P : Passes(todo, P) <=> "startReceive" \in P
      BY <2>3, <2>6, PassesOne, OrderlyOne
    <3> QED
      BY <3>1
  <2>7. CASE todo = <<"checkStart">>
    <3>1. /\ todo \in Seq(Point) /\ Orderly(todo)
          /\ \A P : Passes(todo, P) <=> "checkStart" \in P
      BY <2>3, <2>7, PassesOne, OrderlyOne
    <3> QED
      BY <3>1
  <2> QED
    BY <2>1, <2>5, <2>6, <2>7
<1> HIDE DEF todo
<1>5. Shape /\ Start /\ q \in Calls
      /\ q \notin {"awaitApp", "realPrepareAccept", "send", "await", "close", "app"}
  BY DEF AppsInv, Arrivals, Calls
<1>6. /\ Shape' /\ Start' /\ acceptCounter # 0 /\ Acts(t, N) /\ Quiet(N) /\ Related(q, N)
  <2>1. \A P \in SUBSET Point : P \cap N = {} /\ Passes(todo, P) => Has(t, P)
    BY <1>4
  <2>2. request' \in Nat /\ request <= request'
    BY <1>1, RequestStays
  <2> HIDE DEF N
  <2> QED
    BY <1>1, <1>4, <1>5, <2>1, <2>2, Frame
<1> SUFFICES ASSUME Clean' PROVE Lone'
  BY <1>6 DEF AppsInv
<1>7. Lone /\ Clean
  BY <1>1, WasClean
<1>8. /\ ~Vacant
      /\ gone => h = 0 /\ p # "full"
      /\ NothingComes => q \notin Arrivals
  BY <1>5, <1>7, Comes
<1>9. NothingComes => heads' = 0 /\ ((partial' = "full" /\ ~receiving') \/ gone)
  <2> SUFFICES ASSUME NothingComes 
                       PROVE  heads' = 0 /\ ((partial' = "full" /\ ~receiving') \/ gone)
    OBVIOUS
  <2>1. h = heads /\ p = partial /\ (r <=> receiving)
    BY <1>8 DEF Entered
  <2> QED
    BY <1>1, <1>3, <2>1 DEF NothingComes
<1>10. /\ Keeps({"app"}) /\ Keeps({"report"}) /\ Keeps({"caught"}) /\ Keeps({"reset"})
       /\ Keeps({"close"}) /\ Keeps({"sent"})
       /\ Keeps(Closed) /\ Keeps(Answers) /\ Keeps(Arrivals)
  BY <1>6 DEF Quiet, Returns, Closed, Answers, Arrivals
<1>11. /\ AppsCurrent => AppsCurrent'
       /\ NoCurrentReport => NoCurrentReport'
       /\ OnlyCloser => OnlyCloser'
       /\ Awaiting => Awaiting'
       /\ Closes => Closes'
       /\ Unasked => Unasked'
  <2>1. "app" \notin N /\ "report" \notin N /\ "close" \notin N /\ "realPrepareAccept" \notin N
    BY DEF Returns
  <2> QED
    BY <1>1, <1>5, <1>6, <2>1 DEF Related
<1>12. NoApps' => NoApps
  <2> HIDE DEF N
  <2> QED
    BY <1>5, <1>6, AppsStay DEF IInv
<1>13. /\ NothingComes => NothingComes'
       /\ Done => Done'
  BY <1>1, <1>9, <1>10 DEF NothingComes, Done, Keeps
<1>14. gone => heads' = 0 /\ partial' # "full"
  BY <1>1, <1>8
<1>15. /\ UNCHANGED <<phase, slotSending, closing, gone, clientClosed>>
       /\ UNCHANGED <<disconnecting, lastPacket, keepAlive, tcsSend, waiting>>
       /\ UNCHANGED <<lastFinished, disconnected>>
  BY <1>1
<1>16. /\ phase \in {"new", "accepting"} => FALSE
       /\ phase = "asked" => disconnecting /\ closing
  BY <1>7, <1>8 DEF Lone, Between
<1>17. Calling'
  BY <1>7, <1>10, <1>11, <1>12, <1>13, <1>14, <1>15, <1>16 DEF Lone, Calling, Keeps, Done,
     NothingComes, Vacant
<1>18. Reporting'
  BY <1>7, <1>10, <1>11, <1>12, <1>13, <1>14, <1>15, <1>16 DEF Lone, Reporting, Keeps, Done,
     NothingComes, Vacant
<1>19. Renewing'
  BY <1>7, <1>10, <1>11, <1>12, <1>13, <1>14, <1>15, <1>16 DEF Lone, Renewing, Keeps, Done,
     NothingComes, Vacant
<1>20. Leaving'
  BY <1>7, <1>10, <1>11, <1>12, <1>13, <1>14, <1>15, <1>16 DEF Lone, Leaving, Keeps, Done,
     NothingComes, Vacant
<1>21. Between'
  BY <1>7, <1>10, <1>11, <1>12, <1>13, <1>14, <1>15, <1>16 DEF Lone, Between, Keeps, Done,
     NothingComes, Vacant
<1>22. Sending'
  BY <1>7, <1>10, <1>11, <1>12, <1>13, <1>14, <1>15, <1>16 DEF Lone, Sending, Keeps, Done,
     NothingComes, Vacant
<1> QED
  BY <1>17, <1>18, <1>19, <1>20, <1>21, <1>22 DEF Lone

LEMMA RegionApps ==
    ASSUME IInv, AppsInv, NEW t \in Threads, NEW q, At(t, q),
           q \in Arrivals \cup {"reenter", "next"},
           NEW rest \in Seq(Point), Orderly(rest), ~Passes(rest, Point \ Returns),
           NEW h \in Nat, NEW p, NEW r \in BOOLEAN, NEW late,
           request + h <= MaxRequests, p = "full" => ~r,
           ProcessReceive(t, rest, h, p, r, late),
           UNCHANGED <<after, connectionVars>>,
           Clean' => Entered(t, q, h, p, r)
    PROVE  AppsInv'
<1>1. CASE waiting /\ h > 0 /\ ParseRequest(t, rest, h, p, r, late)
  <2>1. /\ waiting' = FALSE /\ request' = request + 1 /\ lastFinished' = "null"
        /\ disconnected' = FALSE /\ strays \subseteq strays' /\ tcsSend' = tcsSend
        /\ \/ Parse(t, rest, h, p, r)
           \/ ParseFails(t, rest, r)
    BY <1>1 DEF ParseRequest
  <2>2. CASE Parse(t, rest, h, p, r)
    BY <1>1, <2>1, <2>2, ParseApps
  <2>3. CASE ParseFails(t, rest, r)
    BY <1>1, <2>1, <2>3, ParseFailsApps
  <2> QED
    BY <2>1, <2>2, <2>3
<1>2. CASE waiting /\ h = 0 /\ p = "full" /\ RefuseLongHead(t, rest, r, late)
  <2>1. ~r /\ waiting /\ (Clean' => Entered(t, q, 0, "full", r))
    BY <1>2
  <2> QED
    BY <1>2, <2>1, RefuseApps
<1>3. CASE ~(waiting /\ (h > 0 \/ p = "full")) /\ Leave(t, rest, h, p, r, late)
  BY <1>3, LeaveApps
<1> QED
  BY <1>1, <1>2, <1>3 DEF ProcessReceive

(* What was received is processed, unless the next client is waited for.    *)
LEMMA SkipReceivedApps ==
    ASSUME IInv, AppsInv, NEW t \in Threads, NEW q \in Arrivals, At(t, q),
           receiving' = FALSE, Goes(t, <<"check">>),
           UNCHANGED <<slotVars, heads, partial, responseVars, requestVars, owinVars,
                       strays, after, connectionVars>>
    PROVE  AppsInv'
<1> USE DEF NoApps, NoSends
<1>1. /\ UNCHANGED <<phase, slotReceiving, slotSending, closing, gone, clientClosed>>
      /\ UNCHANGED <<disconnecting, acceptCounter, lastPacket, keepAlive, tcsSend, waiting>>
      /\ UNCHANGED <<request, lastFinished, disconnected, after, heads, partial, strays>>
  BY DEF slotVars, connectionVars, responseVars, requestVars, owinVars
<1>2. Shape /\ Start /\ q \in Calls /\ "check" \in Point
      /\ q \notin {"awaitApp", "realPrepareAccept", "send", "await", "close", "app"}
  BY DEF AppsInv, Arrivals, Calls, Point
<1>3. /\ Shape' /\ Start' /\ Acts(t, {"check"})
      /\ Quiet({"check"}) /\ Related(q, {"check"})
  BY <1>1, <1>2, FrameOne
<1> SUFFICES ASSUME Clean' PROVE Lone'
  BY <1>3 DEF AppsInv
<1>4. Lone /\ Clean
  BY <1>1, WasClean
<1>5. ~NothingComes
  <2>1. Has(t, Arrivals)
    BY <1>2, AtPoint DEF IInv
  <2> QED
    BY <2>1 DEF NothingComes, No
<1>6. /\ Keeps({"app"}) /\ Keeps({"report"}) /\ Keeps({"caught"}) /\ Keeps({"reset"})
      /\ Keeps({"close"}) /\ Keeps({"sent"})
      /\ Keeps(Closed) /\ Keeps(Answers) /\ Keeps(Arrivals)
  BY <1>3 DEF Quiet, Closed, Answers, Arrivals
<1>7. /\ AppsCurrent => AppsCurrent'
      /\ NoCurrentReport => NoCurrentReport'
      /\ OnlyCloser => OnlyCloser'
      /\ Awaiting => Awaiting'
      /\ Closes => Closes'
      /\ Unasked => Unasked'
      /\ NoneOwn => NoneOwn'
  BY <1>1, <1>2, <1>3 DEF Related
<1>8. NoApps' => NoApps
  BY <1>2, <1>3, AppsStay DEF IInv
<1>9. Done => Done'
  BY <1>1, <1>6 DEF Done, Keeps
<1>10. Calling'
  BY <1>1, <1>4, <1>5, <1>6, <1>7, <1>8, <1>9 DEF Lone, Calling, Keeps, Done, NothingComes,
     Vacant
<1>11. Reporting'
  BY <1>1, <1>4, <1>5, <1>6, <1>7, <1>8, <1>9 DEF Lone, Reporting, Keeps, Done, NothingComes,
     Vacant
<1>12. Renewing'
  BY <1>1, <1>4, <1>5, <1>6, <1>7, <1>8, <1>9 DEF Lone, Renewing, Keeps, Done, NothingComes,
     Vacant
<1>13. Leaving'
  BY <1>1, <1>4, <1>5, <1>6, <1>7, <1>8, <1>9 DEF Lone, Leaving, Keeps, Done, NothingComes,
     Vacant
<1>14. Between'
  BY <1>1, <1>4, <1>5, <1>6, <1>7, <1>8, <1>9 DEF Lone, Between, Keeps, Done, NothingComes,
     Vacant
<1>15. Sending'
  BY <1>1, <1>4, <1>5, <1>6, <1>7, <1>8, <1>9 DEF Lone, Sending, Keeps, Done, NothingComes,
     Vacant
<1> QED
  BY <1>10, <1>11, <1>12, <1>13, <1>14, <1>15 DEF Lone

LEMMA ProcessReceivedApps ==
    ASSUME IInv, AppsInv, NEW t \in Threads, ProcessReceived(t) PROVE AppsInv'
<1>1. PICK q \in Arrivals : At(t, q)
  BY DEF ProcessReceived, Runs, Arrivals
<1>2. UNCHANGED <<after, connectionVars>>
  BY DEF ProcessReceived
<1>3. CASE after
  BY <1>1, <1>2, <1>3, SkipReceivedApps DEF ProcessReceived
<1>4. CASE ~after
  <2> DEFINE rest == <<"check">>
             none == {}
             r == FALSE
  <2>1. PICK n \in 0..MaxRequests, brought \in Partial :
          /\ Arrives(n, brought)
          /\ ProcessReceive(t, rest, heads + n,
                            IF n = 0 /\ brought = "none" THEN partial ELSE brought, r, none)
    BY <1>4 DEF ProcessReceived
  <2> DEFINE p == IF n = 0 /\ brought = "none" THEN partial ELSE brought
             h == heads + n
  <2>2. ProcessReceive(t, rest, h, p, r, none)
    BY <2>1
  <2>3. h \in Nat /\ request + h <= MaxRequests
    BY <2>1, ConstantsAssumption DEF Arrives, IInv, Core, CoreTypes
  <2>4. rest \in Seq(Point) /\ Orderly(rest) /\ ~Passes(rest, Point \ Returns)
    <3>1. "check" \in Point /\ "check" \in Returns
      BY DEF Point, Returns
    <3> QED
      BY <3>1, PassesOne, OrderlyOne
  <2>5. r \in BOOLEAN /\ ~r
    OBVIOUS
  <2> HIDE DEF rest, none, r, p, h
  <2>6. Clean' => Entered(t, q, h, p, r)
    <3> SUFFICES ASSUME Clean' PROVE Entered(t, q, h, p, r)
      OBVIOUS
    <3>1. Clean
      BY <2>2, ProcessStrays DEF Clean
    <3>2. \A u \in Threads : Has(u, Arrivals) => Takes(thr[u].todo)
      BY PassesMore DEF Has, Takes, Arrivals, TakingPoints
    <3>3. Has(t, Arrivals)
      BY <1>1, AtPoint DEF IInv, AppsInv
    <3>4. receiving /\ \A u \in Threads \ {t} : ~Takes(thr[u].todo)
      BY <3>1, <3>2, <3>3, TakingAlone DEF IInv
    <3> QED
      BY <2>5, <3>2, <3>4 DEF Entered
  <2>7. q \in Arrivals \cup {"reenter", "next"} /\ (p = "full" => ~r)
    BY <2>5
  <2> QED
    BY <1>1, <1>2, <2>2, <2>3, <2>4, <2>5, <2>6, <2>7, RegionApps
<1> QED
  BY <1>3, <1>4

(* A thread of the present client enters the region.                        *)
LEMMA OwnRegionApps ==
    ASSUME IInv, AppsInv, NEW t \in Threads, NEW q \in {"reenter", "next"}, At(t, q),
           NEW rest \in Seq(Point), Orderly(rest), ~Passes(rest, Point \ Returns),
           NEW late, ProcessReceive(t, rest, heads, partial, receiving, late),
           UNCHANGED <<after, connectionVars>>,
           Clean' => Own(t)
    PROVE  AppsInv'
<1>1. /\ heads \in Nat /\ receiving \in BOOLEAN /\ request + heads <= MaxRequests
      /\ partial = "full" => ~receiving
  BY ConstantsAssumption DEF IInv, Core, CoreTypes, BufferInv
<1>2. Clean' => Entered(t, q, heads, partial, receiving)
  BY DEF Entered
<1>3. q \in Arrivals \cup {"reenter", "next"}
  OBVIOUS
<1> QED
  BY <1>1, <1>2, <1>3, RegionApps

LEMMA ReenterApps ==
    ASSUME IInv, AppsInv, NEW t \in Threads, Reenter(t) PROVE AppsInv'
<1>1. At(t, "reenter") /\ UNCHANGED <<after, connectionVars>>
  BY DEF Reenter, Runs
<1>2. Shape /\ Start /\ Core
  BY DEF AppsInv, IInv
<1>3. /\ Rest(t) \in Seq(Point) /\ Orderly(Rest(t)) /\ ~Passes(Rest(t), Point \ Returns)
      /\ Has(t, {"reenter"}) /\ "reenter" \in Point
  BY <1>1, <1>2, AtPoint DEF Calls
<1>4. CASE thr[t].accept # acceptCounter
  <2>1. Goes(t, Rest(t)) /\ UNCHANGED <<slotVars, receiving, heads, partial, responseVars,
                                        requestVars, owinVars, strays>>
    BY <1>4 DEF Reenter
  <2>2. Idly /\ strays' = strays /\ request' = request /\ acceptCounter' = acceptCounter
    BY <1>1, <2>1
    DEF Idly, slotVars, connectionVars, responseVars, requestVars, owinVars
  <2>3. /\ Shape' /\ Start' /\ Acts(t, {}) /\ thr'[t].todo = Rest(t)
        /\ Quiet({}) /\ Related("reenter", {})
    BY <1>1, <1>2, <2>1, <2>2, FrameRest
  <2>4. NoApps' => NoApps
    BY <1>1, <1>2, <2>3, AppsStay
  <2>5. ASSUME Clean' PROVE Lone'
    <3>1. Lone
      BY <2>2, <2>5, WasClean
    <3>2. {} \subseteq {"check", "checkStart", "startReceive"}
      OBVIOUS
    <3> QED
      BY <2>2, <2>3, <2>4, <3>1, <3>2, LoneStays
  <2> QED
    BY <2>3, <2>5 DEF AppsInv
<1>5. CASE thr[t].accept = acceptCounter
  <2> DEFINE rest == Rest(t)
             late == {}
  <2>1. ProcessReceive(t, rest, heads, partial, receiving, late)
    BY <1>5 DEF Reenter
  <2>2. acceptCounter # 0
    BY <1>2, <1>3, Started
  <2>3. Own(t)
    BY <1>5, <2>2 DEF Own
  <2> HIDE DEF late
  <2> QED
    BY <1>1, <1>3, <2>1, <2>3, OwnRegionApps
<1> QED
  BY <1>4, <1>5

LEMMA StartNextReceiveApps ==
    ASSUME IInv, AppsInv, NEW t \in Threads, StartNextReceive(t) PROVE AppsInv'
<1> DEFINE rest == <<>>
           late == Late(t, TRUE)
<1>1. /\ At(t, "next") /\ UNCHANGED <<after, connectionVars>>
      /\ ProcessReceive(t, rest, heads, partial, receiving, late)
  BY DEF StartNextReceive, Runs
<1>2. rest \in Seq(Point) /\ Orderly(rest) /\ ~Passes(rest, Point \ Returns)
  BY PassesNone, OrderlyNone
<1>3. acceptCounter # 0
  <2>1. Has(t, {"next"}) /\ "next" \in Point
    BY <1>1, AtPoint DEF IInv, AppsInv
  <2> QED
    BY <2>1, Started DEF AppsInv
<1>4. Late(t, TRUE) \subseteq strays'
  BY <1>1, ProcessStrays
<1>5. Clean' => Own(t)
  BY <1>3, <1>4, Later
<1> HIDE DEF rest, late
<1> QED
  BY <1>1, <1>2, <1>5, OwnRegionApps

----------------------------------------------------------------------------
(* Every step                                                              *)

LEMMA AppsStep == IInv /\ AppsInv /\ [Next]_vars => AppsInv'
<1> SUFFICES ASSUME IInv, AppsInv, [Next]_vars PROVE AppsInv'
  OBVIOUS
<1>1. CASE UNCHANGED vars
  <2> USE <1>1 DEF vars, slotVars, receiveVars, connectionVars, responseVars, requestVars,
          owinVars
  <2>1. Shape' /\ Start'
    BY DEF AppsInv, Shape, Start, Orderly, Has
  <2>2. /\ Keeps({"app"}) /\ Keeps({"report"}) /\ Keeps({"caught"}) /\ Keeps({"reset"})
        /\ Keeps({"close"}) /\ Keeps({"sent"})
        /\ Keeps(Closed) /\ Keeps(Answers) /\ Keeps(Arrivals)
    BY DEF Keeps, No, NoOwn, One, OneOwn, Has, Own
  <2>3. /\ AppsCurrent => AppsCurrent'
        /\ NoCurrentReport => NoCurrentReport'
        /\ OnlyCloser => OnlyCloser'
        /\ Awaiting => Awaiting'
        /\ Closes => Closes'
        /\ Unasked => Unasked'
        /\ NoneOwn => NoneOwn'
    BY DEF AppsCurrent, NoCurrentReport, OnlyCloser, Awaiting, Awaits, Closes, Unasked,
       NoneOwn, Has, Own
  <2>4. NoApps' => NoApps
    BY DEF NoApps, No, Has
  <2>5. UNCHANGED strays
    OBVIOUS
  <2>6. Idly
    BY DEF Idly
  <2>7. Quiet({}) /\ Related("check", {})
    BY <2>2, <2>3 DEF Quiet, Related
  <2>8. ASSUME Clean' PROVE Lone'
    <3>1. Lone
      BY <2>5, <2>8, WasClean
    <3>2. {} \subseteq {"check", "checkStart", "startReceive"}
      OBVIOUS
    <3> QED
      BY <2>4, <2>6, <2>7, <3>1, <3>2, LoneStays
  <2> QED
    BY <2>1, <2>8 DEF AppsInv
<1>2. CASE PrepareAccept \/ FinishAccept \/ FinishReceive \/ FinishReceiveClosed \/ FinishSend
  BY <1>2, PrepareAcceptApps, FinishAcceptApps, FinishReceiveApps,
     FinishReceiveClosedApps, FinishSendApps
<1>3. ASSUME NEW t \in Threads, Run(t) PROVE AppsInv'
  <2>1. CASE App(t)
    BY <2>1, AppContinuesLaterApps, AppFlushesApps, AppDisconnectsApps, AppEndsApps,
       AppThrowsApps DEF App
  <2>2. CASE \/ AppAwaited(t) \/ RealPrepareAccept(t) \/ ProcessReceived(t)
             \/ CheckAfter(t) \/ NoteClosed(t) \/ TellClosed(t)
    BY <2>2, AppAwaitedApps, RealPrepareAcceptApps, ProcessReceivedApps,
       CheckAfterApps, NoteClosedApps, TellClosedApps
  <2>3. CASE \/ StartReceive(t) \/ Reenter(t) \/ Report(t) \/ Caught(t)
             \/ StartSend(t) \/ StartSendError(t)
    BY <2>3, StartReceiveApps, ReenterApps, ReportApps, CaughtApps,
       StartSendApps, StartSendErrorApps
  <2>4. CASE \/ AfterSend(t) \/ ResetForNextRequest(t) \/ StartNextReceive(t)
             \/ CloseConnection(t)
    BY <2>4, AfterSendApps, ResetApps, StartNextReceiveApps, CloseApps
  <2> QED
    BY <1>3, <2>1, <2>2, <2>3, <2>4 DEF Run
<1> QED
  BY <1>1, <1>2, <1>3 DEF Next

LEMMA AppsInit == Init => AppsInv
<1> SUFFICES ASSUME Init PROVE AppsInv
  OBVIOUS
<1>1. /\ phase = "new" /\ slotReceiving = FALSE /\ slotSending = FALSE /\ closing = FALSE
      /\ gone = FALSE /\ receiving = FALSE /\ after = FALSE
      /\ clientClosed = FALSE /\ disconnecting = FALSE /\ waiting = FALSE
      /\ lastPacket = FALSE /\ tcsSend = {} /\ acceptCounter = 0 /\ request = 0
      /\ lastFinished = "null" /\ disconnected = FALSE
      /\ thr = [t \in Threads |-> Idle]
  BY DEF Init, Slot!Init
<1>2. \A t \in Threads : thr[t].todo = <<>> /\ thr[t].accept = 0 /\ thr[t].request = 0
  BY <1>1 DEF Idle
<1>3. \A t \in Threads : \A P : ~Has(t, P)
  BY <1>2, PassesNone DEF Has
<1>4. \A t \in Threads : ~Own(t)
  BY <1>1 DEF Own
<1>5. Shape
  BY <1>1, <1>2, OrderlyNone DEF Shape
<1>6. Start
  BY <1>1, <1>3 DEF Start
<1>7. \A P : No(P) /\ NoOwn(P) /\ One(P) /\ OneOwn(P)
  BY <1>3 DEF No, NoOwn, One, OneOwn
<1>8. /\ NoApps /\ NoSends /\ NoneOwn
  BY <1>4, <1>7 DEF NoApps, NoSends, NoneOwn
<1>9. AppsCurrent /\ NoCurrentReport /\ OnlyCloser /\ Unasked /\ Awaiting
  BY <1>1, <1>3 DEF AppsCurrent, NoCurrentReport, OnlyCloser, Unasked, Awaiting
<1>10. Lone
  BY <1>1, <1>7, <1>8, <1>9
  DEF Lone, Calling, Reporting, Renewing, Leaving, Between, Sending, Vacant
<1> QED
  BY <1>5, <1>6, <1>10 DEF AppsInv

LEMMA AppsInvHolds == Spec => []AppsInv
<1>1. AppsInv /\ IInv /\ [Next]_vars => AppsInv'
  BY AppsStep
<1> QED
  BY <1>1, AppsInit, IInvHolds, PTL DEF Spec

----------------------------------------------------------------------------
(* The theorems                                                            *)

(* An application is never called again before its last call has ended,     *)
(* not even for the slot's next client: HandleRequest calls it only when    *)
(* _waitingForRequest is set, and the next accept awaits the application    *)
(* that disconnected (PrepareAccept, _lastRequestFinished).                 *)
THEOREM AppsAreExclusive == Spec => []AppsExclusive
<1>1. AppsInv => AppsExclusive
  <2> SUFFICES ASSUME AppsInv, Clean PROVE Cardinality(Apps) <= 1
    BY DEF AppsExclusive
  <2>1. \A t, u \in Apps : t = u
    BY DEF AppsInv, Lone, Calling, One, Has, Apps
  <2>2. CASE Apps = {}
    BY <2>2, FS_EmptySet
  <2>3. CASE Apps # {}
    <3>1. PICK t : Apps = {t}
      BY <2>1, <2>3
    <3>2. Cardinality(Apps) = 1
      BY <3>1, FS_Singleton
    <3> QED
      BY <3>2
  <2> QED
    BY <2>2, <2>3
<1> QED
  BY <1>1, AppsInvHolds, PTL

(* When RealPrepareAccept has called StartAccept nothing of the last client *)
(* is left in the slot: no application, no receive, no awaited send, no     *)
(* close, and no accept that waits for a receive.                           *)
THEOREM SlotIsFresh == Spec => []FreshSlot
<1>1. IInv /\ AppsInv => FreshSlot
  <2> SUFFICES ASSUME IInv, AppsInv, Clean, phase = "accepting"
               PROVE  /\ ~receiving /\ ~slotReceiving /\ ~after
                      /\ ~clientClosed /\ ~disconnecting
                      /\ tcsSend = {} /\ Apps = {}
    BY DEF FreshSlot
  <2>1. Vacant /\ ~clientClosed /\ ~disconnecting /\ Awaiting
    BY DEF AppsInv, Lone, Between, Sending
  <2>2. \A t \in Threads : ~Has(t, {"app"})
    BY <2>1 DEF Vacant, NoApps, No
  <2>3. Apps = {}
    BY <2>2 DEF Apps, Has
  <2>4. tcsSend = {}
    <3>1. \A t \in tcsSend : t \in Threads /\ Has(t, {"app"})
      BY <2>1 DEF Awaiting, IInv, OtherTypes
    <3> QED
      BY <2>2, <3>1
  <2>5. ~receiving /\ ~slotReceiving /\ ~after
    BY <2>1 DEF Vacant, IInv, Core, ReceivingInv, PrepareInv
  <2> QED
    BY <2>1, <2>3, <2>4, <2>5
<1> QED
  BY <1>1, IInvHolds, AppsInvHolds, PTL

(* The steps that neither close, nor wait for a request, nor are refused.   *)
Harmless ==
    /\ closing' => closing
    /\ waiting' => waiting
    /\ strays \subseteq strays'
    /\ "unlawful" \in strays' => "unlawful" \in strays

Notable(t) ==
    \/ RealPrepareAccept(t) \/ StartReceive(t) \/ StartSend(t)
    \/ ResetForNextRequest(t) \/ CloseConnection(t)

LEMMA LateIsLawful == \A t, changed : "unlawful" \notin Late(t, changed)
  BY DEF Late

LEMMA AnswerHarmless ==
    ASSUME NEW t, NEW rest, SendsError(t, rest) PROVE closing' = closing
  BY DEF SendsError, slotVars, Slot!StartSend

LEMMA ProcessHarmless ==
    ASSUME NEW t, NEW rest, NEW h, NEW p, NEW r, NEW late,
           ProcessReceive(t, rest, h, p, r, late), "unlawful" \notin late
    PROVE  Harmless
<1>1. CASE ParseRequest(t, rest, h, p, r, late)
  <2>1. waiting' = FALSE /\ strays' = strays \cup late
    BY <1>1 DEF ParseRequest
  <2>2. Parse(t, rest, h, p, r) => closing' = closing
    BY DEF Parse, slotVars
  <2>3. ParseFails(t, rest, r) => closing' = closing
    BY AnswerHarmless DEF ParseFails
  <2> QED
    BY <1>1, <2>1, <2>2, <2>3 DEF ParseRequest, Harmless
<1>2. CASE RefuseLongHead(t, rest, r, late)
  <2>1. closing' = closing
    BY <1>2, AnswerHarmless DEF RefuseLongHead
  <2> QED
    BY <1>2, <2>1 DEF RefuseLongHead, requestVars, Harmless
<1>3. CASE Leave(t, rest, h, p, r, late)
  BY <1>3 DEF Leave, slotVars, requestVars, Harmless
<1> QED
  BY <1>1, <1>2, <1>3 DEF ProcessReceive

LEMMA HarmlessStep ==
    ASSUME [Next]_vars, ~FinishAccept, \A t \in Threads : ~Notable(t)
    PROVE  Harmless
<1> USE LateIsLawful DEF Harmless, slotVars, requestVars
<1>1. CASE UNCHANGED vars
  BY <1>1 DEF vars
<1>2. CASE PrepareAccept
  BY <1>2 DEF PrepareAccept, Slot!PrepareAccept
<1>3. CASE FinishReceive \/ FinishReceiveClosed
  BY <1>3 DEF FinishReceive, FinishReceiveClosed, Slot!FinishReceive
<1>4. CASE FinishSend
  BY <1>4 DEF FinishSend, Slot!FinishSend
<1>5. ASSUME NEW t \in Threads, Run(t) PROVE Harmless
  <2>1. CASE AppAwaited(t)
    BY <2>1 DEF AppAwaited
  <2>2. CASE ProcessReceived(t)
    BY <2>2, ProcessHarmless DEF ProcessReceived
  <2>3. CASE CheckAfter(t)
    BY <2>3 DEF CheckAfter
  <2>4. CASE NoteClosed(t)
    BY <2>4 DEF NoteClosed
  <2>5. CASE TellClosed(t)
    BY <2>5 DEF TellClosed
  <2>6. CASE Reenter(t)
    <3>1. "unlawful" \notin {}
      OBVIOUS
    <3> QED
      BY <2>6, <3>1, ProcessHarmless DEF Reenter
  <2>7. CASE App(t)
    <3>1. AppContinuesLater(t) => UNCHANGED <<slotVars, requestVars, strays>>
      BY DEF AppContinuesLater
    <3>2. AppFlushes(t) \/ AppDisconnects(t) => UNCHANGED <<slotVars, requestVars, strays>>
      BY DEF AppFlushes, AppDisconnects
    <3>3. AppEnds(t) \/ AppThrows(t) => UNCHANGED <<slotVars, waiting, strays>>
      BY DEF AppEnds, AppThrows
    <3>4. UNCHANGED <<closing, waiting, strays>>
      BY <2>7, <3>1, <3>2, <3>3 DEF App
    <3> QED
      BY <3>4
  <2>8. CASE Report(t)
    BY <2>8 DEF Report
  <2>9. CASE Caught(t)
    BY <2>9, AnswerHarmless DEF Caught
  <2>10. CASE StartSendError(t)
    BY <2>10, AnswerHarmless DEF StartSendError
  <2>11. CASE AfterSend(t)
    BY <2>11 DEF AfterSend
  <2>12. CASE StartNextReceive(t)
    BY <2>12, ProcessHarmless DEF StartNextReceive
  <2> QED
    BY <1>5, <2>1, <2>2, <2>3, <2>4, <2>5, <2>6, <2>7, <2>8, <2>9, <2>10, <2>11, <2>12
    DEF Run, Notable
<1> QED
  BY <1>1, <1>2, <1>3, <1>4, <1>5 DEF Next

(* The calls down of a behaviour without strays are ones the slot allows.   *)
LEMMA MayClose ==
    ASSUME IInv, AppsInv, Clean, NEW t \in Threads, At(t, "close"), ~disconnecting,
           thr[t].accept = acceptCounter
    PROVE  Slot!MayDisconnect /\ ~slotSending
<1>1. Has(t, {"close"}) /\ "close" \in Point
  BY AtPoint DEF IInv, AppsInv
<1>2. Own(t)
  BY <1>1, Started DEF Own, AppsInv
<1>3. ~Vacant /\ ~NoOwn({"close"})
  BY <1>1, <1>2 DEF Vacant, NoneOwn, NoOwn
<1>4. ~slotSending
  BY <1>3 DEF AppsInv, Lone, Leaving
<1>5. phase \in {"new", "asked", "accepting", "open"}
  BY DEF IInv, Core, CoreTypes, Slot!Phase
<1>6. phase = "open" /\ ~closing
  BY <1>3, <1>5 DEF AppsInv, Lone, Between
<1> QED
  BY <1>4, <1>6 DEF Slot!MayDisconnect

LEMMA MayTake ==
    ASSUME IInv, AppsInv, Clean, NEW t \in Threads, At(t, "startReceive")
    PROVE  Slot!MayReceive
<1>1. Takes(thr[t].todo)
  BY HeadOfTodo DEF At, TakingPoints, IInv, Core, ThreadsInv
<1>2. receiving /\ ~slotReceiving
  BY <1>1, TakingAlone DEF IInv
<1>3. ~Vacant
  BY <1>2 DEF Vacant
<1>4. phase \in {"new", "asked", "accepting", "open"}
  BY DEF IInv, Core, CoreTypes, Slot!Phase
<1> QED
  BY <1>2, <1>3, <1>4 DEF AppsInv, Lone, Between, Slot!MayReceive, Slot!Usable

LEMMA MayPrepare ==
    ASSUME IInv, Clean, NEW t \in Threads, At(t, "realPrepareAccept"), ~receiving
    PROVE  Slot!MayAccept
<1>1. Prepares(thr[t].todo)
  BY HeadOfTodo DEF At, IInv, Core, ThreadsInv
<1> QED
  BY <1>1 DEF IInv, Core, PrepareInv, ReceivingInv, Slot!MayAccept

(* A first call that is refused has been made by a thread of another client.*)
LEMMA LawfulStep == IInv /\ AppsInv /\ Lawful /\ [Next]_vars => Lawful'
<1> SUFFICES ASSUME IInv, AppsInv, Lawful, [Next]_vars, strays' = {"unlawful"} PROVE FALSE
  BY DEF Lawful
<1>1. CASE Harmless
  <2>1. "unlawful" \in strays
    BY <1>1 DEF Harmless
  <2>2. PICK s \in strays : s # "unlawful"
    BY <2>1 DEF Lawful
  <2> QED
    BY <1>1, <2>1, <2>2 DEF Harmless
<1>2. CASE FinishAccept
  BY <1>2 DEF FinishAccept, Lawful
<1>3. ASSUME NEW t \in Threads, Notable(t) PROVE FALSE
  <2>1. CASE RealPrepareAccept(t)
    <3>1. At(t, "realPrepareAccept") /\ strays \subseteq strays'
      BY <2>1 DEF RealPrepareAccept, Runs, CallDown
    <3>2. Clean
      BY <3>1 DEF Lawful, Clean
    <3>3. ~receiving => Slot!MayAccept
      BY <3>1, <3>2, MayPrepare
    <3> QED
      BY <2>1, <3>2, <3>3 DEF RealPrepareAccept, CallDown, Clean
  <2>2. CASE StartReceive(t)
    <3>1. At(t, "startReceive") /\ strays \subseteq strays'
      BY <2>2 DEF StartReceive, Runs, CallDown
    <3>2. Clean
      BY <3>1 DEF Lawful, Clean
    <3>3. Slot!MayReceive
      BY <3>1, <3>2, MayTake
    <3> QED
      BY <2>2, <3>2, <3>3 DEF StartReceive, CallDown, Clean
  <2>3. CASE StartSend(t)
    <3>1. At(t, "send") /\ strays \subseteq strays'
      BY <2>3 DEF StartSend, Runs, CallDown
    <3>2. Clean
      BY <3>1 DEF Lawful, Clean
    <3>3. Slot!MaySend
      BY <3>1, <3>2, Sends DEF AppsInv, Answers, Slot!MaySend, Slot!Usable
    <3> QED
      BY <2>3, <3>2, <3>3 DEF StartSend, CallDown, Clean
  <2>4. CASE ResetForNextRequest(t)
    BY <2>4, LateIsLawful DEF ResetForNextRequest, Lawful
  <2>5. CASE CloseConnection(t)
    <3>1. At(t, "close") /\ strays \subseteq strays'
      BY <2>5 DEF CloseConnection, Runs, CallDown
    <3>2. Clean
      BY <3>1 DEF Lawful, Clean
    <3>3. ~disconnecting /\ Late(t, TRUE) \subseteq strays'
      BY <2>5, <3>2 DEF CloseConnection, CallDown, Clean
    <3>4. thr[t].accept = acceptCounter
      BY <3>3 DEF Late
    <3>5. Slot!MayDisconnect
      BY <3>1, <3>2, <3>3, <3>4, MayClose
    <3> QED
      BY <2>5, <3>2, <3>3, <3>4, <3>5 DEF CloseConnection, CallDown, Clean, Late
  <2> QED
    BY <1>3, <2>1, <2>2, <2>3, <2>4, <2>5 DEF Notable
<1> QED
  BY <1>1, <1>2, <1>3, HarmlessStep

(* Every call down that the slot forbids (a second StartSend, a receive     *)
(* during an accept, a second StartDisconnect) has another stray effect as  *)
(* its cause: the checks of TransportSlot hold while each thread acts for   *)
(* the client it was started for.                                           *)
THEOREM CallsAreLawful == Spec => []Lawful
<1>1. Init => Lawful
  BY DEF Init, Lawful
<1> QED
  BY <1>1, LawfulStep, IInvHolds, AppsInvHolds, PTL DEF Spec

LEMMA UncutStep ==
    ASSUME IInv, AppsInv, [Next]_vars, Clean',
           (~closing /\ closing') \/ (~waiting /\ waiting')
    PROVE  ~slotSending
<1>1. ~Harmless
  BY DEF Harmless
<1>2. CASE FinishAccept
  <2>1. Clean /\ phase = "accepting"
    BY <1>2 DEF FinishAccept, Slot!FinishAccept, Clean
  <2> QED
    BY <2>1 DEF IInv, Core, AcceptingInv
<1>3. ASSUME NEW t \in Threads, Notable(t) PROVE ~slotSending
  <2>1. CASE RealPrepareAccept(t) \/ StartReceive(t) \/ StartSend(t)
    <3>1. waiting' = waiting
      BY <2>1 DEF RealPrepareAccept, StartReceive, StartSend, requestVars
    <3>2. closing' = closing \/ closing' = FALSE
      BY <2>1 DEF RealPrepareAccept, StartReceive, StartSend, CallDown, slotVars,
         Slot!StartAccept, Slot!StartReceive, Slot!StartSend
    <3> QED
      BY <3>1, <3>2
  <2>2. CASE ResetForNextRequest(t)
    <3>1. At(t, "reset") /\ Late(t, TRUE) \subseteq strays' /\ strays \subseteq strays'
      BY <2>2 DEF ResetForNextRequest, Runs
    <3>2. Clean
      BY <3>1 DEF Clean
    <3>3. Has(t, {"reset"}) /\ "reset" \in Point
      BY <3>1, AtPoint DEF IInv, AppsInv
    <3>4. Own(t)
      BY <3>1, <3>3, Later, Started DEF AppsInv
    <3> QED
      BY <3>2, <3>3, <3>4 DEF AppsInv, Lone, Renewing, NoOwn
  <2>3. CASE CloseConnection(t)
    <3>1. At(t, "close") /\ strays \subseteq strays' /\ waiting' = waiting
      BY <2>3 DEF CloseConnection, Runs, CallDown, requestVars
    <3>2. Clean
      BY <3>1 DEF Clean
    <3>3. ~disconnecting /\ Late(t, TRUE) \subseteq strays'
      BY <2>3, <3>1 DEF CloseConnection, CallDown, slotVars
    <3>4. thr[t].accept = acceptCounter
      BY <3>3 DEF Late, Clean
    <3> QED
      BY <3>1, <3>2, <3>3, <3>4, MayClose
  <2> QED
    BY <1>3, <2>1, <2>2, <2>3 DEF Notable
<1> QED
  BY <1>1, <1>2, <1>3, HarmlessStep

(* StartDisconnect is not called, and the next request not waited for,      *)
(* while a part of the response is still to be sent: CloseConnection and    *)
(* ResetForNextRequest come after FinishSend of the last packet.            *)
THEOREM ResponsesAreUncut == Spec => Uncut
<1>1. IInv /\ AppsInv /\ [Next]_vars =>
        [(~closing /\ closing') \/ (~waiting /\ waiting')
            => ~slotSending \/ strays' # {}]_vars
  BY UncutStep DEF Clean
<1> QED
  BY <1>1, IInvHolds, AppsInvHolds, PTL DEF Spec, Uncut

=============================================================================
