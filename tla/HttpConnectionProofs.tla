------------------------ MODULE HttpConnectionProofs ------------------------
(***************************************************************************)
(* What is proved of HttpConnection, for every set of threads, operations  *)
(* of the application and number of clients, requests and strays: its      *)
(* types, that _receiving tells exactly who may use the receive buffer,    *)
(* and that the buffer is still while a receive is outstanding.            *)
(***************************************************************************)
EXTENDS HttpConnection, FiniteSetTheorems, SequenceTheorems, TLAPS

----------------------------------------------------------------------------
(* What threads have still to pass                                         *)

TakingPoints == {"accepted", "received", "checkStart", "startReceive"}
Takes(todo) == Passes(todo, TakingPoints)
Prepares(todo) == Passes(todo, {"realPrepareAccept"})

(* A thread that takes what was received does so in its next step.          *)
Sound(todo) ==
    /\ todo \in Seq(Point)
    /\ \A i \in 2..Len(todo) : todo[i] \notin TakingPoints

(* The step from old to new changes nothing in what others rely on.         *)
Steady(old, new) ==
    /\ Sound(new)
    /\ Takes(new) <=> Takes(old)
    /\ Prepares(new) => Prepares(old)

LEMMA EmptyTodo == Sound(<<>>) /\ ~Takes(<<>>) /\ ~Prepares(<<>>)
  BY DEF Sound, Takes, Prepares, Passes

LEMMA HeadOfTodo ==
    ASSUME NEW todo, Sound(todo), todo # <<>>
    PROVE  /\ Head(todo) \in Point
           /\ Takes(todo) <=> Head(todo) \in TakingPoints
           /\ Head(todo) = "realPrepareAccept" => Prepares(todo)
  BY DEF Sound, Takes, Prepares, Passes

LEMMA RestOfTodo ==
    ASSUME NEW todo, Sound(todo), todo # <<>>
    PROVE  /\ Sound(Tail(todo))
           /\ ~Takes(Tail(todo))
           /\ Prepares(Tail(todo)) => Prepares(todo)
<1> DEFINE rest == Tail(todo)
<1>1. /\ todo \in Seq(Point) /\ Len(todo) \in Nat \ {0}
      /\ \A i \in 2..Len(todo) : todo[i] \notin TakingPoints
  BY DEF Sound
<1>2. rest \in Seq(Point) /\ Len(rest) = Len(todo) - 1
      /\ \A i \in 1..Len(rest) : rest[i] = todo[i + 1]
  BY <1>1
<1> HIDE DEF rest
<1>3. \A i \in 1..Len(rest) : rest[i] \notin TakingPoints
  <2> SUFFICES ASSUME NEW i \in 1..Len(rest) PROVE rest[i] \notin TakingPoints
    OBVIOUS
  <2>1. i + 1 \in 2..Len(todo) /\ rest[i] = todo[i + 1]
    BY <1>1, <1>2
  <2> QED
    BY <1>1, <2>1
<1>4. Prepares(rest) => Prepares(todo)
  <2> SUFFICES ASSUME NEW i \in 1..Len(rest), rest[i] = "realPrepareAccept"
               PROVE  \E j \in 1..Len(todo) : todo[j] = "realPrepareAccept"
    BY DEF Prepares, Passes
  <2>1. i + 1 \in 1..Len(todo) /\ todo[i + 1] = "realPrepareAccept"
    BY <1>1, <1>2
  <2> QED
    BY <2>1
<1>5. 2..Len(rest) \subseteq 1..Len(rest)
  BY <1>1, <1>2
<1>6. Sound(rest) /\ ~Takes(rest)
  BY <1>2, <1>3, <1>5 DEF Sound, Takes, Passes
<1> QED
  BY <1>4, <1>6 DEF rest

LEMMA LongerTodo ==
    ASSUME NEW rest, Sound(rest), ~Takes(rest), NEW p \in Point
    PROVE  /\ Sound(<<p>> \o rest)
           /\ Takes(<<p>> \o rest) <=> p \in TakingPoints
           /\ Prepares(<<p>> \o rest) <=> p = "realPrepareAccept" \/ Prepares(rest)
<1> DEFINE todo == <<p>> \o rest
<1>1. rest \in Seq(Point) /\ Len(rest) \in Nat
      /\ \A i \in 1..Len(rest) : rest[i] \notin TakingPoints
  BY DEF Sound, Takes, Passes
<1>2. /\ todo \in Seq(Point) /\ Len(todo) = Len(rest) + 1
      /\ todo[1] = p
      /\ \A i \in 2..Len(todo) : todo[i] = rest[i - 1]
  BY <1>1
<1> HIDE DEF todo
<1>3. \A i \in 2..Len(todo) : i - 1 \in 1..Len(rest)
  BY <1>1, <1>2
<1>4. \A i \in 2..Len(todo) : todo[i] \notin TakingPoints
  BY <1>1, <1>2, <1>3
<1>5. Sound(todo)
  BY <1>2, <1>4 DEF Sound
<1>6. todo # <<>> /\ Head(todo) = p
  BY <1>1, <1>2
<1>7. Takes(todo) <=> p \in TakingPoints
  BY <1>5, <1>6, HeadOfTodo
<1>8. p = "realPrepareAccept" => Prepares(todo)
  BY <1>5, <1>6, HeadOfTodo
<1>9. Prepares(rest) => Prepares(todo)
  <2> SUFFICES ASSUME NEW i \in 1..Len(rest), rest[i] = "realPrepareAccept"
               PROVE  \E j \in 1..Len(todo) : todo[j] = "realPrepareAccept"
    BY DEF Prepares, Passes
  <2>1. i + 1 \in 2..Len(todo) /\ (i + 1) - 1 = i
    BY <1>1, <1>2
  <2>2. i + 1 \in 1..Len(todo) /\ todo[i + 1] = "realPrepareAccept"
    BY <1>1, <1>2, <2>1
  <2> QED
    BY <2>2
<1>10. Prepares(todo) => p = "realPrepareAccept" \/ Prepares(rest)
  <2> SUFFICES ASSUME NEW i \in 1..Len(todo), todo[i] = "realPrepareAccept", i # 1
               PROVE  Prepares(rest)
    BY <1>2 DEF Prepares, Passes
  <2>1. i \in 2..Len(todo)
    BY <1>1, <1>2
  <2>2. i - 1 \in 1..Len(rest) /\ rest[i - 1] = "realPrepareAccept"
    BY <1>2, <1>3, <2>1
  <2> QED
    BY <2>2 DEF Prepares, Passes
<1> QED
  BY <1>5, <1>7, <1>8, <1>9, <1>10 DEF todo

LEMMA SingleTodo ==
    ASSUME NEW p \in Point
    PROVE  /\ Sound(<<p>>)
           /\ Takes(<<p>>) <=> p \in TakingPoints
           /\ Prepares(<<p>>) <=> p = "realPrepareAccept"
<1>1. <<p>> \in Seq(Point)
  OBVIOUS
<1>2. <<p>> = <<p>> \o <<>>
  BY <1>1, ConcatEmptySeq
<1> QED
  <2>1. /\ Sound(<<p>> \o <<>>)
        /\ Takes(<<p>> \o <<>>) <=> p \in TakingPoints
        /\ Prepares(<<p>> \o <<>>) <=> p = "realPrepareAccept" \/ Prepares(<<>>)
    BY EmptyTodo, LongerTodo
  <2> QED
    BY <1>2, <2>1, EmptyTodo

LEMMA PairIsConcat ==
    ASSUME NEW p \in Point, NEW q \in Point PROVE <<p, q>> = <<p>> \o <<q>>
<1> DEFINE both == <<p>> \o <<q>>
<1>1. <<p>> \in Seq(Point) /\ <<q>> \in Seq(Point) /\ <<p, q>> \in Seq(Point)
  OBVIOUS
<1>2. both \in Seq(Point) /\ Len(both) = 2 /\ both[1] = p /\ both[2] = q
  BY <1>1, ConcatProperties
<1>3. Len(<<p, q>>) = 2 /\ <<p, q>>[1] = p /\ <<p, q>>[2] = q
  OBVIOUS
<1> HIDE DEF both
<1>4. both = <<p, q>>
  BY <1>1, <1>2, <1>3, SeqEqual
<1> QED
  BY <1>4 DEF both

LEMMA PairTodo ==
    ASSUME NEW p \in Point, NEW q \in Point \ TakingPoints
    PROVE  /\ Sound(<<p, q>>)
           /\ Takes(<<p, q>>) <=> p \in TakingPoints
           /\ Prepares(<<p, q>>) <=> p = "realPrepareAccept" \/ q = "realPrepareAccept"
<1>1. <<p, q>> = <<p>> \o <<q>>
  BY PairIsConcat
<1>2. Sound(<<q>>) /\ ~Takes(<<q>>) /\ (Prepares(<<q>>) <=> q = "realPrepareAccept")
  BY SingleTodo
<1>3. /\ Sound(<<p>> \o <<q>>)
      /\ Takes(<<p>> \o <<q>>) <=> p \in TakingPoints
      /\ Prepares(<<p>> \o <<q>>) <=> p = "realPrepareAccept" \/ Prepares(<<q>>)
  BY <1>2, LongerTodo
<1> QED
  BY <1>1, <1>2, <1>3

LEMMA PairOnIsConcat ==
    ASSUME NEW rest \in Seq(Point), NEW p \in Point, NEW q \in Point
    PROVE  <<p, q>> \o rest = <<p>> \o (<<q>> \o rest)
<1>1. <<p>> \in Seq(Point) /\ <<q>> \in Seq(Point)
  OBVIOUS
<1>2. <<p, q>> = <<p>> \o <<q>>
  BY PairIsConcat
<1> QED
  BY <1>1, <1>2, ConcatAssociative

LEMMA PairOnTodo ==
    ASSUME NEW rest, Sound(rest), ~Takes(rest),
           NEW p \in Point, NEW q \in Point \ TakingPoints
    PROVE  /\ Sound(<<p, q>> \o rest)
           /\ Takes(<<p, q>> \o rest) <=> p \in TakingPoints
           /\ Prepares(<<p, q>> \o rest) <=>
                p = "realPrepareAccept" \/ q = "realPrepareAccept" \/ Prepares(rest)
<1> DEFINE more == <<q>> \o rest
<1>1. Sound(more) /\ ~Takes(more)
      /\ (Prepares(more) <=> q = "realPrepareAccept" \/ Prepares(rest))
  BY LongerTodo
<1>2. <<p, q>> \o rest = <<p>> \o more
  BY PairOnIsConcat DEF Sound
<1> HIDE DEF more
<1> QED
  BY <1>1, <1>2, LongerTodo

LEMMA ResumedTodo ==
    ASSUME NEW todo, Sound(todo)
    PROVE  Steady(todo, Resumed(todo))
<1>1. CASE ~Passes(todo, {"await"})
  BY <1>1 DEF Resumed, Steady
<1>2. CASE Passes(todo, {"await"})
  <2>1. PICK i \in 1..Len(todo) : todo[i] = "await"
    BY <1>2 DEF Passes
  <2>2. todo \in Seq(Point) /\ todo # <<>>
    BY <2>1 DEF Sound
  <2>3. CASE Head(todo) = "await"
    <3>1. Resumed(todo) = Tail(todo)
      BY <1>2, <2>3 DEF Resumed
    <3>2. ~Takes(todo)
      BY <2>2, <2>3, HeadOfTodo DEF TakingPoints
    <3> QED
      BY <2>2, <3>1, <3>2, RestOfTodo DEF Steady
  <2>4. CASE Head(todo) # "await"
    <3> DEFINE rest == Tail(todo)
               more == Tail(rest)
               p == Head(todo)
    <3>1. Resumed(todo) = <<p>> \o more
      BY <1>2, <2>4 DEF Resumed
    <3>2. i # 1
      BY <2>1, <2>2, <2>4
    <3>3. rest # <<>>
      BY <2>1, <2>2, <3>2
    <3>4. Sound(rest) /\ ~Takes(rest) /\ (Prepares(rest) => Prepares(todo))
      BY <2>2, RestOfTodo
    <3>5. Sound(more) /\ ~Takes(more) /\ (Prepares(more) => Prepares(rest))
      BY <3>3, <3>4, RestOfTodo
    <3>6. p \in Point /\ (Takes(todo) <=> p \in TakingPoints)
          /\ (p = "realPrepareAccept" => Prepares(todo))
      BY <2>2, HeadOfTodo
    <3> HIDE DEF rest, more, p
    <3>7. /\ Sound(<<p>> \o more)
          /\ Takes(<<p>> \o more) <=> p \in TakingPoints
          /\ Prepares(<<p>> \o more) <=> p = "realPrepareAccept" \/ Prepares(more)
      BY <3>5, <3>6, LongerTodo
    <3> QED
      BY <3>1, <3>4, <3>5, <3>6, <3>7 DEF Steady
  <2> QED
    BY <2>3, <2>4
<1> QED
  BY <1>1, <1>2

----------------------------------------------------------------------------
(* The inductive invariant                                                 *)

ThreadState == [todo : Seq(Point), accept : 0..(MaxAccepts + 1),
                request : 0..MaxRequests]

(* The types of what the argument is about, and of the rest.                *)
CoreTypes ==
    /\ phase \in Slot!Phase
    /\ slotReceiving \in BOOLEAN /\ slotSending \in BOOLEAN
    /\ receiving \in BOOLEAN /\ after \in BOOLEAN /\ waiting \in BOOLEAN
    /\ heads \in 0..MaxRequests /\ partial \in Partial
    /\ acceptCounter \in 0..(MaxAccepts + 1)
    /\ request \in 0..MaxRequests
    /\ thr \in [Threads -> ThreadState]
    /\ strays \subseteq Stray

OtherTypes ==
    /\ closing \in BOOLEAN /\ gone \in BOOLEAN /\ clientClosed \in BOOLEAN
    /\ disconnecting \in BOOLEAN /\ keepAlive \in BOOLEAN
    /\ headersSent \in BOOLEAN /\ lastPacket \in BOOLEAN
    /\ cancelled \in BOOLEAN /\ disconnected \in BOOLEAN
    /\ tcsSend \subseteq Threads
    /\ lastFinished \in {"null", "pending", "done"}

ThreadsInv ==
    \A t \in Threads : Sound(thr[t].todo) /\ thr[t].accept <= acceptCounter

(* One thread, or the end of the outstanding receive, prepares the next     *)
(* accept, and only of a slot that was asked to.                            *)
PrepareInv ==
    /\ \A t, u \in Threads : Prepares(thr[t].todo) /\ Prepares(thr[u].todo) => t = u
    /\ after => \A t \in Threads : ~Prepares(thr[t].todo)
    /\ after \/ (\E t \in Threads : Prepares(thr[t].todo)) =>
          phase = "asked" /\ acceptCounter <= MaxAccepts
    /\ phase \in {"new", "open"} => acceptCounter <= MaxAccepts

(* What the buffer holds while _receiving is set.                           *)
BufferInv ==
    /\ request + heads <= MaxRequests
    /\ receiving => /\ heads = 0 /\ partial # "full"
                    /\ partial = "some" => waiting

(* While a client is waited for, no thread acts for it yet.                 *)
AcceptingInv ==
    phase = "accepting" =>
        /\ acceptCounter > 0 /\ ~receiving /\ ~slotSending
        /\ \A t \in Threads : thr[t].accept < acceptCounter

ReceivingInv ==
    /\ receiving <=> slotReceiving \/ \E t \in Threads : Takes(thr[t].todo)
    /\ slotReceiving => \A t \in Threads : ~Takes(thr[t].todo)
    /\ \A t, u \in Threads : Takes(thr[t].todo) /\ Takes(thr[u].todo) => t = u

Core ==
    /\ CoreTypes /\ ThreadsInv /\ PrepareInv /\ BufferInv
    /\ Clean => AcceptingInv /\ ReceivingInv

IInv == Core /\ OtherTypes

----------------------------------------------------------------------------
(* Steps of threads                                                        *)

LEMMA ThreadFacts ==
    ASSUME NEW todo \in Seq(Point), NEW a \in 0..(MaxAccepts + 1),
           NEW r \in 0..MaxRequests
    PROVE  /\ Thread(todo, a, r) \in ThreadState
           /\ Thread(todo, a, r).todo = todo
           /\ Thread(todo, a, r).accept \in {0, a}
  BY ConstantsAssumption DEF Thread, ThreadState

(* One thread goes on with todo, for the client it had or for none.         *)
Moves(t, todo) ==
    /\ thr' \in [Threads -> ThreadState]
    /\ thr'[t].todo = todo
    /\ thr'[t].accept \in {0, thr[t].accept}
    /\ \A u \in Threads \ {t} : thr'[u] = thr[u]

LEMMA GoesMoves ==
    ASSUME CoreTypes, NEW t \in Threads, NEW todo \in Seq(Point), Goes(t, todo)
    PROVE  Moves(t, todo)
<1> DEFINE new == Thread(todo, thr[t].accept, thr[t].request)
<1>1. thr \in [Threads -> ThreadState]
  BY DEF CoreTypes
<1>2. thr[t].accept \in 0..(MaxAccepts + 1) /\ thr[t].request \in 0..MaxRequests
  BY <1>1 DEF ThreadState
<1>3. new \in ThreadState /\ new.todo = todo /\ new.accept \in {0, thr[t].accept}
  BY <1>2, ThreadFacts
<1>4. thr' = [thr EXCEPT ![t] = new]
  BY DEF Goes
<1> HIDE DEF new
<1> QED
  BY <1>1, <1>3, <1>4 DEF Moves

(* A free thread begins, for the present client or for none.                *)
LEMMA BeginsMoves ==
    ASSUME CoreTypes, NEW t \in Threads, NEW todo \in Seq(Point), Begins(t, todo)
    PROVE  /\ thr' \in [Threads -> ThreadState]
           /\ thr'[t].todo = todo
           /\ thr'[t].accept \in {0, acceptCounter}
           /\ \A u \in Threads \ {t} : thr'[u] = thr[u]
<1> DEFINE new == Thread(todo, acceptCounter, request)
<1>1. thr \in [Threads -> ThreadState]
  BY DEF CoreTypes
<1>2. acceptCounter \in 0..(MaxAccepts + 1) /\ request \in 0..MaxRequests
  BY DEF CoreTypes
<1>3. new \in ThreadState /\ new.todo = todo /\ new.accept \in {0, acceptCounter}
  BY <1>2, ThreadFacts
<1>4. thr' = [thr EXCEPT ![t] = new]
  BY DEF Begins
<1> HIDE DEF new
<1> QED
  BY <1>1, <1>3, <1>4

(* The types of what the argument is about, where a step leaves the rest.   *)
LEMMA AcceptIsNumber ==
    ASSUME CoreTypes, NEW t \in Threads
    PROVE  thr[t].accept \in Nat /\ acceptCounter \in Nat
  BY ConstantsAssumption DEF CoreTypes, ThreadState

(* What all quiet steps leave to the threads.                               *)
LeavesRest ==
    /\ UNCHANGED <<phase, slotReceiving, receiving, heads, partial,
                   acceptCounter, request>>
    /\ waiting => waiting'
    /\ after' => after
    /\ slotSending' => slotSending \/ phase # "accepting"
    /\ strays \subseteq strays'

LEMMA ThreadsKeep ==
    ASSUME Core, CoreTypes', LeavesRest,
           \A u \in Threads : Steady(thr[u].todo, thr'[u].todo),
           \A u \in Threads :
              \/ \E v \in Threads : thr'[u].accept \in {0, thr[v].accept}
              \/ thr'[u].accept = acceptCounter /\ ~(phase = "accepting" /\ Clean)
    PROVE  Core'
<1>1. \A u \in Threads : /\ Sound(thr'[u].todo)
                         /\ Takes(thr'[u].todo) <=> Takes(thr[u].todo)
                         /\ Prepares(thr'[u].todo) => Prepares(thr[u].todo)
  BY DEF Steady
<1>2. CoreTypes /\ ThreadsInv /\ PrepareInv /\ BufferInv
      /\ (Clean => AcceptingInv /\ ReceivingInv)
  BY DEF Core
<1>3. ThreadsInv'
  <2> SUFFICES ASSUME NEW u \in Threads PROVE thr'[u].accept <= acceptCounter
    BY <1>1 DEF ThreadsInv, LeavesRest
  <2>1. CASE thr'[u].accept = acceptCounter
    BY <1>2, <2>1, AcceptIsNumber
  <2>2. ASSUME NEW v \in Threads, thr'[u].accept \in {0, thr[v].accept}
        PROVE  thr'[u].accept <= acceptCounter
    BY <1>2, <2>2, AcceptIsNumber DEF ThreadsInv
  <2> QED
    BY <2>1, <2>2
<1>4. PrepareInv'
  BY <1>1, <1>2 DEF PrepareInv, LeavesRest
<1>5. BufferInv'
  BY <1>2 DEF BufferInv, LeavesRest
<1>6. ASSUME Clean' PROVE AcceptingInv'
  <2>1. AcceptingInv
    BY <1>2, <1>6 DEF Clean, LeavesRest
  <2> SUFFICES ASSUME phase = "accepting"
               PROVE  /\ acceptCounter > 0 /\ ~receiving /\ ~slotSending'
                      /\ \A u \in Threads : thr'[u].accept < acceptCounter
    BY DEF AcceptingInv, LeavesRest
  <2>2. \A u \in Threads : thr'[u].accept < acceptCounter
    <3> SUFFICES ASSUME NEW u \in Threads PROVE thr'[u].accept < acceptCounter
      OBVIOUS
    <3>1. Clean
      BY <1>6 DEF Clean, LeavesRest
    <3>2. PICK v \in Threads : thr'[u].accept \in {0, thr[v].accept}
      BY <3>1
    <3> QED
      BY <1>2, <2>1, <3>2, AcceptIsNumber DEF AcceptingInv
  <2> QED
    BY <2>1, <2>2 DEF AcceptingInv, LeavesRest
<1>7. ASSUME Clean' PROVE ReceivingInv'
  <2>1. ReceivingInv
    BY <1>2, <1>7 DEF Clean, LeavesRest
  <2> QED
    BY <1>1, <2>1 DEF ReceivingInv, LeavesRest
<1> QED
  BY <1>3, <1>4, <1>5, <1>6, <1>7 DEF Core

(* The types after a step that leaves the rest.                             *)
LEMMA LeavesTypes ==
    ASSUME CoreTypes, thr' \in [Threads -> ThreadState],
           UNCHANGED <<phase, slotReceiving, receiving, heads, partial,
                       acceptCounter, request>>,
           slotSending' \in BOOLEAN, after' \in BOOLEAN, waiting' \in BOOLEAN,
           strays' \subseteq Stray
    PROVE  CoreTypes'
  BY DEF CoreTypes

LEMMA MovesKeeps ==
    ASSUME Core, NEW t \in Threads, NEW todo, Moves(t, todo),
           Steady(thr[t].todo, todo), LeavesRest,
           slotSending' \in BOOLEAN, after' \in BOOLEAN, waiting' \in BOOLEAN,
           strays' \subseteq Stray
    PROVE  Core'
<1>1. CoreTypes'
  BY LeavesTypes DEF Core, Moves, LeavesRest
<1>2. \A u \in Threads : Steady(thr[u].todo, thr'[u].todo)
  <2> SUFFICES ASSUME NEW u \in Threads \ {t} PROVE Steady(thr[u].todo, thr'[u].todo)
    BY DEF Moves
  <2>1. thr'[u] = thr[u] /\ Sound(thr[u].todo)
    BY DEF Moves, Core, ThreadsInv
  <2> QED
    BY <2>1 DEF Steady
<1>3. \A u \in Threads : thr'[u].accept \in {0, thr[u].accept}
  BY DEF Moves
<1> QED
  BY <1>1, <1>2, <1>3, ThreadsKeep

----------------------------------------------------------------------------
(* Steps that have no part in receiving and accepting                      *)

LEMMA SteadyRest ==
    ASSUME NEW todo, Sound(todo), todo # <<>>, Head(todo) \notin TakingPoints
    PROVE  ~Takes(todo) /\ Steady(todo, Tail(todo)) /\ Steady(todo, <<>>)
  BY HeadOfTodo, RestOfTodo, EmptyTodo DEF Steady

LEMMA SteadyLonger ==
    ASSUME NEW todo, NEW rest, ~Takes(todo), Steady(todo, rest),
           NEW p \in Point, p \notin TakingPoints, p # "realPrepareAccept"
    PROVE  Steady(todo, <<p>> \o rest)
<1>1. Sound(rest) /\ ~Takes(rest) /\ (Prepares(rest) => Prepares(todo))
  BY DEF Steady
<1>2. /\ Sound(<<p>> \o rest)
      /\ Takes(<<p>> \o rest) <=> p \in TakingPoints
      /\ Prepares(<<p>> \o rest) <=> p = "realPrepareAccept" \/ Prepares(rest)
  BY <1>1, LongerTodo
<1> QED
  BY <1>1, <1>2 DEF Steady

LEMMA SteadySelf == ASSUME NEW todo, Sound(todo) PROVE Steady(todo, todo)
  BY DEF Steady

LEMMA TodoAt ==
    ASSUME Core, NEW t \in Threads, NEW p, p \notin TakingPoints, At(t, p)
    PROVE  /\ ~Takes(thr[t].todo) /\ thr[t].todo # <<>> /\ Sound(thr[t].todo)
           /\ Steady(thr[t].todo, thr[t].todo)
           /\ Steady(thr[t].todo, Rest(t)) /\ Steady(thr[t].todo, <<>>)
<1>1. Sound(thr[t].todo) /\ thr[t].todo # <<>> /\ Head(thr[t].todo) = p
  BY DEF Core, ThreadsInv, At
<1> QED
  BY <1>1, SteadyRest, SteadySelf DEF Rest

LEMMA LateIsStray ==
    ASSUME NEW t, NEW changed PROVE Late(t, changed) \subseteq Stray
  BY DEF Late, Stray

LEMMA QuietKeeps ==
    ASSUME Core, NEW t \in Threads, NEW todo, Goes(t, todo),
           Steady(thr[t].todo, todo), LeavesRest,
           slotSending' \in BOOLEAN, after' \in BOOLEAN, waiting' \in BOOLEAN,
           strays' \subseteq Stray
    PROVE  Core'
<1>1. todo \in Seq(Point) /\ CoreTypes
  BY DEF Steady, Sound, Core
<1>2. Moves(t, todo)
  BY <1>1, GoesMoves
<1> QED
  BY <1>2, MovesKeeps

(* Such a step that leaves the slot, the request and the strays as well.    *)
LEMMA LocalKeeps ==
    ASSUME Core, NEW t \in Threads, NEW todo, Goes(t, todo),
           Steady(thr[t].todo, todo),
           UNCHANGED <<slotVars, receiveVars, connectionVars, waiting, request>>,
           strays \subseteq strays', strays' \subseteq Stray
    PROVE  Core'
<1>1. LeavesRest
  BY DEF LeavesRest, slotVars, receiveVars, connectionVars
<1>2. slotSending' \in BOOLEAN /\ after' \in BOOLEAN /\ waiting' \in BOOLEAN
  BY DEF Core, CoreTypes, slotVars, receiveVars
<1> QED
  BY <1>1, <1>2, QuietKeeps

LEMMA AppAwaitedKeeps ==
    ASSUME Core, NEW t \in Threads, AppAwaited(t) PROVE Core'
<1>1. At(t, "awaitApp") /\ Goes(t, Rest(t))
  BY DEF AppAwaited, Runs
<1>2. Steady(thr[t].todo, Rest(t))
  BY <1>1, TodoAt DEF TakingPoints
<1> QED
  BY <1>1, <1>2, LocalKeeps DEF AppAwaited, requestVars, Core, CoreTypes

LEMMA TellClosedKeeps ==
    ASSUME Core, NEW t \in Threads, TellClosed(t) PROVE Core'
<1>1. At(t, "told") /\ \E todo \in {<<"close">>, <<>>} : Goes(t, todo)
  BY DEF TellClosed, Runs
<1>2. PICK todo \in {<<"close">>, <<>>} : Goes(t, todo)
  BY <1>1
<1>3. Steady(thr[t].todo, <<>>) /\ ~Takes(thr[t].todo)
  BY <1>1, TodoAt DEF TakingPoints
<1>4. Steady(thr[t].todo, <<"close">>)
  BY <1>3, SingleTodo DEF Steady, Point, TakingPoints
<1>5. strays \subseteq strays' /\ strays' \subseteq Stray
  BY LateIsStray DEF TellClosed, Core, CoreTypes
<1> QED
  BY <1>2, <1>3, <1>4, <1>5, LocalKeeps DEF TellClosed

LEMMA AppFlushesKeeps ==
    ASSUME Core, NEW t \in Threads, AppFlushes(t) PROVE Core'
<1> DEFINE todo == thr[t].todo
           more == <<"await">> \o todo
<1>1. At(t, "app") /\ Goes(t, <<"send", "await">> \o todo)
  BY DEF AppFlushes, Runs
<1>2. Steady(todo, todo) /\ ~Takes(todo) /\ Sound(todo)
  BY <1>1, TodoAt DEF TakingPoints
<1> HIDE DEF todo
<1>3. Steady(todo, more)
  BY <1>2, SteadyLonger DEF Point, TakingPoints
<1>4. Steady(todo, <<"send">> \o more)
  BY <1>2, <1>3, SteadyLonger DEF Point, TakingPoints
<1>5. <<"send", "await">> \o todo = <<"send">> \o more
  BY <1>2, PairOnIsConcat DEF Sound, Point
<1> QED
  BY <1>1, <1>4, <1>5, LocalKeeps DEF AppFlushes, todo, requestVars, Core, CoreTypes

LEMMA AppDisconnectsKeeps ==
    ASSUME Core, NEW t \in Threads, AppDisconnects(t) PROVE Core'
<1> DEFINE todo == thr[t].todo
<1>1. At(t, "app") /\ Goes(t, <<"close">> \o todo)
  BY DEF AppDisconnects, Runs
<1>2. Steady(todo, todo) /\ ~Takes(todo)
  BY <1>1, TodoAt DEF TakingPoints
<1> HIDE DEF todo
<1>3. Steady(todo, <<"close">> \o todo)
  BY <1>2, SteadyLonger DEF Point, TakingPoints
<1> QED
  BY <1>1, <1>3, LocalKeeps DEF AppDisconnects, todo, requestVars, Core, CoreTypes

LEMMA AppEndsKeeps ==
    ASSUME Core, NEW t \in Threads, AppEnds(t) PROVE Core'
<1>1. At(t, "app")
  BY DEF AppEnds, Runs
<1>2. Steady(thr[t].todo, Rest(t)) /\ ~Takes(thr[t].todo)
  BY <1>1, TodoAt DEF TakingPoints
<1>3. Steady(thr[t].todo, <<"report">> \o Rest(t))
  BY <1>2, SteadyLonger DEF Point, TakingPoints
<1>4. UNCHANGED <<slotVars, receiveVars, connectionVars, waiting, request, strays>>
  BY DEF AppEnds
<1>5. CASE disconnected
  <2>1. Goes(t, <<"report">> \o Rest(t))
    BY <1>5 DEF AppEnds
  <2> QED
    BY <1>3, <1>4, <2>1, LocalKeeps DEF Core, CoreTypes
<1>6. CASE ~disconnected
  <2>1. PICK point \in {"send", "sendError", "close"} :
           Goes(t, <<point, "report">> \o Rest(t))
    BY <1>6 DEF AppEnds
  <2> DEFINE more == <<"report">> \o Rest(t)
  <2>2. Steady(thr[t].todo, <<point>> \o more)
    BY <1>2, <1>3, SteadyLonger DEF Point, TakingPoints
  <2>3. Rest(t) \in Seq(Point) /\ point \in Point /\ "report" \in Point
    BY <1>2 DEF Steady, Sound, Point
  <2>4. <<point, "report">> \o Rest(t) = <<point>> \o more
    BY <2>3, PairOnIsConcat
  <2> QED
    BY <1>4, <2>1, <2>2, <2>4, LocalKeeps DEF Core, CoreTypes
<1> QED
  BY <1>5, <1>6

LEMMA AppThrowsKeeps ==
    ASSUME Core, NEW t \in Threads, AppThrows(t) PROVE Core'
<1>1. At(t, "app")
  BY DEF AppThrows, Runs
<1>2. Steady(thr[t].todo, Rest(t)) /\ ~Takes(thr[t].todo)
  BY <1>1, TodoAt DEF TakingPoints
<1>3. UNCHANGED <<slotVars, receiveVars, connectionVars, waiting, request, strays>>
  BY DEF AppThrows
<1>4. PICK point \in {"report", "sendError", "close"} : Goes(t, <<point>> \o Rest(t))
  BY DEF AppThrows
<1>5. Steady(thr[t].todo, <<point>> \o Rest(t))
  BY <1>2, SteadyLonger DEF Point, TakingPoints
<1> QED
  BY <1>3, <1>4, <1>5, LocalKeeps DEF Core, CoreTypes

LEMMA ReportKeeps ==
    ASSUME Core, NEW t \in Threads, Report(t) PROVE Core'
<1> DEFINE rest == Rest(t)
<1>1. At(t, "report")
  BY DEF Report, Runs
<1>2. Steady(thr[t].todo, rest) /\ ~Takes(thr[t].todo)
  BY <1>1, TodoAt DEF TakingPoints
<1>3. strays \subseteq strays' /\ strays' \subseteq Stray
  BY DEF Report, Core, CoreTypes, Stray
<1>4. UNCHANGED <<slotVars, receiveVars, connectionVars, waiting, request>>
  BY DEF Report, requestVars
<1>5. Goes(t, rest) \/ (rest # <<>> /\ Goes(t, <<"caught">> \o Tail(rest)))
  BY DEF Report
<1> HIDE DEF rest
<1>6. CASE Goes(t, rest)
  BY <1>2, <1>3, <1>4, <1>6, LocalKeeps
<1>7. CASE rest # <<>> /\ Goes(t, <<"caught">> \o Tail(rest))
  <2>1. /\ Sound(Tail(rest)) /\ ~Takes(Tail(rest))
        /\ Prepares(Tail(rest)) => Prepares(rest)
    BY <1>2, <1>7, RestOfTodo DEF Steady
  <2>2. Steady(thr[t].todo, Tail(rest))
    BY <1>2, <2>1 DEF Steady
  <2>3. Steady(thr[t].todo, <<"caught">> \o Tail(rest))
    BY <1>2, <2>2, SteadyLonger DEF Point, TakingPoints
  <2> QED
    BY <1>3, <1>4, <1>7, <2>3, LocalKeeps
<1> QED
  BY <1>5, <1>6, <1>7

(* SendsError, wherever it is called: a send is started, or not.            *)
LEMMA SendsErrorMoves ==
    ASSUME NEW t, NEW rest, SendsError(t, rest)
    PROVE  /\ \E todo \in {rest, <<"close">> \o rest} : Goes(t, todo)
           /\ UNCHANGED <<phase, slotReceiving>>
           /\ slotSending' = slotSending \/ (slotSending' = TRUE /\ phase # "accepting")
  BY DEF SendsError, slotVars, Slot!StartSend, Slot!MaySend, Slot!Usable

(* A quiet step that may start a send.                                      *)
LEMMA SendingKeeps ==
    ASSUME Core, NEW t \in Threads, NEW todo, Goes(t, todo),
           Steady(thr[t].todo, todo),
           UNCHANGED <<phase, slotReceiving, receiveVars, connectionVars, waiting, request>>,
           slotSending' = slotSending \/ (slotSending' = TRUE /\ phase # "accepting"),
           strays \subseteq strays', strays' \subseteq Stray
    PROVE  Core'
<1>1. LeavesRest
  BY DEF LeavesRest, receiveVars, connectionVars
<1>2. slotSending' \in BOOLEAN /\ after' \in BOOLEAN /\ waiting' \in BOOLEAN
  BY DEF Core, CoreTypes, receiveVars
<1> QED
  BY <1>1, <1>2, QuietKeeps

LEMMA CaughtKeeps ==
    ASSUME Core, NEW t \in Threads, Caught(t) PROVE Core'
<1>1. At(t, "caught")
  BY DEF Caught, Runs
<1>2. Steady(thr[t].todo, Rest(t)) /\ ~Takes(thr[t].todo)
  BY <1>1, TodoAt DEF TakingPoints
<1>3. Steady(thr[t].todo, <<"close">> \o Rest(t))
  BY <1>2, SteadyLonger DEF Point, TakingPoints
<1>4. UNCHANGED <<receiveVars, connectionVars, waiting, request, strays>>
  BY DEF Caught
<1>5. strays \subseteq strays' /\ strays' \subseteq Stray
  BY <1>4 DEF Core, CoreTypes
<1>6. CASE thr[t].accept # acceptCounter
  BY <1>2, <1>4, <1>5, <1>6, LocalKeeps DEF Caught
<1>7. CASE thr[t].accept = acceptCounter
  <2>1. PICK point \in {"sendError", "close"} :
          IF point = "close"
            THEN Goes(t, <<point>> \o Rest(t)) /\ UNCHANGED slotVars
            ELSE SendsError(t, Rest(t))
    BY <1>7 DEF Caught
  <2>2. CASE point = "close"
    BY <1>3, <1>4, <1>5, <2>1, <2>2, LocalKeeps
  <2>3. CASE point # "close"
    <3>1. /\ \E todo \in {Rest(t), <<"close">> \o Rest(t)} : Goes(t, todo)
          /\ UNCHANGED <<phase, slotReceiving>>
          /\ slotSending' = slotSending \/ (slotSending' = TRUE /\ phase # "accepting")
      BY <2>1, <2>3, SendsErrorMoves
    <3>2. PICK todo \in {Rest(t), <<"close">> \o Rest(t)} : Goes(t, todo)
      BY <3>1
    <3>3. Steady(thr[t].todo, todo)
      BY <1>2, <1>3
    <3>4. UNCHANGED <<phase, slotReceiving, receiveVars, connectionVars, waiting, request>>
      BY <1>4, <3>1
    <3> QED
      BY <1>5, <3>1, <3>2, <3>3, <3>4, SendingKeeps
  <2> QED
    BY <2>2, <2>3
<1> QED
  BY <1>6, <1>7

LEMMA StartSendKeeps ==
    ASSUME Core, NEW t \in Threads, StartSend(t) PROVE Core'
<1>1. At(t, "send")
  BY DEF StartSend, Runs
<1>2. Steady(thr[t].todo, Rest(t)) /\ Steady(thr[t].todo, <<>>)
  BY <1>1, TodoAt DEF TakingPoints
<1>3. \E todo \in {Rest(t), <<>>} : Goes(t, todo)
  BY DEF StartSend, CallDown
<1>4. /\ UNCHANGED <<phase, slotReceiving>>
      /\ slotSending' = slotSending \/ (slotSending' = TRUE /\ phase # "accepting")
  BY DEF StartSend, CallDown, slotVars, Slot!StartSend, Slot!MaySend, Slot!Usable
<1>5. strays \subseteq strays' /\ strays' \subseteq Stray
  BY DEF StartSend, CallDown, Core, CoreTypes, Stray
<1>6. UNCHANGED <<phase, slotReceiving, receiveVars, connectionVars, waiting, request>>
  BY <1>4 DEF StartSend, requestVars
<1> QED
  BY <1>2, <1>3, <1>4, <1>5, <1>6, SendingKeeps

LEMMA StartSendErrorKeeps ==
    ASSUME Core, NEW t \in Threads, StartSendError(t) PROVE Core'
<1>1. At(t, "sendError") /\ SendsError(t, Rest(t))
  BY DEF StartSendError, Runs
<1>2. Steady(thr[t].todo, Rest(t)) /\ ~Takes(thr[t].todo)
  BY <1>1, TodoAt DEF TakingPoints
<1>3. Steady(thr[t].todo, <<"close">> \o Rest(t))
  BY <1>2, SteadyLonger DEF Point, TakingPoints
<1>4. /\ \E todo \in {Rest(t), <<"close">> \o Rest(t)} : Goes(t, todo)
      /\ UNCHANGED <<phase, slotReceiving>>
      /\ slotSending' = slotSending \/ (slotSending' = TRUE /\ phase # "accepting")
  BY <1>1, SendsErrorMoves
<1>5. strays \subseteq strays' /\ strays' \subseteq Stray
  BY DEF StartSendError, Core, CoreTypes
<1>6. UNCHANGED <<phase, slotReceiving, receiveVars, connectionVars, waiting, request>>
  BY <1>4 DEF StartSendError, requestVars
<1> QED
  BY <1>2, <1>3, <1>4, <1>5, <1>6, SendingKeeps

LEMMA AfterSendKeeps ==
    ASSUME Core, NEW t \in Threads, AfterSend(t) PROVE Core'
<1>1. At(t, "sent") \/ At(t, "flushed")
  BY DEF AfterSend, Runs
<1>2. Steady(thr[t].todo, <<>>) /\ ~Takes(thr[t].todo)
  BY <1>1, TodoAt DEF TakingPoints
<1>3. \E todo \in {<<>>, <<"reset", "next">>, <<"close">>} : Goes(t, todo)
  BY DEF AfterSend
<1>4. Steady(thr[t].todo, <<"close">>) /\ Steady(thr[t].todo, <<"reset", "next">>)
  BY <1>2, SingleTodo, PairTodo DEF Steady, Point, TakingPoints
<1>5. strays \subseteq strays' /\ strays' \subseteq Stray
  BY LateIsStray DEF AfterSend, Core, CoreTypes, Stray
<1>6. UNCHANGED <<slotVars, receiveVars, connectionVars, waiting, request>>
  BY DEF AfterSend, requestVars
<1> QED
  BY <1>2, <1>3, <1>4, <1>5, <1>6, LocalKeeps

LEMMA ResetKeeps ==
    ASSUME Core, NEW t \in Threads, ResetForNextRequest(t) PROVE Core'
<1>1. At(t, "reset")
  BY DEF ResetForNextRequest, Runs
<1>2. Steady(thr[t].todo, <<>>) /\ Steady(thr[t].todo, Rest(t))
  BY <1>1, TodoAt DEF TakingPoints
<1>3. PICK todo \in {<<>>, Rest(t)} : Goes(t, todo)
  BY DEF ResetForNextRequest
<1>4. strays \subseteq strays' /\ strays' \subseteq Stray
  BY LateIsStray DEF ResetForNextRequest, Core, CoreTypes, Stray
<1>5. LeavesRest
  BY <1>4 DEF ResetForNextRequest, LeavesRest, slotVars, receiveVars, connectionVars
<1>6. slotSending' \in BOOLEAN /\ after' \in BOOLEAN /\ waiting' \in BOOLEAN
  BY DEF ResetForNextRequest, Core, CoreTypes, slotVars, receiveVars
<1> QED
  BY <1>2, <1>3, <1>4, <1>5, <1>6, QuietKeeps

LEMMA CloseKeeps ==
    ASSUME Core, NEW t \in Threads, CloseConnection(t) PROVE Core'
<1>1. At(t, "close")
  BY DEF CloseConnection, Runs
<1>2. Steady(thr[t].todo, <<>>) /\ Steady(thr[t].todo, Rest(t))
  BY <1>1, TodoAt DEF TakingPoints
<1>3. PICK todo \in {<<>>, Rest(t)} : Goes(t, todo)
  BY DEF CloseConnection, CallDown
<1>4. strays \subseteq strays' /\ strays' \subseteq Stray
  BY LateIsStray DEF CloseConnection, CallDown, Core, CoreTypes, Stray
<1>5. UNCHANGED <<phase, slotReceiving, slotSending>>
  BY DEF CloseConnection, CallDown, slotVars, Slot!StartDisconnect
<1>6. LeavesRest
  BY <1>4, <1>5 DEF CloseConnection, LeavesRest, receiveVars, requestVars
<1>7. slotSending' \in BOOLEAN /\ after' \in BOOLEAN /\ waiting' \in BOOLEAN
  BY <1>5 DEF CloseConnection, Core, CoreTypes, receiveVars, requestVars
<1> QED
  BY <1>2, <1>3, <1>4, <1>6, <1>7, QuietKeeps

----------------------------------------------------------------------------
(* The application goes on elsewhere, and the answer to a send             *)

LEMMA AppContinuesLaterKeeps ==
    ASSUME Core, NEW t \in Threads, AppContinuesLater(t) PROVE Core'
<1>1. PICK u \in Threads :
        /\ Free(u)
        /\ thr' = [thr EXCEPT ![t] = Thread(Rest(t), @.accept, @.request),
                              ![u] = Thread(<<"app">>, thr[t].accept, thr[t].request)]
  BY DEF AppContinuesLater
<1>2. At(t, "app") /\ thr[u].todo = <<>>
  BY <1>1 DEF AppContinuesLater, Runs, Free
<1>3. Steady(thr[t].todo, Rest(t)) /\ thr[t].todo # <<>>
  BY <1>2, TodoAt DEF TakingPoints
<1>4. t # u
  BY <1>2, <1>3
<1>5. thr \in [Threads -> ThreadState]
  BY DEF Core, CoreTypes
<1> DEFINE stays == Thread(Rest(t), thr[t].accept, thr[t].request)
           goes == Thread(<<"app">>, thr[t].accept, thr[t].request)
<1>6. thr[t].accept \in 0..(MaxAccepts + 1) /\ thr[t].request \in 0..MaxRequests
  BY <1>5 DEF ThreadState
<1>7. stays \in ThreadState /\ stays.todo = Rest(t) /\ stays.accept \in {0, thr[t].accept}
  BY <1>3, <1>6, ThreadFacts DEF Steady, Sound
<1>8. goes \in ThreadState /\ goes.todo = <<"app">> /\ goes.accept \in {0, thr[t].accept}
  <2>1. <<"app">> \in Seq(Point)
    BY DEF Point
  <2> QED
    BY <1>6, <2>1, ThreadFacts
<1>9. thr' = [thr EXCEPT ![t] = stays, ![u] = goes]
  BY <1>1
<1> HIDE DEF stays, goes
<1>10. /\ thr' \in [Threads -> ThreadState] /\ thr'[t] = stays /\ thr'[u] = goes
       /\ \A v \in Threads \ {t, u} : thr'[v] = thr[v]
  BY <1>4, <1>5, <1>7, <1>8, <1>9
<1>11. Steady(<<>>, <<"app">>)
  BY EmptyTodo, SingleTodo DEF Steady, Point, TakingPoints
<1>12. \A v \in Threads : Steady(thr[v].todo, thr[v].todo)
  BY SteadySelf DEF Core, ThreadsInv
<1>13. \A v \in Threads : Steady(thr[v].todo, thr'[v].todo)
  BY <1>2, <1>3, <1>7, <1>8, <1>10, <1>11, <1>12
<1>14. \A v \in Threads : \E w \in Threads : thr'[v].accept \in {0, thr[w].accept}
  BY <1>7, <1>8, <1>10
<1>15. LeavesRest /\ slotSending' \in BOOLEAN /\ after' \in BOOLEAN /\ waiting' \in BOOLEAN
       /\ strays' \subseteq Stray
  BY DEF AppContinuesLater, LeavesRest, slotVars, receiveVars, connectionVars, requestVars,
         Core, CoreTypes
<1>16. CoreTypes'
  BY <1>10, <1>15, LeavesTypes DEF Core, LeavesRest
<1> QED
  BY <1>13, <1>14, <1>15, <1>16, ThreadsKeep

LEMMA FinishSendKeeps == ASSUME Core, FinishSend PROVE Core'
<1>1. PICK t \in Threads :
        /\ Free(t)
        /\ thr' = [u \in Threads |->
              IF u = t
                THEN Thread(<<IF tcsSend = {} THEN "sent" ELSE "flushed">>,
                            acceptCounter, request)
              ELSE IF u \in tcsSend
                THEN [thr[u] EXCEPT !.todo = Resumed(@)]
              ELSE thr[u]]
  BY DEF FinishSend
<1> DEFINE todo == <<IF tcsSend = {} THEN "sent" ELSE "flushed">>
           new == Thread(todo, acceptCounter, request)
<1>2. thr \in [Threads -> ThreadState] /\ thr[t].todo = <<>>
      /\ acceptCounter \in 0..(MaxAccepts + 1) /\ request \in 0..MaxRequests
  BY <1>1 DEF Core, CoreTypes, Free
<1>3. Steady(<<>>, todo) /\ todo \in Seq(Point)
  BY EmptyTodo, SingleTodo DEF Steady, Point, TakingPoints
<1>4. new \in ThreadState /\ new.todo = todo /\ new.accept \in {0, acceptCounter}
  <2> HIDE DEF todo
  <2> QED
    BY <1>2, <1>3, ThreadFacts
<1>5. thr'[t] = new
  BY <1>1
<1> HIDE DEF new, todo
<1>6. ASSUME NEW u \in Threads \ {t}
      PROVE  /\ thr'[u] \in ThreadState
             /\ thr'[u].accept = thr[u].accept
             /\ Steady(thr[u].todo, thr'[u].todo)
  <2>1. Sound(thr[u].todo) /\ thr[u] \in ThreadState
    BY <1>2 DEF Core, ThreadsInv
  <2>2. CASE u \in tcsSend
    <3>1. thr'[u] = [thr[u] EXCEPT !.todo = Resumed(thr[u].todo)]
      BY <1>1, <2>2
    <3>2. Steady(thr[u].todo, Resumed(thr[u].todo))
      BY <2>1, ResumedTodo
    <3>3. Resumed(thr[u].todo) \in Seq(Point)
      BY <3>2 DEF Steady, Sound
    <3>4. /\ thr'[u] \in ThreadState /\ thr'[u].accept = thr[u].accept
          /\ thr'[u].todo = Resumed(thr[u].todo)
      BY <2>1, <3>1, <3>3 DEF ThreadState
    <3> QED
      BY <3>2, <3>4
  <2>3. CASE u \notin tcsSend
    <3>1. thr'[u] = thr[u]
      BY <1>1, <2>3
    <3> QED
      BY <2>1, <3>1, SteadySelf
  <2> QED
    BY <2>2, <2>3
<1>7. thr' \in [Threads -> ThreadState]
  <2>1. thr' = [u \in Threads |-> thr'[u]]
    BY <1>1
  <2> QED
    BY <1>4, <1>5, <1>6, <2>1
<1>8. \A u \in Threads : Steady(thr[u].todo, thr'[u].todo)
  BY <1>2, <1>3, <1>4, <1>5, <1>6
<1>9. ~(phase = "accepting" /\ Clean)
  BY DEF FinishSend, Slot!FinishSend, Core, AcceptingInv
<1>10. \A u \in Threads :
          \/ \E v \in Threads : thr'[u].accept \in {0, thr[v].accept}
          \/ thr'[u].accept = acceptCounter /\ ~(phase = "accepting" /\ Clean)
  BY <1>4, <1>5, <1>6, <1>9
<1>11. LeavesRest /\ slotSending' \in BOOLEAN /\ after' \in BOOLEAN /\ waiting' \in BOOLEAN
       /\ strays' \subseteq Stray
  BY DEF FinishSend, Slot!FinishSend, LeavesRest, receiveVars, connectionVars, requestVars,
         Core, CoreTypes
<1>12. CoreTypes'
  BY <1>7, <1>11, LeavesTypes DEF Core, LeavesRest
<1> QED
  BY <1>8, <1>10, <1>11, <1>12, ThreadsKeep

----------------------------------------------------------------------------
(* Accepting                                                               *)

LEMMA FreeTodo ==
    ASSUME CoreTypes, NEW t \in Threads, Free(t)
    PROVE  thr[t].todo = <<>> /\ ~Takes(thr[t].todo) /\ ~Prepares(thr[t].todo)
  BY EmptyTodo DEF Free

LEMMA PrepareAcceptKeeps == ASSUME Core, PrepareAccept PROVE Core'
<1>1. PICK t \in Threads :
        /\ Free(t)
        /\ Begins(t, IF lastFinished = "pending"
                       THEN <<"awaitApp", "realPrepareAccept">>
                       ELSE <<"realPrepareAccept">>)
  BY DEF PrepareAccept
<1>2. PICK todo \in {<<"awaitApp", "realPrepareAccept">>, <<"realPrepareAccept">>} :
        Begins(t, todo)
  BY <1>1
<1>3. Sound(todo) /\ ~Takes(todo)
  BY SingleTodo, PairTodo DEF Point, TakingPoints
<1>4. /\ thr' \in [Threads -> ThreadState]
      /\ thr'[t].todo = todo
      /\ thr'[t].accept \in {0, acceptCounter}
      /\ \A u \in Threads \ {t} : thr'[u] = thr[u]
  BY <1>2, <1>3, BeginsMoves DEF Sound, Core
<1>5. ~Takes(thr[t].todo) /\ ~Prepares(thr[t].todo)
  BY <1>1, FreeTodo DEF Core
<1>6. /\ phase # "asked" /\ phase' = "asked"
      /\ phase = "accepting" => acceptCounter <= MaxAccepts
      /\ UNCHANGED <<slotReceiving, slotSending, receiving, after, heads, partial,
                     acceptCounter, waiting, request, strays>>
  BY DEF PrepareAccept, Slot!PrepareAccept, receiveVars, connectionVars, requestVars
<1>7. CoreTypes'
  BY <1>4, <1>6 DEF Core, CoreTypes, Slot!Phase
<1>8. ThreadsInv'
  BY <1>3, <1>4, <1>6, AcceptIsNumber DEF Core, ThreadsInv
<1>9. PrepareInv'
  <2>1. ~after /\ \A u \in Threads : ~Prepares(thr[u].todo)
    BY <1>6 DEF Core, PrepareInv
  <2>2. acceptCounter <= MaxAccepts
    BY <1>6 DEF Core, CoreTypes, Slot!Phase, PrepareInv
  <2>3. \A u \in Threads \ {t} : ~Prepares(thr'[u].todo)
    BY <1>4, <2>1
  <2> QED
    BY <1>6, <2>1, <2>2, <2>3 DEF PrepareInv
<1>10. BufferInv'
  BY <1>6 DEF Core, BufferInv
<1>11. AcceptingInv'
  BY <1>6 DEF AcceptingInv
<1>12. ASSUME Clean' PROVE ReceivingInv'
  <2>1. ReceivingInv
    BY <1>6, <1>12 DEF Core, Clean
  <2>2. \A u \in Threads : Takes(thr'[u].todo) <=> Takes(thr[u].todo)
    BY <1>3, <1>4, <1>5
  <2> QED
    BY <1>6, <2>1, <2>2 DEF ReceivingInv
<1> QED
  BY <1>7, <1>8, <1>9, <1>10, <1>11, <1>12 DEF Core

LEMMA FinishAcceptKeeps == ASSUME Core, FinishAccept PROVE Core'
<1>1. PICK t \in Threads : Free(t) /\ Begins(t, <<"accepted">>)
  BY DEF FinishAccept
<1>2. Sound(<<"accepted">>) /\ Takes(<<"accepted">>) /\ ~Prepares(<<"accepted">>)
  BY SingleTodo DEF Point, TakingPoints
<1>3. /\ thr' \in [Threads -> ThreadState]
      /\ thr'[t].todo = <<"accepted">>
      /\ thr'[t].accept \in {0, acceptCounter}
      /\ \A u \in Threads \ {t} : thr'[u] = thr[u]
  BY <1>1, <1>2, BeginsMoves DEF Sound, Core
<1>4. /\ phase = "accepting" /\ phase' = "open" /\ acceptCounter <= MaxAccepts
      /\ receiving' = TRUE /\ waiting' = TRUE /\ heads' = 0 /\ partial' = "none"
      /\ UNCHANGED <<slotReceiving, slotSending, after, acceptCounter, request, strays>>
  BY DEF FinishAccept, Slot!FinishAccept
<1>5. CoreTypes'
  BY <1>3, <1>4, ConstantsAssumption DEF Core, CoreTypes, Slot!Phase, Partial
<1>6. ThreadsInv'
  BY <1>2, <1>3, <1>4, AcceptIsNumber DEF Core, ThreadsInv
<1>7. PrepareInv'
  <2>1. ~after /\ \A u \in Threads : ~Prepares(thr[u].todo)
    BY <1>4 DEF Core, PrepareInv
  <2>2. \A u \in Threads : ~Prepares(thr'[u].todo)
    BY <1>2, <1>3, <2>1
  <2> QED
    BY <1>4, <2>1, <2>2 DEF PrepareInv
<1>8. BufferInv'
  BY <1>4, ConstantsAssumption DEF Core, CoreTypes, BufferInv
<1>9. AcceptingInv'
  BY <1>4 DEF AcceptingInv
<1>10. ASSUME Clean' PROVE ReceivingInv'
  <2>1. ReceivingInv /\ ~receiving
    BY <1>4, <1>10 DEF Core, Clean, AcceptingInv
  <2>2. ~slotReceiving /\ \A u \in Threads : ~Takes(thr[u].todo)
    BY <2>1 DEF ReceivingInv
  <2>3. \A u \in Threads : Takes(thr'[u].todo) <=> u = t
    BY <1>2, <1>3, <2>2
  <2> QED
    BY <1>4, <2>2, <2>3 DEF ReceivingInv
<1> QED
  BY <1>5, <1>6, <1>7, <1>8, <1>9, <1>10 DEF Core

LEMMA RealPrepareAcceptKeeps ==
    ASSUME Core, NEW t \in Threads, RealPrepareAccept(t) PROVE Core'
<1>1. At(t, "realPrepareAccept") /\ Goes(t, <<>>)
  BY DEF RealPrepareAccept, Runs, CallDown
<1>2. ~Takes(thr[t].todo) /\ Prepares(thr[t].todo)
  <2>1. Sound(thr[t].todo) /\ thr[t].todo # <<>>
        /\ Head(thr[t].todo) = "realPrepareAccept"
    BY <1>1 DEF Core, ThreadsInv, At
  <2> QED
    BY <2>1, HeadOfTodo DEF TakingPoints
<1>3. /\ thr' \in [Threads -> ThreadState]
      /\ thr'[t].todo = <<>>
      /\ thr'[t].accept \in {0, thr[t].accept}
      /\ \A u \in Threads \ {t} : thr'[u] = thr[u]
  BY <1>1, EmptyTodo, GoesMoves DEF Moves, Sound, Core
<1>4. /\ phase = "asked" /\ acceptCounter <= MaxAccepts /\ ~after
      /\ \A u \in Threads \ {t} : ~Prepares(thr[u].todo)
  BY <1>2 DEF Core, PrepareInv
<1>5. \A u \in Threads : ~Prepares(thr'[u].todo) /\ Sound(thr'[u].todo)
                         /\ (Takes(thr'[u].todo) <=> Takes(thr[u].todo))
  BY <1>2, <1>3, <1>4, EmptyTodo DEF Core, ThreadsInv
<1>6. \A u \in Threads : thr'[u].accept <= acceptCounter
  BY <1>3, AcceptIsNumber DEF Core, ThreadsInv
<1>7. UNCHANGED <<slotReceiving, slotSending, receiving, heads, partial, waiting, request>>
  BY DEF RealPrepareAccept, CallDown, Slot!StartAccept, slotVars, requestVars
<1>8. strays \subseteq strays' /\ strays' \subseteq Stray
  BY DEF RealPrepareAccept, CallDown, Core, CoreTypes, Stray
<1>9. BufferInv'
  BY <1>7 DEF Core, BufferInv
<1>10. ASSUME Clean' PROVE ReceivingInv'
  <2>1. ReceivingInv
    BY <1>8, <1>10 DEF Core, Clean
  <2> QED
    BY <1>5, <1>7, <2>1 DEF ReceivingInv
<1>11. CASE receiving
  <2>1. after' = TRUE /\ UNCHANGED <<phase, acceptCounter>>
    BY <1>11 DEF RealPrepareAccept, slotVars, connectionVars
  <2>2. CoreTypes'
    BY <1>3, <1>7, <1>8, <2>1 DEF Core, CoreTypes
  <2>3. ThreadsInv'
    BY <1>5, <1>6, <2>1 DEF ThreadsInv
  <2>4. PrepareInv'
    BY <1>4, <1>5, <2>1 DEF PrepareInv
  <2>5. AcceptingInv'
    BY <1>4, <2>1 DEF AcceptingInv
  <2> QED
    BY <1>9, <1>10, <2>2, <2>3, <2>4, <2>5 DEF Core
<1>12. CASE ~receiving
  <2>1. acceptCounter' = acceptCounter + 1 /\ UNCHANGED after
    BY <1>12 DEF RealPrepareAccept
  <2>2. /\ phase' \in {"asked", "accepting"}
        /\ phase' = "accepting" /\ slotSending => "unanswered" \in strays'
    BY <1>4, <1>12 DEF RealPrepareAccept, CallDown, Slot!StartAccept, slotVars
  <2>3. CoreTypes'
    BY <1>3, <1>4, <1>7, <1>8, <2>1, <2>2, ConstantsAssumption
    DEF Core, CoreTypes, Slot!Phase
  <2>4. \A u \in Threads : thr'[u].accept < acceptCounter'
    <3> SUFFICES ASSUME NEW u \in Threads PROVE thr'[u].accept < acceptCounter + 1
      BY <2>1
    <3>1. thr'[u].accept \in Nat /\ acceptCounter \in Nat
      BY <1>3, ConstantsAssumption DEF Core, CoreTypes, ThreadState
    <3> QED
      BY <1>6, <3>1
  <2>5. ThreadsInv'
    <3> SUFFICES ASSUME NEW u \in Threads PROVE thr'[u].accept <= acceptCounter'
      BY <1>5 DEF ThreadsInv
    <3>1. thr'[u].accept \in Nat /\ acceptCounter' \in Nat
      BY <1>3, <2>3, ConstantsAssumption DEF CoreTypes, ThreadState
    <3> QED
      BY <2>4, <3>1
  <2>6. PrepareInv'
    BY <1>4, <1>5, <2>1, <2>2 DEF PrepareInv
  <2>7. ASSUME Clean' PROVE AcceptingInv'
    <3>1. phase' = "accepting" => ~slotSending
      BY <2>2, <2>7 DEF Clean
    <3>2. acceptCounter' > 0
      BY <2>1, ConstantsAssumption DEF Core, CoreTypes
    <3> QED
      BY <1>7, <1>12, <2>4, <3>1, <3>2 DEF AcceptingInv
  <2> QED
    BY <1>9, <1>10, <2>3, <2>5, <2>6, <2>7 DEF Core
<1> QED
  BY <1>11, <1>12

(* The end of the receive that an accept waited for.                        *)
LEMMA PreparesKeeps ==
    ASSUME Core, NEW t \in Threads, after, after' = FALSE,
           Goes(t, <<"realPrepareAccept">>),
           UNCHANGED <<slotVars, receiving, heads, partial, acceptCounter, waiting, request>>,
           strays \subseteq strays', strays' \subseteq Stray,
           Clean' => ~Takes(thr[t].todo)
    PROVE  Core'
<1> DEFINE todo == <<"realPrepareAccept">>
<1>1. Sound(todo) /\ ~Takes(todo)
  BY SingleTodo DEF Point, TakingPoints
<1>2. todo \in Seq(Point)
  BY <1>1 DEF Sound
<1>3. /\ thr' \in [Threads -> ThreadState]
      /\ thr'[t].todo = todo
      /\ thr'[t].accept \in {0, thr[t].accept}
      /\ \A u \in Threads \ {t} : thr'[u] = thr[u]
  BY <1>2, GoesMoves DEF Moves, Core
<1> HIDE DEF todo
<1>4. /\ phase = "asked" /\ acceptCounter <= MaxAccepts
      /\ \A u \in Threads : ~Prepares(thr[u].todo)
  BY DEF Core, PrepareInv
<1>5. CoreTypes'
  BY <1>3 DEF Core, CoreTypes, slotVars
<1>6. ThreadsInv'
  BY <1>1, <1>3, AcceptIsNumber DEF Core, ThreadsInv
<1>7. PrepareInv'
  <2>1. \A u \in Threads \ {t} : ~Prepares(thr'[u].todo)
    BY <1>3, <1>4
  <2> QED
    BY <1>4, <2>1 DEF PrepareInv, slotVars
<1>8. BufferInv'
  BY DEF Core, BufferInv
<1>9. AcceptingInv'
  BY <1>4 DEF AcceptingInv, slotVars
<1>10. ASSUME Clean' PROVE ReceivingInv'
  <2>1. ReceivingInv /\ ~Takes(thr[t].todo)
    BY <1>10 DEF Core, Clean
  <2>2. \A u \in Threads : Takes(thr'[u].todo) <=> Takes(thr[u].todo)
    BY <1>1, <1>3, <2>1
  <2> QED
    BY <2>1, <2>2 DEF ReceivingInv, slotVars
<1> QED
  BY <1>5, <1>6, <1>7, <1>8, <1>9, <1>10 DEF Core

LEMMA NoteClosedKeeps ==
    ASSUME Core, NEW t \in Threads, NoteClosed(t) PROVE Core'
<1>1. At(t, "closed")
  BY DEF NoteClosed, Runs
<1>2. ~Takes(thr[t].todo) /\ Steady(thr[t].todo, Rest(t))
  BY <1>1, TodoAt DEF TakingPoints
<1>3. strays \subseteq strays' /\ strays' \subseteq Stray
  BY LateIsStray DEF NoteClosed, Core, CoreTypes
<1>4. after' = FALSE /\ UNCHANGED <<slotVars, receiving, heads, partial, acceptCounter,
                                    waiting, request>>
  BY DEF NoteClosed, requestVars
<1>5. CASE after
  <2>1. Goes(t, <<"realPrepareAccept">>)
    BY <1>5 DEF NoteClosed
  <2> QED
    BY <1>2, <1>3, <1>4, <1>5, <2>1, PreparesKeeps
<1>6. CASE ~after
  <2>1. Goes(t, Rest(t))
    BY <1>6 DEF NoteClosed
  <2>2. LeavesRest
    BY <1>3, <1>4 DEF LeavesRest, slotVars
  <2>3. slotSending' \in BOOLEAN /\ after' \in BOOLEAN /\ waiting' \in BOOLEAN
    BY <1>4 DEF Core, CoreTypes, slotVars
  <2> QED
    BY <1>2, <1>3, <2>1, <2>2, <2>3, QuietKeeps
<1> QED
  BY <1>5, <1>6

LEMMA CheckAfterKeeps ==
    ASSUME Core, NEW t \in Threads, CheckAfter(t) PROVE Core'
<1>1. At(t, "check") \/ At(t, "checkStart")
  BY DEF CheckAfter, Runs
<1>2. strays \subseteq strays' /\ strays' \subseteq Stray
  BY DEF CheckAfter, Core, CoreTypes, Stray
<1>3. after' = FALSE /\ UNCHANGED <<slotVars, receiving, heads, partial, acceptCounter,
                                    waiting, request>>
  BY DEF CheckAfter, requestVars, connectionVars
<1>4. At(t, "check") => ~Takes(thr[t].todo)
  BY TodoAt DEF TakingPoints
<1>5. CASE after
  <2>1. Goes(t, <<"realPrepareAccept">>)
    BY <1>5 DEF CheckAfter
  <2>2. Clean' => At(t, "check")
    BY <1>1, <1>5 DEF CheckAfter, Clean
  <2> QED
    BY <1>2, <1>3, <1>4, <1>5, <2>1, <2>2, PreparesKeeps
<1>6. CASE ~after
  <2>1. LeavesRest
    BY <1>2, <1>3 DEF LeavesRest, slotVars
  <2>2. slotSending' \in BOOLEAN /\ after' \in BOOLEAN /\ waiting' \in BOOLEAN
    BY <1>3 DEF Core, CoreTypes, slotVars
  <2>3. PICK todo : Goes(t, todo) /\ Steady(thr[t].todo, todo)
    <3>1. CASE At(t, "check")
      <4>1. Goes(t, <<>>)
        BY <1>6, <3>1 DEF CheckAfter
      <4>2. Steady(thr[t].todo, <<>>)
        BY <1>4, <3>1, EmptyTodo DEF Steady
      <4> QED
        BY <4>1, <4>2
    <3>2. CASE ~At(t, "check")
      <4>1. Goes(t, <<"startReceive">>)
        BY <1>6, <3>2 DEF CheckAfter
      <4>2. Takes(thr[t].todo)
        <5>1. Sound(thr[t].todo) /\ thr[t].todo # <<>> /\ Head(thr[t].todo) = "checkStart"
          BY <1>1, <3>2 DEF Core, ThreadsInv, At
        <5> QED
          BY <5>1, HeadOfTodo DEF TakingPoints
      <4>3. Steady(thr[t].todo, <<"startReceive">>)
        BY <4>2, SingleTodo DEF Steady, Point, TakingPoints
      <4> QED
        BY <4>1, <4>3
    <3> QED
      BY <3>1, <3>2
  <2> QED
    BY <1>2, <2>1, <2>2, <2>3, QuietKeeps
<1> QED
  BY <1>5, <1>6

----------------------------------------------------------------------------
(* Receiving                                                               *)

LEMMA FinishReceiveKeeps == ASSUME Core, FinishReceive PROVE Core'
<1>1. PICK t \in Threads : Free(t) /\ Begins(t, <<"received">>)
  BY DEF FinishReceive
<1>2. Sound(<<"received">>) /\ Takes(<<"received">>) /\ ~Prepares(<<"received">>)
  BY SingleTodo DEF Point, TakingPoints
<1>3. /\ thr' \in [Threads -> ThreadState]
      /\ thr'[t].todo = <<"received">>
      /\ thr'[t].accept \in {0, acceptCounter}
      /\ \A u \in Threads \ {t} : thr'[u] = thr[u]
  BY <1>1, <1>2, BeginsMoves DEF Sound, Core
<1>4. /\ phase = "open" /\ slotReceiving /\ slotReceiving' = FALSE
      /\ UNCHANGED <<phase, slotSending, receiving, after, heads, partial,
                     acceptCounter, waiting, request, strays>>
  BY DEF FinishReceive, Slot!FinishReceive, receiveVars, connectionVars, requestVars
<1>5. CoreTypes'
  BY <1>3, <1>4 DEF Core, CoreTypes
<1>6. ThreadsInv'
  BY <1>2, <1>3, <1>4, AcceptIsNumber DEF Core, ThreadsInv
<1>7. PrepareInv'
  <2>1. \A u \in Threads : Prepares(thr'[u].todo) => Prepares(thr[u].todo)
    BY <1>2, <1>3
  <2> QED
    BY <1>4, <2>1 DEF Core, PrepareInv
<1>8. BufferInv'
  BY <1>4 DEF Core, BufferInv
<1>9. AcceptingInv'
  BY <1>4 DEF AcceptingInv
<1>10. ASSUME Clean' PROVE ReceivingInv'
  <2>1. receiving /\ \A u \in Threads : ~Takes(thr[u].todo)
    BY <1>4, <1>10 DEF Core, Clean, ReceivingInv
  <2>2. \A u \in Threads : Takes(thr'[u].todo) <=> u = t
    BY <1>2, <1>3, <2>1
  <2> QED
    BY <1>4, <2>1, <2>2 DEF ReceivingInv
<1> QED
  BY <1>5, <1>6, <1>7, <1>8, <1>9, <1>10 DEF Core

LEMMA FinishReceiveClosedKeeps == ASSUME Core, FinishReceiveClosed PROVE Core'
<1>1. PICK t \in Threads : Free(t) /\ Begins(t, <<"closed", "told">>)
  BY DEF FinishReceiveClosed
<1> DEFINE todo == <<"closed", "told">>
<1>2. Sound(todo) /\ ~Takes(todo) /\ ~Prepares(todo)
  BY PairTodo DEF Point, TakingPoints
<1>3. /\ thr' \in [Threads -> ThreadState]
      /\ thr'[t].todo = todo
      /\ thr'[t].accept \in {0, acceptCounter}
      /\ \A u \in Threads \ {t} : thr'[u] = thr[u]
  BY <1>1, <1>2, BeginsMoves DEF Sound, Core
<1> HIDE DEF todo
<1>4. /\ slotReceiving /\ slotReceiving' = FALSE /\ receiving' = FALSE
      /\ UNCHANGED <<phase, slotSending, after, heads, partial,
                     acceptCounter, waiting, request, strays>>
  BY DEF FinishReceiveClosed, Slot!FinishReceive, requestVars
<1>5. CoreTypes'
  BY <1>3, <1>4 DEF Core, CoreTypes
<1>6. ThreadsInv'
  BY <1>2, <1>3, <1>4, AcceptIsNumber DEF Core, ThreadsInv
<1>7. PrepareInv'
  <2>1. \A u \in Threads : Prepares(thr'[u].todo) => Prepares(thr[u].todo)
    BY <1>2, <1>3
  <2> QED
    BY <1>4, <2>1 DEF Core, PrepareInv
<1>8. BufferInv'
  BY <1>4 DEF Core, BufferInv
<1>9. ASSUME Clean' PROVE AcceptingInv' /\ ReceivingInv'
  <2>1. receiving /\ phase # "accepting" /\ \A u \in Threads : ~Takes(thr[u].todo)
    BY <1>4, <1>9 DEF Core, Clean, ReceivingInv, AcceptingInv
  <2>2. \A u \in Threads : ~Takes(thr'[u].todo)
    BY <1>2, <1>3, <2>1
  <2> QED
    BY <1>4, <2>1, <2>2 DEF ReceivingInv, AcceptingInv
<1> QED
  BY <1>5, <1>6, <1>7, <1>8, <1>9 DEF Core

(* The thread that processes what was received, or starts the next receive, *)
(* is the only one, nothing is outstanding meanwhile, and no client is      *)
(* waited for.                                                              *)
LEMMA TakingAlone ==
    ASSUME Core, Clean, NEW t \in Threads, Takes(thr[t].todo)
    PROVE  /\ receiving /\ ~slotReceiving /\ phase # "accepting"
           /\ \A u \in Threads \ {t} : ~Takes(thr[u].todo)
  BY DEF Core, ReceivingInv, AcceptingInv

LEMMA StartReceiveKeeps ==
    ASSUME Core, NEW t \in Threads, StartReceive(t) PROVE Core'
<1>1. /\ Sound(thr[t].todo) /\ thr[t].todo # <<>>
      /\ Head(thr[t].todo) = "startReceive"
  BY DEF StartReceive, Runs, At, Core, ThreadsInv
<1>2. Takes(thr[t].todo)
  BY <1>1, HeadOfTodo DEF TakingPoints
<1>3. PICK todo \in {Rest(t), <<>>} : Goes(t, todo)
  BY DEF StartReceive, CallDown
<1>4. Sound(todo) /\ ~Takes(todo) /\ (Prepares(todo) => Prepares(thr[t].todo))
  BY <1>1, RestOfTodo, EmptyTodo DEF Rest
<1>5. /\ thr' \in [Threads -> ThreadState]
      /\ thr'[t].todo = todo
      /\ thr'[t].accept \in {0, thr[t].accept}
      /\ \A u \in Threads \ {t} : thr'[u] = thr[u]
  BY <1>3, <1>4, GoesMoves DEF Moves, Sound, Core
<1>6. UNCHANGED <<phase, slotSending, receiving, after, heads, partial,
                  acceptCounter, waiting, request>>
  BY DEF StartReceive, CallDown, Slot!StartReceive, slotVars, receiveVars,
         connectionVars, requestVars
<1>7. strays \subseteq strays' /\ strays' \subseteq Stray
  BY DEF StartReceive, CallDown, Core, CoreTypes, Stray
<1>8. slotReceiving' \in BOOLEAN /\ (Clean' => slotReceiving' = TRUE)
  BY DEF StartReceive, CallDown, Slot!StartReceive, slotVars, Clean, Core, CoreTypes
<1>9. CoreTypes'
  BY <1>5, <1>6, <1>7, <1>8 DEF Core, CoreTypes
<1>10. ThreadsInv'
  BY <1>4, <1>5, <1>6, AcceptIsNumber DEF Core, ThreadsInv
<1>11. PrepareInv'
  <2>1. \A u \in Threads : Prepares(thr'[u].todo) => Prepares(thr[u].todo)
    BY <1>4, <1>5
  <2> QED
    BY <1>6, <2>1 DEF Core, PrepareInv
<1>12. BufferInv'
  BY <1>6 DEF Core, BufferInv
<1>13. ASSUME Clean' PROVE AcceptingInv' /\ ReceivingInv'
  <2>1. Clean
    BY <1>7, <1>13 DEF Clean
  <2>2. /\ receiving /\ phase # "accepting"
        /\ \A u \in Threads \ {t} : ~Takes(thr[u].todo)
    BY <1>2, <2>1, TakingAlone
  <2>3. \A u \in Threads : ~Takes(thr'[u].todo)
    BY <1>4, <1>5, <2>2
  <2> QED
    BY <1>6, <1>8, <1>13, <2>2, <2>3 DEF ReceivingInv, AcceptingInv
<1> QED
  BY <1>9, <1>10, <1>11, <1>12, <1>13 DEF Core

(* What a lock region relies on: t, which goes on with rest, is not counted *)
(* among the threads that take, r says whether a receive is outstanding or  *)
(* about to be started by another, and the buffer holds h heads and p.      *)
Region(t, rest, h, p, r) ==
    /\ Sound(rest) /\ ~Takes(rest)
    /\ Prepares(rest) => Prepares(thr[t].todo)
    /\ r \in BOOLEAN /\ h \in Nat /\ p \in Partial
    /\ request + h <= MaxRequests
    /\ r => h = 0 /\ p # "full" /\ (p = "some" => waiting)
    /\ Clean' => /\ phase # "accepting"
                 /\ r <=> slotReceiving \/ \E u \in Threads \ {t} : Takes(thr[u].todo)
                 /\ slotReceiving => \A u \in Threads \ {t} : ~Takes(thr[u].todo)
                 /\ \A u, v \in Threads \ {t} :
                       Takes(thr[u].todo) /\ Takes(thr[v].todo) => u = v

(* What it leaves: the thread goes on with todo and starts a receive, or    *)
(* does not.                                                                *)
Leaves(t, todo, r, start) ==
    /\ Sound(todo) /\ (Takes(todo) <=> start)
    /\ Prepares(todo) => Prepares(thr[t].todo)
    /\ thr' \in [Threads -> ThreadState]
    /\ thr'[t].todo = todo
    /\ thr'[t].accept \in {0, thr[t].accept, acceptCounter}
    /\ \A u \in Threads \ {t} : thr'[u] = thr[u]
    /\ start => ~r
    /\ receiving' \in BOOLEAN /\ (receiving' <=> r \/ start)
    /\ heads' \in Nat /\ partial' \in Partial /\ request' \in Nat /\ waiting' \in BOOLEAN
    /\ request' + heads' <= MaxRequests
    /\ r \/ start => heads' = 0 /\ partial' # "full" /\ (partial' = "some" => waiting')
    /\ UNCHANGED <<phase, slotReceiving, after, acceptCounter>>
    /\ slotSending' \in BOOLEAN
    /\ strays \subseteq strays' /\ strays' \subseteq Stray

LEMMA RegionKeeps ==
    ASSUME Core, NEW t \in Threads, NEW rest, NEW h, NEW p, NEW r,
           Region(t, rest, h, p, r), NEW todo, NEW start, Leaves(t, todo, r, start)
    PROVE  Core'
<1>1. CoreTypes'
  <2>1. heads' \in 0..MaxRequests /\ request' \in 0..MaxRequests
    BY ConstantsAssumption DEF Leaves
  <2> QED
    BY <2>1 DEF Core, CoreTypes, Leaves
<1>2. ThreadsInv'
  <2> SUFFICES ASSUME NEW u \in Threads
               PROVE  Sound(thr'[u].todo) /\ thr'[u].accept <= acceptCounter
    BY DEF ThreadsInv, Leaves
  <2> QED
    BY AcceptIsNumber DEF Core, ThreadsInv, Leaves
<1>3. PrepareInv'
  <2>1. \A u \in Threads : Prepares(thr'[u].todo) => Prepares(thr[u].todo)
    BY DEF Leaves
  <2>2. UNCHANGED <<phase, after, acceptCounter>>
    BY DEF Leaves
  <2> QED
    BY <2>1, <2>2 DEF Core, PrepareInv
<1>4. BufferInv'
  BY DEF BufferInv, Leaves
<1>5. ASSUME Clean' PROVE AcceptingInv' /\ ReceivingInv'
  <2>1. phase' # "accepting"
    BY <1>5 DEF Region, Leaves
  <2>2. /\ r <=> slotReceiving' \/ \E u \in Threads \ {t} : Takes(thr'[u].todo)
        /\ slotReceiving' => \A u \in Threads \ {t} : ~Takes(thr'[u].todo)
        /\ \A u, v \in Threads \ {t} : Takes(thr'[u].todo) /\ Takes(thr'[v].todo) => u = v
    BY <1>5 DEF Region, Leaves
  <2>3. /\ receiving' <=> r \/ start
        /\ start => ~r
        /\ Takes(thr'[t].todo) <=> start
    BY DEF Leaves
  <2>4. receiving' <=> slotReceiving' \/ \E u \in Threads : Takes(thr'[u].todo)
    BY <2>2, <2>3
  <2>5. slotReceiving' => \A u \in Threads : ~Takes(thr'[u].todo)
    BY <2>2, <2>3
  <2>6. \A u, v \in Threads : Takes(thr'[u].todo) /\ Takes(thr'[v].todo) => u = v
    BY <2>2, <2>3
  <2> QED
    BY <2>1, <2>4, <2>5, <2>6 DEF ReceivingInv, AcceptingInv
<1> QED
  BY <1>1, <1>2, <1>3, <1>4, <1>5 DEF Core

LEMMA ParseLeaves ==
    ASSUME Core, NEW t \in Threads, NEW rest, NEW h, NEW p, NEW r,
           Region(t, rest, h, p, r), h > 0, Parse(t, rest, h, p, r),
           waiting' = FALSE, heads' = h - 1, partial' = p, request' = request + 1,
           UNCHANGED <<after, connectionVars>>,
           strays \subseteq strays', strays' \subseteq Stray
    PROVE  \E todo, start : Leaves(t, todo, r, start)
<1> DEFINE empty == h = 1 /\ p = "none" /\ ~r
           asks == IF empty THEN <<"startReceive">> ELSE <<>>
           calls == <<"app", "reenter">> \o rest
           todo == asks \o <<"app", "reenter">> \o rest
           new == Thread(todo, acceptCounter, request + 1)
<1>1. /\ Sound(rest) /\ ~Takes(rest) /\ (Prepares(rest) => Prepares(thr[t].todo))
      /\ r \in BOOLEAN /\ h \in Nat /\ p \in Partial /\ request + h <= MaxRequests
      /\ ~r
  BY DEF Region
<1>2. /\ receiving' = (r \/ empty)
      /\ thr' = [thr EXCEPT ![t] = new]
      /\ UNCHANGED slotVars
  BY DEF Parse
<1>3. Sound(calls) /\ ~Takes(calls) /\ (Prepares(calls) => Prepares(thr[t].todo))
  BY <1>1, PairOnTodo DEF Point, TakingPoints
<1>4. /\ Sound(todo) /\ (Takes(todo) <=> empty)
      /\ Prepares(todo) => Prepares(thr[t].todo)
  <2>1. /\ rest \in Seq(Point) /\ <<"app", "reenter">> \in Seq(Point)
        /\ <<"startReceive">> \in Seq(Point)
    BY <1>1 DEF Sound, Point
  <2>2. CASE empty
    <3>1. todo = <<"startReceive">> \o calls
      BY <2>1, <2>2, ConcatAssociative
    <3> HIDE DEF calls
    <3>2. /\ Sound(<<"startReceive">> \o calls)
          /\ Takes(<<"startReceive">> \o calls)
          /\ Prepares(<<"startReceive">> \o calls) => Prepares(calls)
      BY <1>3, LongerTodo DEF Point, TakingPoints
    <3> HIDE DEF todo
    <3> QED
      BY <1>3, <2>2, <3>1, <3>2
  <2>3. CASE ~empty
    <3>1. todo = calls
      BY <2>1, <2>3, ConcatEmptySeq
    <3> HIDE DEF calls, todo
    <3> QED
      BY <1>3, <2>3, <3>1
  <2> QED
    BY <2>2, <2>3
<1> HIDE DEF todo
<1>5. request \in Nat /\ request + 1 \in 0..MaxRequests
      /\ acceptCounter \in 0..(MaxAccepts + 1)
  BY <1>1, ConstantsAssumption DEF Core, CoreTypes
<1>6. new \in ThreadState /\ new.todo = todo /\ new.accept \in {0, acceptCounter}
  BY <1>4, <1>5, ThreadFacts DEF Sound
<1>7. /\ thr' \in [Threads -> ThreadState] /\ thr'[t] = new
      /\ \A u \in Threads \ {t} : thr'[u] = thr[u]
  <2> HIDE DEF new
  <2> QED
    BY <1>2, <1>6 DEF Core, CoreTypes
<1> HIDE DEF new
<1>8. receiving' \in BOOLEAN /\ (receiving' <=> r \/ empty)
  BY <1>2
<1>9. heads' \in Nat /\ request' \in Nat /\ request' + heads' <= MaxRequests
  BY <1>1, <1>5
<1>10. r \/ empty => heads' = 0 /\ partial' # "full" /\ (partial' = "some" => waiting')
  BY <1>1
<1>11. UNCHANGED <<phase, slotReceiving, after, acceptCounter>> /\ slotSending' \in BOOLEAN
  BY <1>2 DEF Core, CoreTypes, slotVars, connectionVars
<1>12. empty => ~r
  OBVIOUS
<1> HIDE DEF empty
<1>13. Leaves(t, todo, r, empty)
  BY <1>1, <1>4, <1>6, <1>7, <1>8, <1>9, <1>10, <1>11, <1>12 DEF Leaves
<1> QED
  BY <1>13

(* A region that answers an error, or goes on with what it was to do.       *)
LEMMA AnswersLeaves ==
    ASSUME Core, NEW t \in Threads, NEW rest, NEW h, NEW p, NEW r,
           Region(t, rest, h, p, r), ~r, SendsError(t, rest), receiving' = r,
           heads' \in Nat, partial' \in Partial, request' \in Nat, waiting' \in BOOLEAN,
           request' + heads' <= MaxRequests,
           UNCHANGED <<after, connectionVars>>,
           strays \subseteq strays', strays' \subseteq Stray
    PROVE  \E todo, start : Leaves(t, todo, r, start)
<1>1. /\ Sound(rest) /\ ~Takes(rest) /\ (Prepares(rest) => Prepares(thr[t].todo))
      /\ r \in BOOLEAN
  BY DEF Region
<1>2. /\ \E todo \in {rest, <<"close">> \o rest} : Goes(t, todo)
      /\ UNCHANGED <<phase, slotReceiving>>
      /\ slotSending' = slotSending \/ (slotSending' = TRUE /\ phase # "accepting")
  BY SendsErrorMoves
<1>3. PICK todo \in {rest, <<"close">> \o rest} : Goes(t, todo)
  BY <1>2
<1>4. /\ Sound(<<"close">> \o rest) /\ ~Takes(<<"close">> \o rest)
      /\ Prepares(<<"close">> \o rest) => Prepares(thr[t].todo)
  BY <1>1, LongerTodo DEF Point, TakingPoints
<1>5. /\ Sound(todo) /\ ~Takes(todo)
      /\ Prepares(todo) => Prepares(thr[t].todo)
  BY <1>1, <1>4
<1>6. Moves(t, todo)
  BY <1>3, <1>5, GoesMoves DEF Core, Sound
<1>7. UNCHANGED <<phase, slotReceiving, after, acceptCounter>> /\ slotSending' \in BOOLEAN
  BY <1>2 DEF Core, CoreTypes, connectionVars
<1>8. Leaves(t, todo, r, FALSE)
  BY <1>1, <1>5, <1>6, <1>7 DEF Leaves, Moves
<1> QED
  BY <1>8

LEMMA LeaveLeaves ==
    ASSUME Core, NEW t \in Threads, NEW rest, NEW h, NEW p, NEW r, NEW late,
           Region(t, rest, h, p, r), ~(waiting /\ (h > 0 \/ p = "full")),
           Leave(t, rest, h, p, r, late), late \subseteq Stray,
           UNCHANGED <<after, connectionVars>>
    PROVE  \E todo, start : Leaves(t, todo, r, start)
<1> DEFINE start == ((h = 0 /\ p = "none") \/ waiting) /\ ~r /\ ~clientClosed
           todo == Return(rest, start)
<1>1. /\ Sound(rest) /\ ~Takes(rest) /\ (Prepares(rest) => Prepares(thr[t].todo))
      /\ r \in BOOLEAN /\ h \in Nat /\ p \in Partial /\ request + h <= MaxRequests
      /\ r => h = 0 /\ p # "full" /\ (p = "some" => waiting)
  BY DEF Region
<1>2. /\ heads' = h /\ partial' = p /\ receiving' = (r \/ start)
      /\ Goes(t, todo) /\ strays' = strays \union late
      /\ UNCHANGED <<slotVars, requestVars>>
  BY DEF Leave
<1>3. /\ start => ~r
      /\ start => (h = 0 /\ p = "none") \/ waiting
  OBVIOUS
<1>4. receiving' \in BOOLEAN /\ (receiving' <=> r \/ start)
  BY <1>2
<1>5. r \/ start => heads' = 0 /\ partial' # "full" /\ (partial' = "some" => waiting)
  BY <1>1, <1>2, <1>3
<1> HIDE DEF start
<1>6. /\ Sound(todo) /\ (Takes(todo) <=> start)
      /\ Prepares(todo) => Prepares(thr[t].todo)
  <2>1. CASE ~start
    <3>1. todo = rest
      BY <2>1 DEF Return
    <3> HIDE DEF todo
    <3> QED
      BY <1>1, <2>1, <3>1
  <2>2. CASE start
    <3>1. todo \in {<<"startReceive">>, <<"checkStart">>}
      BY <2>2 DEF Return
    <3> HIDE DEF todo
    <3>2. Sound(todo) /\ Takes(todo) /\ ~Prepares(todo)
      BY <3>1, SingleTodo DEF Point, TakingPoints
    <3> QED
      BY <2>2, <3>2
  <2> QED
    BY <2>1, <2>2
<1> HIDE DEF todo
<1>7. Moves(t, todo)
  BY <1>2, <1>6, GoesMoves DEF Core, Sound
<1>8. /\ UNCHANGED <<phase, slotReceiving, after, acceptCounter>> /\ slotSending' \in BOOLEAN
      /\ waiting' = waiting /\ waiting' \in BOOLEAN /\ request' = request /\ request' \in Nat
      /\ strays \subseteq strays' /\ strays' \subseteq Stray
  BY <1>2, ConstantsAssumption DEF Core, CoreTypes, slotVars, connectionVars, requestVars
<1>9. Leaves(t, todo, r, start)
  BY <1>1, <1>2, <1>3, <1>4, <1>5, <1>6, <1>7, <1>8 DEF Leaves, Moves
<1> QED
  BY <1>9

LEMMA ProcessKeeps ==
    ASSUME Core, NEW t \in Threads, NEW rest, NEW h, NEW p, NEW r, NEW late,
           Region(t, rest, h, p, r), ProcessReceive(t, rest, h, p, r, late),
           late \subseteq Stray, UNCHANGED <<after, connectionVars>>
    PROVE  Core'
<1>1. /\ r \in BOOLEAN /\ h \in Nat /\ p \in Partial /\ request + h <= MaxRequests
      /\ r => h = 0 /\ p # "full"
      /\ request \in Nat /\ strays \subseteq Stray /\ ~Takes(rest)
  BY ConstantsAssumption DEF Region, Core, CoreTypes
<1>2. CASE h > 0 /\ ParseRequest(t, rest, h, p, r, late)
  <2>1. /\ waiting' = FALSE /\ heads' = h - 1 /\ partial' = p /\ request' = request + 1
        /\ strays' = strays \union late
    BY <1>2 DEF ParseRequest
  <2>2. ~r /\ heads' \in Nat /\ request' \in Nat /\ request' + heads' <= MaxRequests
    BY <1>1, <1>2, <2>1
  <2>3. strays \subseteq strays' /\ strays' \subseteq Stray
    BY <1>1, <2>1
  <2>4. CASE Parse(t, rest, h, p, r)
    BY <1>2, <2>1, <2>3, <2>4, ParseLeaves, RegionKeeps
  <2>5. CASE ParseFails(t, rest, r)
    <3>1. receiving' = r /\ SendsError(t, rest)
      BY <2>5 DEF ParseFails
    <3> QED
      BY <1>1, <2>1, <2>2, <2>3, <3>1, AnswersLeaves, RegionKeeps
  <2> QED
    BY <1>2, <2>4, <2>5 DEF ParseRequest
<1>3. CASE p = "full" /\ RefuseLongHead(t, rest, r, late)
  <2>1. /\ heads' = 0 /\ partial' = "full" /\ receiving' = r /\ SendsError(t, rest)
        /\ request' = request /\ waiting' = waiting
        /\ strays \subseteq strays' /\ strays' \subseteq Stray
    BY <1>1, <1>3 DEF RefuseLongHead, requestVars, Stray
  <2>2. /\ ~r /\ heads' \in Nat /\ partial' \in Partial /\ request' \in Nat
        /\ request' + heads' <= MaxRequests /\ waiting' \in BOOLEAN
    BY <1>1, <1>3, <2>1 DEF Partial, Core, CoreTypes
  <2> QED
    BY <2>1, <2>2, AnswersLeaves, RegionKeeps
<1>4. CASE ~(waiting /\ (h > 0 \/ p = "full")) /\ Leave(t, rest, h, p, r, late)
  BY <1>1, <1>4, LeaveLeaves, RegionKeeps
<1> QED
  BY <1>2, <1>3, <1>4 DEF ProcessReceive

LEMMA ProcessStrays ==
    ASSUME NEW t, NEW rest, NEW h, NEW p, NEW r, NEW late,
           ProcessReceive(t, rest, h, p, r, late)
    PROVE  strays \subseteq strays' /\ late \subseteq strays'
<1>1. CASE ParseRequest(t, rest, h, p, r, late)
  BY <1>1 DEF ParseRequest
<1>2. CASE RefuseLongHead(t, rest, r, late)
  BY <1>2 DEF RefuseLongHead
<1>3. CASE Leave(t, rest, h, p, r, late)
  BY <1>3 DEF Leave
<1> QED
  BY <1>1, <1>2, <1>3 DEF ProcessReceive

LEMMA ProcessReceivedKeeps ==
    ASSUME Core, NEW t \in Threads, ProcessReceived(t) PROVE Core'
<1> DEFINE rest == <<"check">>
<1>1. /\ Sound(thr[t].todo) /\ thr[t].todo # <<>>
      /\ Head(thr[t].todo) \in {"accepted", "received"}
  BY DEF ProcessReceived, Runs, At, Core, ThreadsInv
<1>2. Takes(thr[t].todo)
  BY <1>1, HeadOfTodo DEF TakingPoints
<1>3. Sound(rest) /\ ~Takes(rest) /\ ~Prepares(rest)
  BY SingleTodo DEF Point, TakingPoints
<1> HIDE DEF rest
<1>4. ASSUME strays \subseteq strays', NEW h \in Nat, NEW p \in Partial,
             request + h <= MaxRequests
      PROVE  Region(t, rest, h, p, FALSE)
  <2>1. ASSUME Clean' PROVE /\ phase # "accepting" /\ ~slotReceiving
                            /\ \A u \in Threads \ {t} : ~Takes(thr[u].todo)
    BY <1>2, <1>4, <2>1, TakingAlone DEF Clean
  <2> QED
    BY <1>3, <1>4, <2>1 DEF Region
<1>5. UNCHANGED <<after, connectionVars>>
  BY DEF ProcessReceived
<1>6. /\ heads \in Nat /\ request \in Nat /\ partial \in Partial
      /\ request + heads <= MaxRequests
  BY DEF Core, CoreTypes, BufferInv
<1>7. CASE after
  <2>1. /\ receiving' = FALSE /\ Goes(t, rest)
        /\ UNCHANGED <<slotVars, heads, partial, requestVars, strays>>
    BY <1>7 DEF ProcessReceived, rest
  <2>2. Region(t, rest, heads, partial, FALSE)
    BY <1>4, <1>6, <2>1
  <2>3. Moves(t, rest)
    BY <1>3, <2>1, GoesMoves DEF Core, Sound
  <2>4. Leaves(t, rest, FALSE, FALSE)
    BY <1>3, <1>5, <1>6, <2>1, <2>3
    DEF Leaves, Moves, Core, CoreTypes, slotVars, requestVars, connectionVars
  <2> QED
    BY <2>2, <2>4, RegionKeeps
<1>8. CASE ~after
  <2>1. PICK n \in 0..MaxRequests, q \in Partial :
          /\ Arrives(n, q)
          /\ ProcessReceive(t, rest, heads + n,
                            IF n = 0 /\ q = "none" THEN partial ELSE q, FALSE, {})
    BY <1>8 DEF ProcessReceived, rest
  <2> DEFINE p == IF n = 0 /\ q = "none" THEN partial ELSE q
             h == heads + n
  <2>2. p \in Partial /\ h \in Nat /\ request + h <= MaxRequests
    BY <1>6, <2>1 DEF Arrives
  <2>3. ProcessReceive(t, rest, h, p, FALSE, {})
    BY <2>1
  <2> HIDE DEF p, h
  <2>4. strays \subseteq strays'
    BY <2>3, ProcessStrays
  <2>5. Region(t, rest, h, p, FALSE)
    BY <1>4, <2>2, <2>4
  <2> DEFINE r == FALSE
             none == {}
  <2>6. /\ Region(t, rest, h, p, r) /\ ProcessReceive(t, rest, h, p, r, none)
        /\ none \subseteq Stray
    BY <2>3, <2>5
  <2> HIDE DEF r, none
  <2> QED
    BY <1>5, <2>6, ProcessKeeps
<1> QED
  BY <1>7, <1>8

(* A thread of the present client may use the buffer of the present client. *)
LEMMA OwnRegion ==
    ASSUME Core, NEW t \in Threads, NEW rest, ~Takes(thr[t].todo),
           Sound(rest), ~Takes(rest), Prepares(rest) => Prepares(thr[t].todo),
           strays \subseteq strays', Clean' => thr[t].accept = acceptCounter
    PROVE  Region(t, rest, heads, partial, receiving)
<1>1. /\ receiving \in BOOLEAN /\ heads \in Nat /\ partial \in Partial
      /\ request + heads <= MaxRequests
      /\ receiving => heads = 0 /\ partial # "full" /\ (partial = "some" => waiting)
  BY DEF Core, CoreTypes, BufferInv
<1>2. ASSUME Clean'
      PROVE  /\ phase # "accepting"
             /\ receiving <=> slotReceiving \/ \E u \in Threads \ {t} : Takes(thr[u].todo)
             /\ slotReceiving => \A u \in Threads \ {t} : ~Takes(thr[u].todo)
             /\ \A u, v \in Threads \ {t} :
                   Takes(thr[u].todo) /\ Takes(thr[v].todo) => u = v
  <2>1. AcceptingInv /\ ReceivingInv /\ thr[t].accept = acceptCounter
    BY <1>2 DEF Core, Clean
  <2>2. phase # "accepting"
    BY <2>1, AcceptIsNumber DEF Core, AcceptingInv
  <2> QED
    BY <2>1, <2>2 DEF ReceivingInv
<1> QED
  BY <1>1, <1>2 DEF Region

LEMMA ReenterKeeps ==
    ASSUME Core, NEW t \in Threads, Reenter(t) PROVE Core'
<1>1. At(t, "reenter") /\ UNCHANGED <<after, connectionVars>>
  BY DEF Reenter, Runs
<1>2. ~Takes(thr[t].todo) /\ Steady(thr[t].todo, Rest(t))
  BY <1>1, TodoAt DEF TakingPoints
<1>3. CASE thr[t].accept # acceptCounter
  <2>1. /\ Goes(t, Rest(t))
        /\ UNCHANGED <<slotVars, receiveVars, connectionVars, waiting, request, strays>>
    BY <1>1, <1>3 DEF Reenter, receiveVars, requestVars
  <2> QED
    BY <1>2, <2>1, LocalKeeps DEF Core, CoreTypes
<1>4. CASE thr[t].accept = acceptCounter
  <2>1. ProcessReceive(t, Rest(t), heads, partial, receiving, {})
    BY <1>4 DEF Reenter
  <2>2. Region(t, Rest(t), heads, partial, receiving)
    BY <1>2, <1>4, <2>1, ProcessStrays, OwnRegion DEF Steady
  <2> QED
    BY <1>1, <2>1, <2>2, ProcessKeeps
<1> QED
  BY <1>3, <1>4

LEMMA StartNextReceiveKeeps ==
    ASSUME Core, NEW t \in Threads, StartNextReceive(t) PROVE Core'
<1> DEFINE late == Late(t, TRUE)
<1>1. /\ At(t, "next") /\ UNCHANGED <<after, connectionVars>>
      /\ ProcessReceive(t, <<>>, heads, partial, receiving, late)
  BY DEF StartNextReceive, Runs
<1>2. ~Takes(thr[t].todo)
  BY <1>1, TodoAt DEF TakingPoints
<1>3. late \subseteq Stray
  BY LateIsStray
<1>4. thr[t].accept # acceptCounter => late # {}
  BY DEF Late
<1> HIDE DEF late
<1>5. strays \subseteq strays' /\ late \subseteq strays'
  BY <1>1, ProcessStrays
<1>6. Clean' => thr[t].accept = acceptCounter
  BY <1>4, <1>5 DEF Clean
<1>7. Region(t, <<>>, heads, partial, receiving)
  BY <1>2, <1>5, <1>6, EmptyTodo, OwnRegion
<1> QED
  BY <1>1, <1>3, <1>7, ProcessKeeps

LEMMA CoreStep == Core /\ [Next]_vars => Core'
<1> SUFFICES ASSUME Core, [Next]_vars PROVE Core'
  OBVIOUS
<1>1. CASE UNCHANGED vars
  BY <1>1 DEF vars, slotVars, receiveVars, connectionVars, requestVars, Core, CoreTypes,
     ThreadsInv, PrepareInv, BufferInv, AcceptingInv, ReceivingInv, Clean
<1>2. CASE PrepareAccept \/ FinishAccept \/ FinishReceive \/ FinishReceiveClosed \/ FinishSend
  BY <1>2, PrepareAcceptKeeps, FinishAcceptKeeps, FinishReceiveKeeps,
     FinishReceiveClosedKeeps, FinishSendKeeps
<1>3. ASSUME NEW t \in Threads, Run(t) PROVE Core'
  <2>1. CASE App(t)
    BY <2>1, AppContinuesLaterKeeps, AppFlushesKeeps, AppDisconnectsKeeps, AppEndsKeeps,
       AppThrowsKeeps DEF App
  <2>2. CASE \/ AppAwaited(t) \/ RealPrepareAccept(t) \/ ProcessReceived(t)
             \/ CheckAfter(t) \/ NoteClosed(t) \/ TellClosed(t)
    BY <2>2, AppAwaitedKeeps, RealPrepareAcceptKeeps, ProcessReceivedKeeps,
       CheckAfterKeeps, NoteClosedKeeps, TellClosedKeeps
  <2>3. CASE \/ StartReceive(t) \/ Reenter(t) \/ Report(t) \/ Caught(t)
             \/ StartSend(t) \/ StartSendError(t)
    BY <2>3, StartReceiveKeeps, ReenterKeeps, ReportKeeps, CaughtKeeps,
       StartSendKeeps, StartSendErrorKeeps
  <2>4. CASE \/ AfterSend(t) \/ ResetForNextRequest(t) \/ StartNextReceive(t)
             \/ CloseConnection(t)
    BY <2>4, AfterSendKeeps, ResetKeeps, StartNextReceiveKeeps, CloseKeeps
  <2> QED
    BY <1>3, <2>1, <2>2, <2>3, <2>4 DEF Run
<1> QED
  BY <1>1, <1>2, <1>3 DEF Next

LEMMA CoreInit == Init => Core
<1> SUFFICES ASSUME Init PROVE Core
  OBVIOUS
<1>1. /\ phase = "new" /\ slotReceiving = FALSE /\ slotSending = FALSE
      /\ receiving = FALSE /\ after = FALSE /\ heads = 0 /\ partial = "none"
      /\ acceptCounter = 0 /\ waiting = FALSE /\ request = 0 /\ strays = {}
      /\ thr = [t \in Threads |-> Idle]
  BY DEF Init, Slot!Init
<1>2. Idle \in ThreadState /\ Idle.todo = <<>> /\ Idle.accept = 0
  BY ConstantsAssumption DEF Idle, ThreadState
<1>3. \A t \in Threads : /\ Sound(thr[t].todo) /\ ~Takes(thr[t].todo)
                         /\ ~Prepares(thr[t].todo) /\ thr[t].accept = 0
  BY <1>1, <1>2, EmptyTodo
<1>4. CoreTypes
  <2>1. thr \in [Threads -> ThreadState]
    <3> HIDE DEF Idle
    <3> QED
      BY <1>1, <1>2
  <2>2. heads \in 0..MaxRequests /\ request \in 0..MaxRequests
        /\ acceptCounter \in 0..(MaxAccepts + 1) /\ strays \subseteq Stray
    BY <1>1, ConstantsAssumption
  <2>3. phase \in Slot!Phase /\ partial \in Partial
    BY <1>1 DEF Slot!Phase, Partial
  <2> QED
    BY <1>1, <2>1, <2>2, <2>3 DEF CoreTypes
<1>5. ThreadsInv
  BY <1>1, <1>3 DEF ThreadsInv
<1>6. PrepareInv /\ BufferInv
  BY <1>1, <1>3, ConstantsAssumption DEF PrepareInv, BufferInv
<1>7. AcceptingInv /\ ReceivingInv
  BY <1>1, <1>3 DEF AcceptingInv, ReceivingInv
<1> QED
  BY <1>4, <1>5, <1>6, <1>7 DEF Core

----------------------------------------------------------------------------
(* The other types                                                         *)

LEMMA ResponseTypes ==
    ASSUME OtherTypes, NEW point, NEW failed \in BOOLEAN,
           ResponseFinished(point, failed)
    PROVE  /\ keepAlive' \in BOOLEAN /\ headersSent' \in BOOLEAN
           /\ lastPacket' \in BOOLEAN /\ cancelled' \in BOOLEAN /\ tcsSend' = tcsSend
<1>1. CASE RespondFailure(point, failed)
  BY <1>1 DEF ResponseFinished, RespondFailure, OtherTypes
<1>2. CASE RespondNormally(point)
  BY <1>2 DEF ResponseFinished, RespondNormally, OtherTypes
<1> QED
  BY <1>1, <1>2 DEF ResponseFinished

(* SendsError starts a send or leaves the slot alone.                       *)
LEMMA SendsErrorTypes ==
    ASSUME NEW t, NEW rest, SendsError(t, rest) PROVE closing' = closing
  BY DEF SendsError, slotVars, Slot!StartSend

LEMMA ProcessTypes ==
    ASSUME OtherTypes, NEW t, NEW rest, NEW h, NEW p, NEW r, NEW late,
           ProcessReceive(t, rest, h, p, r, late), UNCHANGED connectionVars
    PROVE  OtherTypes'
<1>1. CASE ParseRequest(t, rest, h, p, r, late)
  <2>1. /\ lastFinished' = "null" /\ disconnected' = FALSE /\ tcsSend' = tcsSend
        /\ Parse(t, rest, h, p, r) \/ ParseFails(t, rest, r)
    BY <1>1 DEF ParseRequest
  <2>2. CASE Parse(t, rest, h, p, r)
    BY <2>1, <2>2 DEF Parse, OtherTypes, slotVars, connectionVars
  <2>3. CASE ParseFails(t, rest, r)
    <3>1. closing' = closing /\ RespondFailure("sendError", TRUE)
      BY <2>3, SendsErrorTypes DEF ParseFails
    <3>2. /\ keepAlive' \in BOOLEAN /\ headersSent' \in BOOLEAN
          /\ lastPacket' \in BOOLEAN /\ cancelled' \in BOOLEAN
      BY <3>1 DEF RespondFailure, OtherTypes
    <3> QED
      BY <2>1, <3>1, <3>2 DEF OtherTypes, connectionVars
  <2> QED
    BY <2>1, <2>2, <2>3
<1>2. CASE RefuseLongHead(t, rest, r, late)
  <2>1. closing' = closing
    BY <1>2, SendsErrorTypes DEF RefuseLongHead
  <2> QED
    BY <1>2, <2>1 DEF RefuseLongHead, OtherTypes, connectionVars, requestVars, owinVars
<1>3. CASE Leave(t, rest, h, p, r, late)
  BY <1>3 DEF Leave, OtherTypes, slotVars, connectionVars, responseVars, requestVars, owinVars
<1> QED
  BY <1>1, <1>2, <1>3 DEF ProcessReceive

LEMMA OtherStep == OtherTypes /\ [Next]_vars => OtherTypes'
<1> SUFFICES ASSUME OtherTypes, [Next]_vars PROVE OtherTypes'
  OBVIOUS
<1> USE DEF slotVars, connectionVars, responseVars, requestVars, owinVars
<1>1. CASE UNCHANGED vars
  BY <1>1 DEF vars, OtherTypes
<1>2. CASE PrepareAccept
  BY <1>2 DEF PrepareAccept, OtherTypes, Slot!PrepareAccept
<1>3. CASE FinishAccept
  BY <1>3 DEF FinishAccept, OtherTypes, Slot!FinishAccept
<1>4. CASE FinishReceive
  BY <1>4 DEF FinishReceive, OtherTypes, Slot!FinishReceive
<1>5. CASE FinishReceiveClosed
  BY <1>5 DEF FinishReceiveClosed, OtherTypes, Slot!FinishReceive
<1>6. CASE FinishSend
  BY <1>6 DEF FinishSend, OtherTypes, Slot!FinishSend
<1>7. ASSUME NEW t \in Threads, Run(t) PROVE OtherTypes'
  <2>1. CASE AppAwaited(t)
    BY <2>1 DEF AppAwaited, OtherTypes
  <2>2. CASE RealPrepareAccept(t)
    BY <2>2 DEF RealPrepareAccept, CallDown, OtherTypes, Slot!StartAccept
  <2>3. CASE ProcessReceived(t)
    BY <2>3, ProcessTypes DEF ProcessReceived, OtherTypes
  <2>4. CASE CheckAfter(t)
    BY <2>4 DEF CheckAfter, OtherTypes
  <2>5. CASE NoteClosed(t)
    BY <2>5 DEF NoteClosed, OtherTypes
  <2>6. CASE TellClosed(t)
    BY <2>6 DEF TellClosed, OtherTypes
  <2>7. CASE StartReceive(t)
    BY <2>7 DEF StartReceive, CallDown, OtherTypes, Slot!StartReceive
  <2>8. CASE Reenter(t)
    BY <2>8, ProcessTypes DEF Reenter, OtherTypes
  <2>9. CASE AppContinuesLater(t)
    BY <2>9 DEF AppContinuesLater, OtherTypes
  <2>10. CASE AppFlushes(t)
    BY <2>10 DEF AppFlushes, OtherTypes
  <2>11. CASE AppDisconnects(t)
    BY <2>11 DEF AppDisconnects, OtherTypes
  <2>12. CASE AppEnds(t)
    BY <2>12, ResponseTypes DEF AppEnds, OtherTypes
  <2>13. CASE AppThrows(t)
    BY <2>13, ResponseTypes DEF AppThrows, OtherTypes
  <2>14. CASE Report(t)
    BY <2>14 DEF Report, OtherTypes
  <2>15. CASE Caught(t)
    BY <2>15, ResponseTypes, SendsErrorTypes DEF Caught, OtherTypes
  <2>16. CASE StartSend(t)
    BY <2>16 DEF StartSend, CallDown, OtherTypes, Slot!StartSend
  <2>17. CASE StartSendError(t)
    BY <2>17, SendsErrorTypes DEF StartSendError, OtherTypes
  <2>18. CASE AfterSend(t)
    BY <2>18 DEF AfterSend, OtherTypes
  <2>19. CASE ResetForNextRequest(t)
    BY <2>19 DEF ResetForNextRequest, OtherTypes
  <2>20. CASE StartNextReceive(t)
    BY <2>20, ProcessTypes DEF StartNextReceive, OtherTypes
  <2>21. CASE CloseConnection(t)
    BY <2>21 DEF CloseConnection, CallDown, OtherTypes, Slot!StartDisconnect
  <2> QED
    BY <1>7, <2>1, <2>2, <2>3, <2>4, <2>5, <2>6, <2>7, <2>8, <2>9, <2>10, <2>11, <2>12,
       <2>13, <2>14, <2>15, <2>16, <2>17, <2>18, <2>19, <2>20, <2>21 DEF Run, App
<1> QED
  BY <1>1, <1>2, <1>3, <1>4, <1>5, <1>6, <1>7 DEF Next

LEMMA IInvHolds == Spec => []IInv
<1>1. Init => OtherTypes
  BY DEF Init, Slot!Init, OtherTypes
<1>2. Init => IInv
  BY <1>1, CoreInit DEF IInv
<1>3. IInv /\ [Next]_vars => IInv'
  BY CoreStep, OtherStep DEF IInv
<1> QED
  BY <1>2, <1>3, PTL DEF Spec

----------------------------------------------------------------------------
(* The theorems                                                            *)

(* The types of the connection: among them that no request is counted twice *)
(* and that no client is accepted beyond those that were asked for, which   *)
(* need that one thread at most prepares the accept (RealPrepareAccept).    *)
THEOREM TypeCorrect == Spec => []TypeOK
<1>1. IInv => TypeOK
  BY DEF IInv, Core, CoreTypes, OtherTypes, TypeOK, Slot!TypeOK, ThreadState
<1> QED
  BY <1>1, IInvHolds, PTL

(* _receiving, which the lock regions of FinishReceive, HandleRequest and   *)
(* StartNextReceive read and write, tells exactly whether a receive is      *)
(* outstanding or one thread is about to process or to start one.           *)
THEOREM ReceivingIsExact == Spec => []ReceivingExact
<1>1. IInv => ReceivingExact
  <2> SUFFICES ASSUME IInv, Clean
               PROVE  /\ receiving <=> slotReceiving \/ Taking # {}
                      /\ Cardinality(Taking) <= 1
                      /\ slotReceiving => Taking = {}
    BY DEF ReceivingExact
  <2>1. ReceivingInv
    BY DEF IInv, Core
  <2>2. Taking = {t \in Threads : Takes(thr[t].todo)}
    BY DEF Taking, Takes, TakingPoints
  <2>3. /\ receiving <=> slotReceiving \/ Taking # {}
        /\ slotReceiving => Taking = {}
        /\ \A t, u \in Taking : t = u
    BY <2>1, <2>2 DEF ReceivingInv
  <2>4. CASE Taking = {}
    BY <2>3, <2>4, FS_EmptySet
  <2>5. CASE Taking # {}
    <3>1. PICK t : Taking = {t}
      BY <2>3, <2>5
    <3>2. Cardinality(Taking) = 1
      BY <3>1, FS_Singleton
    <3> QED
      BY <2>3, <3>2
  <2> QED
    BY <2>4, <2>5
<1> QED
  BY <1>1, IInvHolds, PTL

(* While a receive is outstanding the buffer holds nothing to process and   *)
(* has room: the assertions of FinishReceive and RealStartNextReceive.      *)
THEOREM BufferIsStill == Spec => []BufferStill
<1>1. IInv => BufferStill
  BY DEF IInv, Core, BufferInv, ReceivingInv, BufferStill
<1> QED
  BY <1>1, IInvHolds, PTL

(* The accept of the next client is prepared once: by one thread, or left   *)
(* to the end of the outstanding receive (_afterReceiveContinueWithAccept), *)
(* and only after the transport asked for it.                               *)
PreparedOnce ==
    /\ Cardinality({t \in Threads : Passes(thr[t].todo, {"realPrepareAccept"})}) <= 1
    /\ \A t \in Threads : Passes(thr[t].todo, {"realPrepareAccept"}) =>
          ~after /\ phase = "asked"
    /\ after => phase = "asked"

THEOREM AcceptIsPreparedOnce == Spec => []PreparedOnce
<1>1. IInv => PreparedOnce
  <2> SUFFICES ASSUME IInv PROVE PreparedOnce
    OBVIOUS
  <2> DEFINE S == {t \in Threads : Passes(thr[t].todo, {"realPrepareAccept"})}
  <2>1. PrepareInv
    BY DEF IInv, Core
  <2>2. \A t, u \in S : t = u
    BY <2>1 DEF PrepareInv, Prepares
  <2>3. /\ \A t \in S : ~after /\ phase = "asked"
        /\ after => phase = "asked"
    BY <2>1 DEF PrepareInv, Prepares
  <2>4. PreparedOnce <=> /\ Cardinality(S) <= 1
                         /\ \A t \in S : ~after /\ phase = "asked"
                         /\ after => phase = "asked"
    BY DEF PreparedOnce
  <2> HIDE DEF S
  <2>5. CASE S = {}
    BY <2>3, <2>4, <2>5, FS_EmptySet
  <2>6. CASE S # {}
    <3>1. PICK t : S = {t}
      BY <2>2, <2>6
    <3>2. Cardinality(S) = 1
      BY <3>1, FS_Singleton
    <3> QED
      BY <2>3, <2>4, <3>2
  <2> QED
    BY <2>5, <2>6
<1> QED
  BY <1>1, IInvHolds, PTL

=============================================================================
