--------------------------- MODULE ConnectionPool ---------------------------
(***************************************************************************)
(* The pool of connection slots: Server.cs with ConnectionBlock.cs and     *)
(* ConnectionAllocationStrategy.cs.  Every accepted client increments      *)
(* ConnectedCount and looks, without a lock, whether too few slots are     *)
(* free; if so a task looks again under _newConnectionLock and builds a    *)
(* block of new slots while it holds the lock.  Slots are never given back.*)
(* Slots are counted, not named: what a slot does between its client's     *)
(* accept and disconnect is the subject of the other modules.              *)
(***************************************************************************)
EXTENDS Integers

CONSTANTS
    StartCount, DeltaCount, MaxCount, KeepFree,   \* the strategy's fields
    MaxLate,    \* bound on clients counted after their slot accepts again
    MaxQueued   \* bound on checks and tasks under way when a client connects

ASSUME StrategyAssumption ==
    /\ StartCount \in Nat /\ DeltaCount \in Nat
    /\ MaxCount \in Nat /\ KeepFree \in Nat

ASSUME BoundsAssumption == MaxLate \in Nat /\ MaxQueued \in Nat

VARIABLES
    allocated,  \* AllocatedConnections
    connected,  \* ConnectedCount
    starting,   \* slots of the first block that Start has still to build
    building,   \* slots of the locked task's block it has still to build
    lock,       \* _newConnectionLock: free, held by a task that builds, or by
                \* one that runs the application for a client it accepted
    idle,       \* slots that wait for a client
    checks,     \* clients between Increment and the check, by what it returned
    checking,   \* how many these are
    busy,       \* clients past the check
    late,       \* clients gone whose disconnect has not been reported yet
    queued,     \* tasks started and not yet holding the lock
    phantom,    \* slots counted in allocated whose block failed to build
    bag,        \* blocks in _blocks
    stage,      \* Dispose: new strategy, listener disposed, blocks stopped
    peak        \* history: the largest ConnectedCount so far

slotVars == <<starting, building, idle, phantom>>
clientVars == <<connected, checks, checking, busy, late, peak>>
vars == <<allocated, slotVars, clientVars, lock, queued, bag, stage>>

(* No more slots than this are ever allocated (AllocationBound).            *)
Ceiling == IF StartCount >= MaxCount + DeltaCount THEN StartCount
                                                  ELSE MaxCount + DeltaCount

(* What Increment can return.                                               *)
Counts == 0..(Ceiling + MaxLate)

TypeOK ==
    /\ allocated \in Nat /\ connected \in Nat /\ peak \in Nat
    /\ starting \in Nat /\ building \in Nat /\ idle \in Nat /\ phantom \in Nat
    /\ checking \in Nat /\ busy \in Nat /\ late \in Nat
    /\ queued \in Nat /\ bag \in Nat
    /\ lock \in {"free", "build", "app"}
    /\ checks \in [Counts -> Nat]
    /\ stage \in {"running", "finishing", "closed", "disposed"}

(* Mutation: _maxCount is forgotten. *)
CalculateWithoutMax(current, connectedCount) ==
    IF current = 0 THEN StartCount
    ELSE IF current - connectedCount < KeepFree THEN DeltaCount ELSE 0

CalculateNewConnectionCount(current, connectedCount) ==
    IF current = 0 THEN StartCount
    ELSE IF current >= MaxCount THEN 0
    ELSE IF current - connectedCount < KeepFree THEN DeltaCount ELSE 0

(* The strategy in force: Dispose replaces it by one that answers 0.       *)
Wanted(current, connectedCount) ==
    IF stage = "running"
      THEN CalculateNewConnectionCount(current, connectedCount) ELSE 0

(* Start has set AllocatedConnections and begins to build the first block. *)
Init ==
    /\ allocated = StartCount /\ starting = StartCount
    /\ connected = 0 /\ building = 0 /\ lock = "free" /\ idle = 0
    /\ checks = [n \in Counts |-> 0]
    /\ checking = 0 /\ busy = 0 /\ late = 0 /\ queued = 0 /\ phantom = 0
    /\ bag = IF StartCount = 0 THEN 1 ELSE 0
    /\ stage = "running" /\ peak = 0

----------------------------------------------------------------------------
(* Clients                                                                 *)

(* ReportNewConnectedClient up to the Increment.                           *)
Counted ==
    /\ connected' = connected + 1
    /\ checks' = [checks EXCEPT ![connected + 1] = @ + 1]
    /\ checking' = checking + 1
    /\ peak' = IF connected + 1 > peak THEN connected + 1 ELSE peak
    /\ UNCHANGED <<busy, late>>

Connect ==
    /\ idle > 0 /\ checking + queued < MaxQueued
    /\ stage \in {"running", "finishing"}
    /\ idle' = idle - 1
    /\ Counted
    /\ UNCHANGED <<allocated, starting, building, phantom, lock, queued, bag,
                   stage>>

(* The check, with the count this client saw and AllocatedConnections as    *)
(* it is by now.                                                            *)
Check ==
    \E n \in Counts :
      /\ checks[n] > 0 /\ checking > 0
      /\ checks' = [checks EXCEPT ![n] = @ - 1]
      /\ checking' = checking - 1
      /\ busy' = busy + 1
      /\ queued' = IF Wanted(allocated, n) > 0 THEN queued + 1 ELSE queued
      /\ UNCHANGED <<allocated, connected, late, peak, slotVars, lock, bag,
                     stage>>

(* Mutation: the delayed thread reports a client already reported. *)
DisconnectTwice ==
    /\ busy > 0
    /\ busy' = busy - 1
    /\ idle' = idle + 1
    /\ connected' = connected - 1
    /\ late' = IF late < MaxLate THEN late + 1 ELSE late
    /\ UNCHANGED <<allocated, starting, building, phantom, checks, checking,
                   peak, lock, queued, bag, stage>>

(* The slot is prepared for the next client after the disconnect has been   *)
(* reported, or before, when a receive was still outstanding.               *)
Disconnect ==
    /\ busy > 0
    /\ busy' = busy - 1
    /\ idle' = idle + 1
    /\ \/ connected' = connected - 1 /\ UNCHANGED late
       \/ late < MaxLate /\ late' = late + 1 /\ UNCHANGED connected
    /\ UNCHANGED <<allocated, starting, building, phantom, checks, checking,
                   peak, lock, queued, bag, stage>>

ReportLate ==
    /\ late > 0
    /\ late' = late - 1
    /\ connected' = connected - 1
    /\ UNCHANGED <<allocated, slotVars, checks, checking, busy, peak, lock,
                   queued, bag, stage>>

----------------------------------------------------------------------------
(* Building slots                                                          *)

(* Start builds the first block without the lock.                          *)
BuildFirst ==
    /\ starting > 0
    /\ starting' = starting - 1
    /\ idle' = idle + 1
    /\ bag' = IF starting = 1 THEN bag + 1 ELSE bag
    /\ UNCHANGED <<allocated, building, phantom, clientVars, lock, queued,
                   stage>>

(* Mutation: the task trusts the check made outside the lock. *)
RunTaskUnchecked ==
    /\ queued > 0 /\ lock = "free" /\ stage = "running"
    /\ queued' = queued - 1
    /\ allocated' = allocated + DeltaCount
    /\ building' = DeltaCount
    /\ lock' = "build"
    /\ UNCHANGED <<starting, idle, phantom, clientVars, bag, stage>>

(* Mutation: a task that finds the lock taken gives up. *)
RunTaskOrGiveUp ==
    /\ queued > 0
    /\ queued' = queued - 1
    /\ LET delta == IF lock = "free" THEN Wanted(allocated, connected) ELSE 0 IN
         IF delta > 0
           THEN /\ allocated' = allocated + delta
                /\ building' = delta
                /\ lock' = "build"
           ELSE UNCHANGED <<allocated, building, lock>>
    /\ UNCHANGED <<starting, idle, phantom, clientVars, bag, stage>>

(* Mutation: the added slots are not counted. *)
RunTaskUncounted ==
    /\ queued > 0 /\ lock = "free"
    /\ queued' = queued - 1
    /\ LET delta == Wanted(allocated, connected) IN
         IF delta > 0
           THEN building' = delta /\ lock' = "build"
           ELSE UNCHANGED <<building, lock>>
    /\ UNCHANGED <<allocated, starting, idle, phantom, clientVars, bag, stage>>

RunTask ==
    /\ queued > 0 /\ lock = "free"
    /\ queued' = queued - 1
    /\ LET delta == Wanted(allocated, connected) IN
         IF delta > 0
           THEN /\ allocated' = allocated + delta
                /\ building' = delta
                /\ lock' = "build"
           ELSE UNCHANGED <<allocated, building, lock>>
    /\ UNCHANGED <<starting, idle, phantom, clientVars, bag, stage>>

(* PrepareAccept of one new slot.  When its accept finishes at once, the    *)
(* constructor serves the client, application included, under the lock.     *)
BuildSlot ==
    /\ lock = "build" /\ building > 0
    /\ building' = building - 1
    /\ \/ idle' = idle + 1 /\ UNCHANGED <<clientVars, lock>>
       \/ Counted /\ lock' = "app" /\ UNCHANGED idle
    /\ UNCHANGED <<allocated, starting, phantom, queued, bag, stage>>

AppReturns ==
    /\ lock = "app"
    /\ lock' = "build"
    /\ UNCHANGED <<allocated, slotVars, clientVars, queued, bag, stage>>

FinishBlock ==
    /\ lock = "build" /\ building = 0
    /\ lock' = "free"
    /\ bag' = bag + 1
    /\ UNCHANGED <<allocated, slotVars, clientVars, queued, stage>>

(* The buffer of the block is not granted: the constructor throws before    *)
(* its first slot, and AllocatedConnections keeps the promised number.      *)
BuildFails ==
    /\ lock = "build" /\ building = DeltaCount
    /\ phantom' = phantom + building
    /\ building' = 0
    /\ lock' = "free"
    /\ UNCHANGED <<allocated, starting, idle, clientVars, queued, bag, stage>>

----------------------------------------------------------------------------
(* Dispose                                                                 *)

(* Mutation: the strategy is replaced without the lock. *)
FinishUnlocked ==
    /\ stage = "running" /\ starting = 0
    /\ stage' = "finishing"
    /\ UNCHANGED <<allocated, slotVars, clientVars, lock, queued, bag>>

Finish ==
    /\ stage = "running" /\ starting = 0 /\ lock = "free"
    /\ stage' = "finishing"
    /\ UNCHANGED <<allocated, slotVars, clientVars, lock, queued, bag>>

CloseListener ==
    /\ stage = "finishing"
    /\ stage' = "closed"
    /\ UNCHANGED <<allocated, slotVars, clientVars, lock, queued, bag>>

StopBlock ==
    /\ stage = "closed"
    /\ IF bag > 0 THEN bag' = bag - 1 /\ UNCHANGED stage
                  ELSE stage' = "disposed" /\ UNCHANGED bag
    /\ UNCHANGED <<allocated, slotVars, clientVars, lock, queued>>

Next ==
    \/ Connect \/ Check \/ Disconnect \/ ReportLate
    \/ BuildFirst \/ RunTask \/ BuildSlot \/ AppReturns \/ FinishBlock
    \/ BuildFails \/ Finish \/ CloseListener \/ StopBlock

(* Threads that run are not stopped for ever, the thread pool runs its      *)
(* tasks, and the application returns when a constructor waits for it.      *)
Fairness ==
    /\ WF_vars(Check) /\ WF_vars(BuildFirst) /\ WF_vars(RunTask)
    /\ WF_vars(BuildSlot) /\ WF_vars(AppReturns) /\ WF_vars(FinishBlock)
    /\ WF_vars(CloseListener) /\ WF_vars(StopBlock) /\ WF_vars(ReportLate)

Spec == Init /\ [][Next]_vars /\ Fairness

----------------------------------------------------------------------------
(* Properties                                                              *)

(* AllocatedConnections counts every slot once, whether it is still to be   *)
(* built, waits, serves, or was lost with its block, and ConnectedCount     *)
(* counts the clients, late reports included: the two numbers the strategy  *)
(* compares, read without a lock, never drift from the slots.               *)
Conservation ==
    /\ allocated = starting + building + idle + checking + busy + phantom
    /\ connected = checking + busy + late

(* MaxCount is not a limit: the last block may exceed it, by less than one  *)
(* block, however many tasks were queued when the pool came near it.        *)
AllocationBound ==
    allocated <= StartCount \/ allocated < MaxCount + DeltaCount

(* The pool never grows beyond what the busiest moment called for: checks   *)
(* that raced, and queued several tasks for one shortage, add one block.    *)
GrowthJustified ==
    allocated > StartCount => allocated - DeltaCount - peak < KeepFree

(* With blocks of at least KeepFree slots (and the late reports), a pool at *)
(* rest has KeepFree free slots or has reached MaxCount, although a check   *)
(* may have used a count that other clients had already overtaken.          *)
Provisioned == StartCount >= KeepFree /\ DeltaCount >= KeepFree + MaxLate

AtRest == stage = "running" /\ queued = 0 /\ \A n \in Counts : checks[n] = 0

QuietKeepsFree ==
    Provisioned /\ AtRest
        => allocated - connected >= KeepFree \/ allocated >= MaxCount

(* Dispose leaves no block behind: none is under construction when it       *)
(* starts to empty the bag, so each is in the bag and is stopped.           *)
NoBlockLeft ==
    stage # "running" => lock = "free" /\ starting = 0 /\ building = 0

(* When every slot is taken the pool grows, or a slot becomes free, unless  *)
(* it has its full size, a block failed, or the server is disposed.         *)
FullPoolGrows ==
    (idle = 0 /\ KeepFree > 0 /\ allocated > 0)
        ~> \/ idle > 0
           \/ allocated >= MaxCount
           \/ phantom > 0
           \/ stage # "running"

============================================================================
