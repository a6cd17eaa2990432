------------------------ MODULE ConnectionPoolProofs ------------------------
(***************************************************************************)
(* ConnectionPool, for every allocation strategy and both bounds: the      *)
(* invariants of the run.  QuietKeepsFree needs the one strengthening:     *)
(* while too few slots are free some task is queued, or some client that   *)
(* has yet to check saw a count at least as high as the present one.       *)
(***************************************************************************)
EXTENDS ConnectionPool, TLAPS

Shortage == allocated < MaxCount /\ allocated - connected < KeepFree

Watched ==
    Provisioned /\ stage = "running" /\ Shortage
        => queued > 0 \/ \E n \in Counts : n >= connected /\ checks[n] > 0

Auxiliary ==
    /\ late <= MaxLate
    /\ connected <= peak
    /\ allocated >= StartCount
    /\ lock = "free" => building = 0
    /\ allocated = 0 => connected = 0

Small == TypeOK /\ Conservation /\ AllocationBound /\ Auxiliary

IInv == Small /\ GrowthJustified /\ NoBlockLeft /\ Watched

LEMMA CeilingIsNat == Ceiling \in Nat /\ MaxLate \in Nat
BY StrategyAssumption, BoundsAssumption DEF Ceiling

LEMMA InitIInv == Init => IInv
<1> SUFFICES ASSUME Init PROVE IInv
  OBVIOUS
<1>1. Small
  BY StrategyAssumption, BoundsAssumption, CeilingIsNat
     DEF Init, Small, TypeOK, Conservation, AllocationBound, Auxiliary, Counts
<1>2. GrowthJustified /\ NoBlockLeft
  BY StrategyAssumption DEF Init, GrowthJustified, NoBlockLeft
<1>3. Watched
  BY StrategyAssumption, BoundsAssumption
     DEF Init, Watched, Shortage, Provisioned
<1>4. QED
  BY <1>1, <1>2, <1>3 DEF IInv

(* The number that Increment returns is in the domain of checks.           *)
LEMMA CountInRange ==
    ASSUME Small, idle > 0 \/ building > 0
    PROVE  connected + 1 \in Counts
BY StrategyAssumption, BoundsAssumption
   DEF Small, TypeOK, Conservation, AllocationBound, Auxiliary, Counts, Ceiling

LEMMA CalculateBounds ==
    ASSUME NEW a \in Nat, NEW c \in Nat,
           CalculateNewConnectionCount(a, c) > 0, a >= StartCount
    PROVE  /\ CalculateNewConnectionCount(a, c) = DeltaCount
           /\ a > 0 /\ a < MaxCount /\ a - c < KeepFree /\ DeltaCount > 0
BY StrategyAssumption DEF CalculateNewConnectionCount

LEMMA StepSmall == IInv /\ [Next]_vars => Small'
<1> SUFFICES ASSUME IInv, [Next]_vars
             PROVE  Small'
  OBVIOUS
<1> USE StrategyAssumption, BoundsAssumption
    DEF IInv, Small, TypeOK, Conservation, AllocationBound, Auxiliary,
        slotVars, clientVars
<1>1. CASE UNCHANGED vars
  BY <1>1 DEF vars
<1>2. CASE Connect
  BY <1>2, CountInRange DEF Connect, Counted
<1>3. CASE Check
  <2>1. PICK n \in Counts : Check!(n)
    BY <1>3 DEF Check
  <2>2. n \in Nat
    BY CeilingIsNat DEF Counts
  <2>3. checks' \in [Counts -> Nat]
    BY <2>1, <2>2
  <2>4. QED
    BY <2>1, <2>3
<1>4. CASE Disconnect
  BY <1>4 DEF Disconnect
<1>5. CASE ReportLate
  BY <1>5 DEF ReportLate
<1>6. CASE BuildFirst
  BY <1>6 DEF BuildFirst
<1>7. CASE RunTask
  <2>1. CASE Wanted(allocated, connected) > 0
    <3>1. /\ Wanted(allocated, connected) = DeltaCount
          /\ allocated < MaxCount
      BY <2>1, CalculateBounds DEF Wanted
    <3>2. QED
      BY <1>7, <2>1, <3>1 DEF RunTask
  <2>2. CASE ~(Wanted(allocated, connected) > 0)
    BY <1>7, <2>2 DEF RunTask
  <2>3. QED
    BY <2>1, <2>2
<1>8. CASE BuildSlot
  BY <1>8, CountInRange DEF BuildSlot, Counted
<1>9. CASE AppReturns
  BY <1>9 DEF AppReturns
<1>10. CASE FinishBlock
  BY <1>10 DEF FinishBlock
<1>11. CASE BuildFails
  BY <1>11 DEF BuildFails
<1>12. CASE Finish \/ CloseListener \/ StopBlock
  BY <1>12 DEF Finish, CloseListener, StopBlock
<1>13. QED
  BY <1>1, <1>2, <1>3, <1>4, <1>5, <1>6, <1>7, <1>8, <1>9, <1>10, <1>11,
     <1>12 DEF Next

LEMMA StepGrowth == IInv /\ [Next]_vars => (GrowthJustified /\ NoBlockLeft)'
<1> SUFFICES ASSUME IInv, [Next]_vars
             PROVE  GrowthJustified' /\ NoBlockLeft'
  OBVIOUS
<1> USE StrategyAssumption, BoundsAssumption
    DEF IInv, Small, TypeOK, Auxiliary, GrowthJustified, NoBlockLeft,
        slotVars, clientVars
<1>1. CASE RunTask
  BY <1>1, CalculateBounds DEF RunTask, Wanted
<1>2. CASE Connect \/ BuildSlot
  BY <1>2 DEF Connect, BuildSlot, Counted
<1>3. CASE Check
  BY <1>3 DEF Check
<1>4. CASE UNCHANGED vars
  BY <1>4 DEF vars
<1>5. CASE Disconnect \/ ReportLate \/ BuildFirst \/ AppReturns \/ FinishBlock
           \/ BuildFails
  BY <1>5 DEF Disconnect, ReportLate, BuildFirst, AppReturns, FinishBlock,
     BuildFails
<1>6. CASE Finish \/ CloseListener \/ StopBlock
  BY <1>6 DEF Finish, CloseListener, StopBlock
<1>7. QED
  BY <1>1, <1>2, <1>3, <1>4, <1>5, <1>6 DEF Next

(* A client that connects is itself a check that saw the present count.    *)
LEMMA CountedIsWatched ==
    ASSUME Small, Counted, connected + 1 \in Counts
    PROVE  \E n \in Counts : n >= connected' /\ checks'[n] > 0
<1>1. checks'[connected + 1] = checks[connected + 1] + 1
  BY DEF Counted, Small, TypeOK
<1>2. checks[connected + 1] \in Nat /\ connected' = connected + 1
  BY DEF Counted, Small, TypeOK
<1>3. WITNESS connected + 1 \in Counts
<1>4. QED
  BY <1>1, <1>2 DEF Small, TypeOK

(* Fewer clients leave at least as many slots free.                        *)
LEMMA FreeMonotone ==
    ASSUME NEW a \in Int, NEW c \in Int, NEW d \in Int, NEW k \in Int,
           d <= c, a - d < k
    PROVE  a - c < k
OBVIOUS

LEMMA StepWatched == IInv /\ [Next]_vars => Watched'
<1> SUFFICES ASSUME IInv, [Next]_vars,
                    Provisioned, stage' = "running", Shortage'
             PROVE  queued' > 0
                    \/ \E n \in Counts : n >= connected' /\ checks'[n] > 0
  BY DEF Watched, Provisioned
<1> USE StrategyAssumption, BoundsAssumption
<1>a. /\ allocated \in Nat /\ connected \in Nat /\ queued \in Nat
      /\ late \in Nat /\ checks \in [Counts -> Nat]
  BY DEF IInv, Small, TypeOK
<1>1. CASE Connect
  BY <1>1, CountInRange, CountedIsWatched DEF Connect, IInv
<1>2. CASE BuildSlot
  <2>1. CASE Counted
    BY <1>2, <2>1, CountInRange, CountedIsWatched DEF BuildSlot, IInv
  <2>2. CASE UNCHANGED clientVars
    BY <1>2, <2>2 DEF BuildSlot, IInv, Watched, Shortage, clientVars
  <2>3. QED
    BY <1>2, <2>1, <2>2 DEF BuildSlot
<1>3. CASE Check
  <2>1. PICK n \in Counts : Check!(n)
    BY <1>3 DEF Check
  <2>2. n \in Nat /\ stage = "running" /\ Shortage
    BY <2>1, CeilingIsNat DEF Counts, Shortage, slotVars
  <2>3. queued > 0 \/ \E m \in Counts : m >= connected /\ checks[m] > 0
    BY <2>2 DEF IInv, Watched
  <2>4. CASE queued > 0
    BY <2>1, <2>4, <1>a
  <2>5. ASSUME NEW m \in Counts, m >= connected, checks[m] > 0
        PROVE  queued' > 0
               \/ \E k \in Counts : k >= connected' /\ checks'[k] > 0
    <3>1. CASE m = n
      <4>1. allocated - n < KeepFree
        BY <2>2, <2>5, <3>1, <1>a DEF Shortage
      <4>2. allocated >= StartCount /\ KeepFree <= DeltaCount
        BY <1>a DEF IInv, Small, Auxiliary, Provisioned
      <4>3. allocated > 0 => CalculateNewConnectionCount(allocated, n)
                                = DeltaCount
        BY <4>1, <2>2, <1>a DEF CalculateNewConnectionCount, Shortage
      <4>4. allocated > 0 /\ DeltaCount > 0
        <5>1. allocated >= connected - late
          BY <1>a DEF IInv, Small, TypeOK, Conservation
        <5>2. late <= MaxLate /\ DeltaCount >= KeepFree + MaxLate
              /\ StartCount >= KeepFree
          BY DEF IInv, Small, Auxiliary, Provisioned
        <5>3. checking > 0 /\ checking + busy <= allocated
          BY <2>1, <1>a DEF IInv, Small, TypeOK, Conservation
        <5>4. KeepFree + MaxLate > 0
          BY <5>1, <5>2, <2>2, <1>a DEF Shortage
        <5>5. QED
          BY <5>2, <5>3, <5>4, <1>a DEF IInv, Small, TypeOK
      <4>5. Wanted(allocated, n) > 0
        BY <4>3, <4>4, <2>2 DEF Wanted
      <4>6. QED
        BY <4>5, <2>1, <1>a
    <3>2. CASE m # n
      <4>1. checks'[m] = checks[m] /\ connected' = connected
        BY <2>1, <3>2, <1>a
      <4>2. QED
        BY <4>1, <2>5
    <3>3. QED
      BY <3>1, <3>2
  <2>6. QED
    BY <2>3, <2>4, <2>5
<1>4. CASE Disconnect \/ ReportLate
  <2>1. /\ connected' \in Int /\ connected' <= connected
        /\ allocated' = allocated /\ queued' = queued
        /\ checks' = checks /\ stage' = stage
    BY <1>4, <1>a DEF Disconnect, ReportLate
  <2>2. Shortage
    <3>1. allocated < MaxCount /\ allocated - connected' < KeepFree
      BY <2>1 DEF Shortage
    <3>2. allocated - connected < KeepFree
      <4>1. /\ allocated \in Int /\ connected \in Int
            /\ connected' \in Int /\ KeepFree \in Int
        BY <1>a, <2>1
      <4>2. connected' <= connected
        BY <2>1
      <4>3. QED
        BY ONLY <4>1, <4>2, <3>1, FreeMonotone
    <3>3. QED
      BY <3>1, <3>2 DEF Shortage
  <2>3. QED
    BY <2>1, <2>2, <1>a, CeilingIsNat DEF IInv, Watched, Counts
<1>5. CASE RunTask
  <2>1. CASE Wanted(allocated, connected) > 0
    <3>1. allocated' = allocated + DeltaCount
      BY <1>5, <2>1, <1>a, CalculateBounds
         DEF RunTask, Wanted, IInv, Small, Auxiliary
    <3>2. allocated >= connected - MaxLate
      BY <1>a DEF IInv, Small, TypeOK, Conservation, Auxiliary
    <3>3. connected' = connected
      BY <1>5 DEF RunTask, clientVars
    <3>4. QED
      BY <3>1, <3>2, <3>3, <1>a DEF Provisioned, Shortage
  <2>2. CASE ~(Wanted(allocated, connected) > 0)
    <3>1. UNCHANGED <<allocated, connected, stage, checks>>
      BY <1>5, <2>2 DEF RunTask, clientVars
    <3>2. stage = "running" /\ allocated < MaxCount
          /\ allocated - connected < KeepFree
      BY <3>1 DEF Shortage
    <3>3. allocated = 0 => connected = 0 /\ StartCount = 0
      BY <1>a, StrategyAssumption DEF IInv, Small, Auxiliary
    <3>4. DeltaCount = 0 \/ allocated = 0
      BY <3>2, <2>2, <1>a DEF Wanted, CalculateNewConnectionCount
    <3>5. allocated >= connected - late /\ late <= MaxLate
      BY <1>a DEF IInv, Small, TypeOK, Conservation, Auxiliary
    <3>6. QED
      BY <3>2, <3>3, <3>4, <3>5, <1>5, <1>a
         DEF Provisioned, RunTask, IInv, Small
  <2>3. QED
    BY <2>1, <2>2
<1>6. CASE BuildFirst \/ AppReturns \/ FinishBlock \/ BuildFails
           \/ UNCHANGED vars
  BY <1>6 DEF BuildFirst, AppReturns, FinishBlock, BuildFails, vars, slotVars,
     clientVars, IInv, Watched, Shortage
<1>7. CASE Finish \/ CloseListener \/ StopBlock
  BY <1>7 DEF Finish, CloseListener, StopBlock
<1>8. QED
  BY <1>1, <1>2, <1>3, <1>4, <1>5, <1>6, <1>7 DEF Next

LEMMA AlwaysIInv == Spec => []IInv
<1>1. IInv /\ [Next]_vars => IInv'
  BY StepSmall, StepGrowth, StepWatched DEF IInv
<1>2. QED
  BY <1>1, InitIInv, PTL DEF Spec

(* The variables keep their types: no count goes below zero.               *)
THEOREM TypeCorrect == Spec => []TypeOK
<1>1. IInv => TypeOK
  BY DEF IInv, Small
<1>2. QED
  BY <1>1, AlwaysIInv, PTL

(* The two counts the strategy compares agree with the slots.              *)
THEOREM CountsAgree == Spec => []Conservation
<1>1. IInv => Conservation
  BY DEF IInv, Small
<1>2. QED
  BY <1>1, AlwaysIInv, PTL

(* The pool exceeds MaxCount by less than one block.                       *)
THEOREM AllocationIsBounded == Spec => []AllocationBound
<1>1. IInv => AllocationBound
  BY DEF IInv, Small
<1>2. QED
  BY <1>1, AlwaysIInv, PTL

(* Racing checks never add a block that the peak did not call for.         *)
THEOREM GrowthIsJustified == Spec => []GrowthJustified
<1>1. IInv => GrowthJustified
  BY DEF IInv
<1>2. QED
  BY <1>1, AlwaysIInv, PTL

(* A pool at rest has KeepFree slots free or has reached MaxCount, under   *)
(* the condition on the strategy that Provisioned names.                   *)
THEOREM QuietPoolKeepsFree == Spec => []QuietKeepsFree
<1>1. IInv => QuietKeepsFree
  <2> SUFFICES ASSUME IInv, Provisioned, stage = "running", queued = 0,
                      \A n \in Counts : checks[n] = 0
               PROVE  allocated - connected >= KeepFree \/ allocated >= MaxCount
    BY DEF QuietKeepsFree, AtRest
  <2>1. ~Shortage
    BY DEF IInv, Watched
  <2>2. allocated \in Nat /\ connected \in Nat
    BY DEF IInv, Small, TypeOK
  <2>3. QED
    BY <2>1, <2>2, StrategyAssumption DEF Shortage
<1>2. QED
  BY <1>1, AlwaysIInv, PTL

(* Dispose starts to empty the bag when no block is under construction.    *)
THEOREM NoBlockIsLeft == Spec => []NoBlockLeft
<1>1. IInv => NoBlockLeft
  BY DEF IInv
<1>2. QED
  BY <1>1, AlwaysIInv, PTL

============================================================================
