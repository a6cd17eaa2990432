-------------------------- MODULE SaeaLayerProofs --------------------------
(***************************************************************************)
(* SaeaLayerCallback, for every MaxTails: the invariants of the run, and   *)
(* the implementation of TransportSlot.  The invariants support each other *)
(* (FlagsExact excludes the exceptions, OneSuccessor the second            *)
(* disconnect and the wrong count), so their conjunction is inductive.     *)
(***************************************************************************)
EXTENDS SaeaLayerCallback, TLAPS

IInv ==
    /\ TypeOK
    /\ FlagsExact
    /\ OneSuccessor
    /\ NeverThrown
    /\ CountExact
    /\ SocketPresent

LEMMA InitIInv == Init => IInv
BY MaxTailsAssumption DEF Init, IInv, TypeOK, FlagsExact, OneSuccessor,
   NeverThrown, CountExact, SocketPresent, State, Accept, Transfer,
   Disconnecting, Fault, AcceptHeld, Held, Counted

LEMMA AcceptSteps ==
    ASSUME IInv,
           PrepareFirstAccept \/ StartAccept \/ IssueAccept \/ AcceptCompletes
           \/ AcceptFails \/ ProcessAccept \/ FinishAccept \/ PrepareAcceptAgain
    PROVE  IInv'
<1> USE DEF IInv, TypeOK, FlagsExact, OneSuccessor, NeverThrown, CountExact,
        SocketPresent, State, Accept, Transfer, Disconnecting, Fault,
        AcceptHeld, Held, Counted, world
<1>1. CASE PrepareFirstAccept
  BY <1>1 DEF PrepareFirstAccept
<1>2. CASE StartAccept
  <2>1. TypeOK'
    BY <1>2 DEF StartAccept
  <2>2. FlagsExact'
    BY <1>2 DEF StartAccept
  <2>3. OneSuccessor'
    BY <1>2 DEF StartAccept
  <2>4. NeverThrown'
    BY <1>2 DEF StartAccept
  <2>5. CountExact'
    BY <1>2 DEF StartAccept
  <2>6. SocketPresent'
    BY <1>2 DEF StartAccept
  <2>7. QED
    BY <2>1, <2>2, <2>3, <2>4, <2>5, <2>6
<1>3. CASE IssueAccept
  BY <1>3 DEF IssueAccept
<1>4. CASE AcceptCompletes
  BY <1>4 DEF AcceptCompletes
<1>5. CASE AcceptFails
  BY <1>5 DEF AcceptFails
<1>6. CASE ProcessAccept
  BY <1>6 DEF ProcessAccept
<1>7. CASE FinishAccept
  BY <1>7 DEF FinishAccept
<1>8. CASE PrepareAcceptAgain
  BY <1>8 DEF PrepareAcceptAgain
<1>9. QED
  BY <1>1, <1>2, <1>3, <1>4, <1>5, <1>6, <1>7, <1>8

LEMMA ReceiveSteps ==
    ASSUME IInv,
           StartReceive \/ IssueReceive \/ ReceiveCompletes \/ ProcessReceive
           \/ FinishReceive \/ PostponedPrepareAccept
    PROVE  IInv'
<1> USE DEF IInv, TypeOK, FlagsExact, OneSuccessor, NeverThrown, CountExact,
        SocketPresent, State, Accept, Transfer, Disconnecting, Fault,
        AcceptHeld, Held, Counted, world
<1>1. CASE StartReceive
  <2>1. TypeOK'
    BY <1>1 DEF StartReceive, Started, Usable
  <2>2. FlagsExact'
    BY <1>1 DEF StartReceive, Started, Usable
  <2>3. OneSuccessor'
    BY <1>1 DEF StartReceive, Started, Usable
  <2>4. NeverThrown'
    BY <1>1 DEF StartReceive, Started, Usable
  <2>5. CountExact'
    BY <1>1 DEF StartReceive, Started, Usable
  <2>6. SocketPresent'
    BY <1>1 DEF StartReceive, Started, Usable
  <2>7. QED
    BY <2>1, <2>2, <2>3, <2>4, <2>5, <2>6
<1>2. CASE IssueReceive
  BY <1>2 DEF IssueReceive, Issued
<1>3. CASE ReceiveCompletes
  BY <1>3 DEF ReceiveCompletes
<1>4. CASE ProcessReceive
  BY <1>4 DEF ProcessReceive
<1>5. CASE FinishReceive
  BY <1>5 DEF FinishReceive
<1>6. CASE PostponedPrepareAccept
  BY <1>6 DEF PostponedPrepareAccept
<1>7. QED
  BY <1>1, <1>2, <1>3, <1>4, <1>5, <1>6

LEMMA SendSteps ==
    ASSUME IInv,
           StartSend \/ IssueSend \/ SendCompletes \/ ProcessSend \/ FinishSend
    PROVE  IInv'
<1> USE DEF IInv, TypeOK, FlagsExact, OneSuccessor, NeverThrown, CountExact,
        SocketPresent, State, Accept, Transfer, Disconnecting, Fault,
        AcceptHeld, Held, Counted, world
<1>1. CASE StartSend
  <2>1. TypeOK'
    BY <1>1 DEF StartSend, Started, Usable
  <2>2. FlagsExact'
    BY <1>1 DEF StartSend, Started, Usable
  <2>3. OneSuccessor'
    BY <1>1 DEF StartSend, Started, Usable
  <2>4. NeverThrown'
    BY <1>1 DEF StartSend, Started, Usable
  <2>5. CountExact'
    BY <1>1 DEF StartSend, Started, Usable
  <2>6. SocketPresent'
    BY <1>1 DEF StartSend, Started, Usable
  <2>7. QED
    BY <2>1, <2>2, <2>3, <2>4, <2>5, <2>6
<1>2. CASE IssueSend
  BY <1>2 DEF IssueSend, Issued
<1>3. CASE SendCompletes
  BY <1>3 DEF SendCompletes
<1>4. CASE ProcessSend
  BY <1>4 DEF ProcessSend
<1>5. CASE FinishSend
  BY <1>5 DEF FinishSend
<1>6. QED
  BY <1>1, <1>2, <1>3, <1>4, <1>5

LEMMA DisconnectSteps ==
    ASSUME IInv,
           StartDisconnect \/ IssueDisconnect \/ DisconnectCompletes
           \/ ProcessDisconnect \/ ClearSocket \/ ClearSocketLate
           \/ PrepareAcceptAfterDisconnect \/ Dispose
    PROVE  IInv'
<1> USE MaxTailsAssumption
    DEF IInv, TypeOK, FlagsExact, OneSuccessor, NeverThrown, CountExact,
        SocketPresent, State, Accept, Transfer, Disconnecting, Fault,
        AcceptHeld, Held, Counted, world
<1>1. CASE StartDisconnect
  <2>1. TypeOK'
    BY <1>1 DEF StartDisconnect
  <2>2. FlagsExact'
    BY <1>1 DEF StartDisconnect
  <2>3. OneSuccessor'
    BY <1>1 DEF StartDisconnect
  <2>4. NeverThrown'
    BY <1>1 DEF StartDisconnect
  <2>5. CountExact'
    BY <1>1 DEF StartDisconnect
  <2>6. SocketPresent'
    BY <1>1 DEF StartDisconnect
  <2>7. QED
    BY <2>1, <2>2, <2>3, <2>4, <2>5, <2>6
<1>2. CASE IssueDisconnect
  BY <1>2 DEF IssueDisconnect
<1>3. CASE DisconnectCompletes
  BY <1>3 DEF DisconnectCompletes
<1>4. CASE ProcessDisconnect
  <2>1. TypeOK'
    <3>1. tails' \in 0..MaxTails
      BY <1>4 DEF ProcessDisconnect
    <3>2. flags' \subseteq State
      BY <1>4 DEF ProcessDisconnect
    <3>3. QED
      BY <1>4, <3>1, <3>2 DEF ProcessDisconnect
  <2>2. FlagsExact'
    BY <1>4 DEF ProcessDisconnect
  <2>3. OneSuccessor'
    BY <1>4 DEF ProcessDisconnect
  <2>4. NeverThrown'
    BY <1>4 DEF ProcessDisconnect
  <2>5. CountExact'
    BY <1>4 DEF ProcessDisconnect
  <2>6. SocketPresent'
    BY <1>4 DEF ProcessDisconnect
  <2>7. QED
    BY <2>1, <2>2, <2>3, <2>4, <2>5, <2>6
<1>5. CASE ClearSocket
  BY <1>5 DEF ClearSocket
<1>6. CASE ClearSocketLate
  BY <1>6 DEF ClearSocketLate
<1>7. CASE PrepareAcceptAfterDisconnect
  BY <1>7 DEF PrepareAcceptAfterDisconnect
<1>8. CASE Dispose
  BY <1>8 DEF Dispose
<1>9. QED
  BY <1>1, <1>2, <1>3, <1>4, <1>5, <1>6, <1>7, <1>8

LEMMA StepIInv == IInv /\ [Next]_vars => IInv'
<1> SUFFICES ASSUME IInv, [Next]_vars
             PROVE  IInv'
  OBVIOUS
<1>1. CASE UNCHANGED vars
  BY <1>1 DEF vars, world, IInv, TypeOK, FlagsExact, OneSuccessor, NeverThrown,
     CountExact, SocketPresent, AcceptHeld, Held, Counted
<1>2. CASE Next
  BY <1>2, AcceptSteps, ReceiveSteps, SendSteps, DisconnectSteps DEF Next
<1>3. QED
  BY <1>1, <1>2

LEMMA AlwaysIInv == Spec => []IInv
BY InitIInv, StepIInv, PTL DEF Spec

(* In every reachable state the variables are of their types.              *)
THEOREM TypeCorrect == Spec => []TypeOK
<1>1. IInv => TypeOK
  BY DEF IInv
<1>2. QED
  BY <1>1, AlwaysIInv, PTL

(* The flag word of SaeaLayerCallback.cs always tells which operations are *)
(* outstanding, and accept and receive never overlap.                      *)
THEOREM FlagsAreExact == Spec => []FlagsExact
<1>1. IInv => FlagsExact
  BY DEF IInv
<1>2. QED
  BY <1>1, AlwaysIInv, PTL

(* PrepareAccept is owed by exactly one thread for each disconnected       *)
(* client, whatever order ProcessDisconnect and ProcessReceive run in.     *)
THEOREM SuccessorIsUnique == Spec => []OneSuccessor
<1>1. IInv => OneSuccessor
  BY DEF IInv
<1>2. QED
  BY <1>1, AlwaysIInv, PTL

(* No lawful call ever throws InvalidOperationException.                   *)
THEOREM NeverThrows == Spec => []NeverThrown
<1>1. IInv => NeverThrown
  BY DEF IInv
<1>2. QED
  BY <1>1, AlwaysIInv, PTL

(* ReportNewConnectedClient and ReportDisconnectedClient are balanced.     *)
THEOREM CountIsExact == Spec => []CountExact
<1>1. IInv => CountExact
  BY DEF IInv
<1>2. QED
  BY <1>1, AlwaysIInv, PTL

(* A client being served has its socket unless a late ProcessDisconnect    *)
(* took it.                                                                *)
THEOREM SocketIsPresent == Spec => []SocketPresent
<1>1. IInv => SocketPresent
  BY DEF IInv
<1>2. QED
  BY <1>1, AlwaysIInv, PTL

----------------------------------------------------------------------------
(* Implementation of TransportSlot                                         *)

LEMMA AcceptStepsSimulate ==
    ASSUME IInv,
           PrepareFirstAccept \/ StartAccept \/ IssueAccept \/ AcceptCompletes
           \/ AcceptFails \/ ProcessAccept \/ FinishAccept \/ PrepareAcceptAgain
    PROVE  [Slot!Next]_Slot!slotVars
<1> USE DEF IInv, TypeOK, State, Accept, NeverThrown, FlagsExact, AcceptHeld,
        Held, SlotPhase, Slot!slotVars, world
<1>1. CASE PrepareFirstAccept
  BY <1>1 DEF PrepareFirstAccept, Slot!Next, Slot!Up, Slot!PrepareAccept
<1>2. CASE StartAccept
  BY <1>2 DEF StartAccept, Slot!Next, Slot!Down, Slot!StartAccept,
     Slot!MayAccept
<1>3. CASE IssueAccept
  BY <1>3 DEF IssueAccept
<1>4. CASE AcceptCompletes
  BY <1>4 DEF AcceptCompletes
<1>5. CASE AcceptFails
  BY <1>5 DEF AcceptFails
<1>6. CASE ProcessAccept
  BY <1>6 DEF ProcessAccept
<1>7. CASE FinishAccept
  BY <1>7 DEF FinishAccept, Slot!Next, Slot!Up, Slot!FinishAccept
<1>8. CASE PrepareAcceptAgain
  BY <1>8 DEF PrepareAcceptAgain, Slot!Next, Slot!Up, Slot!PrepareAccept
<1>9. QED
  BY <1>1, <1>2, <1>3, <1>4, <1>5, <1>6, <1>7, <1>8

LEMMA TransferStepsSimulate ==
    ASSUME IInv,
           StartReceive \/ IssueReceive \/ ReceiveCompletes \/ ProcessReceive
           \/ FinishReceive \/ PostponedPrepareAccept
           \/ StartSend \/ IssueSend \/ SendCompletes \/ ProcessSend
           \/ FinishSend
    PROVE  [Slot!Next]_Slot!slotVars
<1> USE DEF IInv, TypeOK, State, Accept, Transfer, FlagsExact, OneSuccessor,
        AcceptHeld, Held, SlotPhase, Slot!slotVars, world
<1>1. CASE StartReceive
  BY <1>1 DEF StartReceive, Started, Usable, Slot!Next, Slot!Down,
     Slot!StartReceive, Slot!MayReceive, Slot!Usable
<1>2. CASE IssueReceive
  BY <1>2 DEF IssueReceive, Issued
<1>3. CASE ReceiveCompletes
  BY <1>3 DEF ReceiveCompletes
<1>4. CASE ProcessReceive
  BY <1>4 DEF ProcessReceive
<1>5. CASE FinishReceive
  BY <1>5 DEF FinishReceive, Slot!Next, Slot!Up, Slot!FinishReceive
<1>6. CASE PostponedPrepareAccept
  BY <1>6 DEF PostponedPrepareAccept, Slot!Next, Slot!Up, Slot!PrepareAccept
<1>7. CASE StartSend
  BY <1>7 DEF StartSend, Started, Usable, Slot!Next, Slot!Down,
     Slot!StartSend, Slot!MaySend, Slot!Usable
<1>8. CASE IssueSend
  BY <1>8 DEF IssueSend, Issued
<1>9. CASE SendCompletes
  BY <1>9 DEF SendCompletes
<1>10. CASE ProcessSend
  BY <1>10 DEF ProcessSend
<1>11. CASE FinishSend
  BY <1>11 DEF FinishSend, Slot!Next, Slot!Up, Slot!FinishSend
<1>12. QED
  BY <1>1, <1>2, <1>3, <1>4, <1>5, <1>6, <1>7, <1>8, <1>9, <1>10, <1>11

LEMMA DisconnectStepsSimulate ==
    ASSUME IInv,
           StartDisconnect \/ IssueDisconnect \/ DisconnectCompletes
           \/ ProcessDisconnect \/ ClearSocket \/ ClearSocketLate
           \/ PrepareAcceptAfterDisconnect \/ Dispose
    PROVE  [Slot!Next]_Slot!slotVars
<1> USE DEF IInv, TypeOK, State, Accept, Disconnecting, FlagsExact,
        OneSuccessor, AcceptHeld, Held, SlotPhase, Slot!slotVars, world
<1>1. CASE StartDisconnect
  BY <1>1 DEF StartDisconnect, Slot!Next, Slot!Down, Slot!StartDisconnect,
     Slot!MayDisconnect
<1>2. CASE IssueDisconnect
  BY <1>2 DEF IssueDisconnect
<1>3. CASE DisconnectCompletes
  BY <1>3 DEF DisconnectCompletes
<1>4. CASE ProcessDisconnect
  BY <1>4 DEF ProcessDisconnect
<1>5. CASE ClearSocket
  BY <1>5 DEF ClearSocket
<1>6. CASE ClearSocketLate
  BY <1>6 DEF ClearSocketLate
<1>7. CASE PrepareAcceptAfterDisconnect
  BY <1>7 DEF PrepareAcceptAfterDisconnect, Slot!Next, Slot!Up,
     Slot!PrepareAccept
<1>8. CASE Dispose
  BY <1>8 DEF Dispose
<1>9. QED
  BY <1>1, <1>2, <1>3, <1>4, <1>5, <1>6, <1>7, <1>8

(* Seen from its handler, SaeaLayerCallback.cs is a TransportSlot: every   *)
(* step is a call that TransportSlot allows at that moment, or no call.    *)
THEOREM SlotIsImplemented == Spec => ImplementsSlot
<1>1. Init => Slot!Init
  BY DEF Init, Slot!Init, SlotPhase
<1>2. IInv /\ [Next]_vars => [Slot!Next]_Slot!slotVars
  <2> SUFFICES ASSUME IInv, [Next]_vars
               PROVE  [Slot!Next]_Slot!slotVars
    OBVIOUS
  <2>1. CASE UNCHANGED vars
    BY <2>1 DEF vars, Slot!slotVars, SlotPhase
  <2>2. CASE Next
    BY <2>2, AcceptStepsSimulate, TransferStepsSimulate,
       DisconnectStepsSimulate DEF Next
  <2>3. QED
    BY <2>1, <2>2
<1>3. QED
  BY <1>1, <1>2, AlwaysIInv, PTL DEF Spec, ImplementsSlot, Slot!Spec

============================================================================
