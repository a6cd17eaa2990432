------------------------- MODULE SaeaLayerCallback -------------------------
(***************************************************************************)
(* The socket state machine of one connection slot: a flag word changed    *)
(* only by compare-and-swap, one SocketAsyncEventArgs per operation,       *)
(* completions on thread pool threads (IoCompleted), or inline when the    *)
(* call finished synchronously.  A step another thread can be ordered      *)
(* against is an action of its own: the CAS, the socket call, the          *)
(* completion, the CAS of the Process method, the call into the handler.   *)
(* The handler may call down whatever TransportSlot allows, on any thread. *)
(***************************************************************************)
EXTENDS Naturals

CONSTANT
    MaxTails    \* bound on ProcessDisconnect threads still to clear _socket

ASSUME MaxTailsAssumption == MaxTails \in Nat \ {0}

VARIABLES
    flags,      \* _state, as the set of the State flags in it
    acc,        \* the accept operation, and the slot between its accepts
    rcv, snd,   \* the receive and the send operation
    dis,        \* the disconnect operation
    postponed,  \* postponedAccept of a running ProcessReceive
    socket,     \* _socket
    tails,      \* ProcessDisconnect threads past their CAS that owe no accept
    connected,  \* this slot's share of Server.ConnectedCount
    stage,      \* Server.Dispose closes the listener, then disposes the slots
    faults      \* history: what went wrong and the code does not handle

world == <<socket, tails, connected, stage>>
vars == <<flags, acc, rcv, snd, dis, postponed, world, faults>>

State == {"Receive", "Send", "Disconnect", "Aborting", "DelayedAccept"}

(* "issuing": CAS done, socket call to be made; "pending": the kernel has   *)
(* it; "done": completed, Process method to be entered; "reporting": past   *)
(* its CAS; "failing": the Aborting path; "died": the call met a null       *)
(* _socket; "lost": abandoned without a word.                               *)
Transfer == {"idle", "issuing", "pending", "done", "reporting", "failing",
             "died", "lost"}

(* An accept completes as "ok", as "gone" (a socket without end points) or  *)
(* as "bad"; the last two are prepared again.                               *)
Accept == {"new", "asked", "issuing", "pending", "ok", "gone", "bad",
           "reporting", "retry", "open", "lost"}

(* "clearing": past the CAS, _socket not yet null; "void": returned with    *)
(* nothing disconnected, because _socket was null or disposed.              *)
Disconnecting == {"idle", "issuing", "pending", "done", "clearing",
                  "reporting", "void"}

(* "already": a call threw InvalidOperationException ("Already ...").       *)
Fault == {"already", "acceptError", "nullReference", "lateNull",
          "voidDisconnect"}

TypeOK ==
    /\ flags \subseteq State
    /\ acc \in Accept
    /\ rcv \in Transfer
    /\ snd \in Transfer
    /\ dis \in Disconnecting
    /\ postponed \in {"no", "held", "owed"}
    /\ socket \in {"null", "set"}
    /\ tails \in 0..MaxTails
    /\ connected \in Nat
    /\ stage \in {"running", "closed", "disposed"}
    /\ faults \subseteq Fault

Init ==
    /\ flags = {} /\ acc = "new" /\ rcv = "idle" /\ snd = "idle"
    /\ dis = "idle" /\ postponed = "no" /\ socket = "null" /\ tails = 0
    /\ connected = 0 /\ stage = "running" /\ faults = {}

----------------------------------------------------------------------------
(* Accept                                                                  *)

(* ConnectionBlock asks each new slot once.                                *)
PrepareFirstAccept ==
    /\ acc = "new"
    /\ acc' = "asked"
    /\ UNCHANGED <<flags, rcv, snd, dis, postponed, world, faults>>

(* Mutation: the next client inherits Aborting. *)
StartAcceptKeepsAborting ==
    /\ acc = "asked" /\ rcv = "idle"
    /\ flags' = flags \union {"Receive"}
    /\ acc' = "issuing"
    /\ UNCHANGED <<rcv, snd, dis, postponed, world, faults>>

StartAccept ==
    /\ acc = "asked" /\ rcv = "idle"
    /\ IF "Receive" \in flags
         THEN faults' = faults \union {"already"} /\ UNCHANGED <<flags, acc>>
         ELSE /\ flags' = (flags \union {"Receive"}) \ {"Aborting"}
              /\ acc' = "issuing"
              /\ UNCHANGED faults
    /\ UNCHANGED <<rcv, snd, dis, postponed, world>>

(* AcceptAsync; a disposed listener ends the slot.                          *)
IssueAccept ==
    /\ acc = "issuing"
    /\ acc' \in IF stage = "running" THEN {"pending", "ok", "gone", "bad"}
                                     ELSE {"lost"}
    /\ UNCHANGED <<flags, rcv, snd, dis, postponed, world, faults>>

AcceptCompletes ==
    /\ acc = "pending" /\ stage = "running"
    /\ acc' \in {"ok", "gone"}
    /\ UNCHANGED <<flags, rcv, snd, dis, postponed, world, faults>>

(* IoCompleted returns from a failed accept without calling ProcessAccept.  *)
AcceptFails ==
    /\ acc = "pending"
    /\ acc' = "lost"
    /\ faults' = faults \union
                   IF stage = "running" THEN {"acceptError"} ELSE {}
    /\ UNCHANGED <<flags, rcv, snd, dis, postponed, world>>

(* Mutation: _socket is not taken from the accept event. *)
ProcessAcceptNoSocket ==
    /\ acc \in {"ok", "gone", "bad"}
    /\ acc' = IF acc = "ok" THEN "reporting" ELSE "retry"
    /\ flags' = flags \ {"Receive"}
    /\ connected' = IF acc = "ok" THEN connected + 1 ELSE connected
    /\ UNCHANGED <<rcv, snd, dis, postponed, socket, tails, stage,
                   faults>>

ProcessAccept ==
    /\ acc \in {"ok", "gone", "bad"}
    /\ acc' = IF acc = "ok" THEN "reporting" ELSE "retry"
    /\ flags' = flags \ {"Receive"}
    /\ socket' = IF acc = "bad" THEN socket ELSE "set"
    /\ connected' = IF acc = "ok" THEN connected + 1 ELSE connected
    /\ UNCHANGED <<rcv, snd, dis, postponed, tails, stage, faults>>

FinishAccept ==
    /\ acc = "reporting"
    /\ acc' = "open"
    /\ UNCHANGED <<flags, rcv, snd, dis, postponed, world, faults>>

PrepareAcceptAgain ==
    /\ acc = "retry"
    /\ acc' = "asked"
    /\ UNCHANGED <<flags, rcv, snd, dis, postponed, world, faults>>

----------------------------------------------------------------------------
(* Receive and send: flag is the operation's flag, op and next its state.   *)

(* A lawful handler receives and sends only here (TransportSlot!Usable).    *)
Usable == acc = "open" \/ (acc = "asked" /\ "Aborting" \in flags)

Started(flag, op, next) ==
    /\ Usable
    /\ op = "idle"
    /\ IF flag \in flags
         THEN /\ faults' = faults \union {"already"}
              /\ next = op /\ UNCHANGED flags
         ELSE /\ UNCHANGED faults
              /\ IF "Aborting" \in flags
                   THEN next = "failing" /\ UNCHANGED flags
                   ELSE next = "issuing" /\ flags' = flags \union {flag}

(* The asynchronous call, on whatever _socket is by now.                    *)
Issued(op, next) ==
    /\ op = "issuing"
    /\ next \in IF stage = "disposed" THEN {"lost"}
                ELSE IF socket = "set" THEN {"pending", "done"} ELSE {"died"}
    /\ faults' = IF stage = "disposed" \/ socket = "set" THEN faults
                                       ELSE faults \union {"nullReference"}

StartReceive ==
    /\ Started("Receive", rcv, rcv')
    /\ UNCHANGED <<acc, snd, dis, postponed, world>>

IssueReceive ==
    /\ Issued(rcv, rcv')
    /\ UNCHANGED <<flags, acc, snd, dis, postponed, world>>

ReceiveCompletes ==
    /\ rcv = "pending"
    /\ rcv' = "done"
    /\ UNCHANGED <<flags, acc, snd, dis, postponed, world, faults>>

(* Mutation: the accept that waits for this receive is forgotten. *)
ProcessReceiveForgets ==
    /\ rcv = "done"
    /\ rcv' = "reporting"
    /\ flags' = flags \ {"Receive", "DelayedAccept"}
    /\ UNCHANGED <<acc, snd, dis, postponed, world, faults>>

ProcessReceive ==
    /\ rcv = "done"
    /\ rcv' = "reporting"
    /\ postponed' = IF "DelayedAccept" \in flags THEN "held" ELSE postponed
    /\ flags' = flags \ {"Receive", "DelayedAccept"}
    /\ UNCHANGED <<acc, snd, dis, world, faults>>

(* The call up, from ProcessReceive or from the Aborting path.              *)
FinishReceive ==
    /\ rcv \in {"reporting", "failing"}
    /\ rcv' = "idle"
    /\ postponed' = IF postponed = "held" THEN "owed" ELSE postponed
    /\ UNCHANGED <<flags, acc, snd, dis, world, faults>>

PostponedPrepareAccept ==
    /\ postponed = "owed"
    /\ postponed' = "no"
    /\ acc' = "asked"
    /\ UNCHANGED <<flags, rcv, snd, dis, world, faults>>

StartSend ==
    /\ Started("Send", snd, snd')
    /\ UNCHANGED <<acc, rcv, dis, postponed, world>>

IssueSend ==
    /\ Issued(snd, snd')
    /\ UNCHANGED <<flags, acc, rcv, dis, postponed, world>>

SendCompletes ==
    /\ snd = "pending"
    /\ snd' = "done"
    /\ UNCHANGED <<flags, acc, rcv, dis, postponed, world, faults>>

(* Mutation: the handler is told before the flag is cleared. *)
ProcessSendKeepsFlag ==
    /\ snd = "done"
    /\ snd' = "reporting"
    /\ UNCHANGED <<flags, acc, rcv, dis, postponed, world, faults>>

ProcessSend ==
    /\ snd = "done"
    /\ snd' = "reporting"
    /\ flags' = flags \ {"Send"}
    /\ UNCHANGED <<acc, rcv, dis, postponed, world, faults>>

FinishSend ==
    /\ snd \in {"reporting", "failing"}
    /\ snd' = "idle"
    /\ UNCHANGED <<flags, acc, rcv, dis, postponed, world, faults>>

----------------------------------------------------------------------------
(* Disconnect                                                              *)

StartDisconnect ==
    /\ acc = "open" /\ "Aborting" \notin flags
    /\ IF "Disconnect" \in flags
         THEN faults' = faults \union {"already"} /\ UNCHANGED <<flags, dis>>
         ELSE /\ flags' = flags \union {"Disconnect", "Aborting"}
              /\ dis' = "issuing"
              /\ UNCHANGED faults
    /\ UNCHANGED <<acc, rcv, snd, postponed, world>>

(* DisconnectAsync, unless _socket is null or disposed: then it returns and *)
(* leaves both flags set.                                                   *)
IssueDisconnect ==
    /\ dis = "issuing"
    /\ dis' \in IF socket = "set" /\ stage # "disposed" THEN {"pending", "done"}
                                                ELSE {"void"}
    /\ faults' = faults \union IF socket = "set" \/ stage = "disposed" THEN {}
                               ELSE {"voidDisconnect"}
    /\ UNCHANGED <<flags, acc, rcv, snd, postponed, world>>

DisconnectCompletes ==
    /\ dis = "pending"
    /\ dis' = "done"
    /\ UNCHANGED <<flags, acc, rcv, snd, postponed, world, faults>>

(* Mutation: the accept is left to ProcessReceive and prepared here too. *)
ProcessDisconnectTwice ==
    /\ dis = "done"
    /\ flags' = (flags \ {"Disconnect"}) \union
                  IF "Receive" \in flags THEN {"DelayedAccept"} ELSE {}
    /\ dis' = "clearing"
    /\ UNCHANGED <<acc, rcv, snd, postponed, world, faults>>

(* The CAS.  With a receive outstanding the accept is left to               *)
(* ProcessReceive, and nothing orders the rest of this thread before the    *)
(* next client any more.                                                    *)
ProcessDisconnect ==
    /\ dis = "done"
    /\ IF "Receive" \in flags
         THEN /\ tails < MaxTails
              /\ tails' = tails + 1
              /\ flags' = (flags \ {"Disconnect"}) \union {"DelayedAccept"}
              /\ dis' = "idle"
         ELSE /\ flags' = flags \ {"Disconnect"}
              /\ dis' = "clearing"
              /\ UNCHANGED tails
    /\ UNCHANGED <<acc, rcv, snd, postponed, socket, connected, stage,
                   faults>>

(* Mutation: the client is taken from the count twice. *)
ClearSocketTwice ==
    /\ dis = "clearing"
    /\ dis' = "reporting"
    /\ socket' = "null"
    /\ connected' = connected - 2
    /\ UNCHANGED <<flags, acc, rcv, snd, postponed, tails, stage,
                   faults>>

ClearSocket ==
    /\ dis = "clearing"
    /\ dis' = "reporting"
    /\ socket' = "null"
    /\ connected' = connected - 1
    /\ UNCHANGED <<flags, acc, rcv, snd, postponed, tails, stage,
                   faults>>

(* The same assignments on a thread that owes no accept: by now _socket may *)
(* be the socket of the next client.                                        *)
ClearSocketLate ==
    /\ tails > 0
    /\ tails' = tails - 1
    /\ socket' = "null"
    /\ connected' = connected - 1
    /\ faults' = faults \union
                   IF acc \in {"reporting", "open"} /\ "Aborting" \notin flags
                     THEN {"lateNull"} ELSE {}
    /\ UNCHANGED <<flags, acc, rcv, snd, dis, postponed, stage>>

PrepareAcceptAfterDisconnect ==
    /\ dis = "reporting"
    /\ dis' = "idle"
    /\ acc' = "asked"
    /\ UNCHANGED <<flags, rcv, snd, postponed, world, faults>>

----------------------------------------------------------------------------
(* Server.Dispose: the listen socket first, then every slot.               *)
Dispose ==
    /\ stage # "disposed"
    /\ stage' = IF stage = "running" THEN "closed" ELSE "disposed"
    /\ UNCHANGED <<flags, acc, rcv, snd, dis, postponed, socket, tails,
                   connected, faults>>

Next ==
    \/ PrepareFirstAccept \/ StartAccept \/ IssueAccept \/ AcceptCompletes
    \/ AcceptFails \/ ProcessAccept \/ FinishAccept \/ PrepareAcceptAgain
    \/ StartReceive \/ IssueReceive \/ ReceiveCompletes \/ ProcessReceive
    \/ FinishReceive \/ PostponedPrepareAccept
    \/ StartSend \/ IssueSend \/ SendCompletes \/ ProcessSend \/ FinishSend
    \/ StartDisconnect \/ IssueDisconnect \/ DisconnectCompletes
    \/ ProcessDisconnect \/ ClearSocket \/ ClearSocketLate
    \/ PrepareAcceptAfterDisconnect
    \/ Dispose

(* Threads that run are not stopped for ever, the kernel completes sends    *)
(* and disconnects, and completes the receive of a disconnected socket.     *)
(* Nothing is assumed of clients: an accept, or a receive on a live socket, *)
(* may stay pending.  The handler answers PrepareAccept between two         *)
(* receives at the latest (Transport2HttpHandler.FinishReceive hands over   *)
(* to RealPrepareAccept), hence strong fairness.                            *)
Fairness ==
    /\ WF_vars(PrepareFirstAccept) /\ WF_vars(IssueAccept)
    /\ WF_vars(ProcessAccept) /\ WF_vars(FinishAccept)
    /\ WF_vars(PrepareAcceptAgain) /\ SF_vars(StartAccept)
    /\ WF_vars(IssueReceive) /\ WF_vars(ProcessReceive)
    /\ WF_vars(ReceiveCompletes /\ "DelayedAccept" \in flags)
    /\ WF_vars(FinishReceive) /\ WF_vars(PostponedPrepareAccept)
    /\ WF_vars(IssueSend) /\ WF_vars(SendCompletes)
    /\ WF_vars(ProcessSend) /\ WF_vars(FinishSend)
    /\ WF_vars(IssueDisconnect) /\ WF_vars(DisconnectCompletes)
    /\ WF_vars(ProcessDisconnect) /\ WF_vars(ClearSocket)
    /\ WF_vars(ClearSocketLate) /\ WF_vars(PrepareAcceptAfterDisconnect)

Spec == Init /\ [][Next]_vars /\ Fairness

----------------------------------------------------------------------------
(* Properties                                                              *)

AcceptHeld == acc \in {"issuing", "pending", "ok", "gone", "bad", "lost"}
Held(op) == op \in {"issuing", "pending", "done", "died", "lost"}

(* The flag word tells exactly which operations are outstanding, although   *)
(* accept and receive share one flag and four threads change the word; and  *)
(* the accept, whose data go to the receive buffer, never overlaps a        *)
(* receive.  Aborting lasts from the disconnect to the next StartAccept.    *)
FlagsExact ==
    /\ "Receive" \in flags <=> AcceptHeld \/ Held(rcv)
    /\ ~(AcceptHeld /\ rcv # "idle")
    /\ "Send" \in flags <=> Held(snd)
    /\ "Disconnect" \in flags <=> dis \in {"issuing", "pending", "done", "void"}
    /\ "DelayedAccept" \in flags => Held(rcv)
    /\ "Aborting" \in flags => acc \in {"asked", "open"}

(* Exactly one party is going to call PrepareAccept for a client that was   *)
(* asked to disconnect (the disconnect, the receive it waits for, or the    *)
(* thread that took that over), and nobody for any other slot: the next     *)
(* client is neither forgotten nor prepared twice.                          *)
OneSuccessor ==
    /\ acc = "open" /\ "Aborting" \in flags
         <=> dis # "idle" \/ "DelayedAccept" \in flags \/ postponed # "no"
    /\ dis # "idle" => "DelayedAccept" \notin flags /\ postponed = "no"
    /\ "DelayedAccept" \in flags => postponed = "no"

(* A handler that keeps the rules never sees "Already receiving or          *)
(* accepting", "Already sending" or "Already disconnecting".                *)
NeverThrown == "already" \notin faults

(* The slot counts in Server.ConnectedCount from before FinishAccept until  *)
(* its disconnect clears _socket, and each delayed ProcessDisconnect keeps  *)
(* one client more in the count, which so never goes below zero.            *)
Counted ==
    /\ acc \in {"reporting", "open"}
    /\ dis # "reporting" /\ "DelayedAccept" \notin flags /\ postponed = "no"

CountExact == connected = tails + IF Counted THEN 1 ELSE 0

(* Unless a delayed ProcessDisconnect ran into the next client, a client    *)
(* that is being served has its socket: receives, sends and the disconnect  *)
(* reach it.                                                                *)
SocketPresent ==
    acc \in {"reporting", "open"} /\ "Aborting" \notin flags
        => socket = "set" \/ "lateNull" \in faults

SlotPhase == IF acc \in {"new", "asked", "open"} THEN acc ELSE "accepting"

Slot == INSTANCE TransportSlot WITH
            phase <- SlotPhase,
            receiving <- rcv # "idle",
            sending <- snd # "idle",
            closing <- "Aborting" \in flags

(* The calls up keep the rules of TransportSlot when the calls down do.     *)
ImplementsSlot == Slot!Spec

(* A client that was asked to disconnect makes room for the next one: the   *)
(* slot issues an accept again, unless the server stops or one of the       *)
(* recorded faults hit the slot.                                            *)
SlotReused ==
    (acc = "open" /\ "Aborting" \in flags)
        ~> \/ acc = "issuing"
           \/ acc = "open" /\ "Aborting" \notin flags
           \/ stage # "running"
           \/ faults # {}

(* A failed accept is prepared again, as the end of ProcessAccept says,     *)
(* however the failure was reported.                                        *)
AcceptRetried == stage = "running" => acc # "lost"

============================================================================
