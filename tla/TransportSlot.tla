--------------------------- MODULE TransportSlot ---------------------------
(***************************************************************************)
(* What one connection slot promises at the border between a transport     *)
(* layer and the layer above it: ITransportLayerCallback (StartAccept,     *)
(* StartReceive, StartSend, StartDisconnect, the calls down) and           *)
(* ITransportLayerHandler (PrepareAccept, FinishAccept, FinishReceive,     *)
(* FinishSend, the calls up).  The guards of the calls down are the        *)
(* obligations of the upper layer; the guards of the calls up are those of *)
(* the lower one.  SaeaLayerCallback.tla implements this module from       *)
(* below, HttpConnection.tla uses it from above.                           *)
(***************************************************************************)

VARIABLES
    phase,      \* where the slot is between two clients
    receiving,  \* a StartReceive has not been answered yet
    sending,    \* a StartSend has not been answered yet
    closing     \* StartDisconnect was called for the current client

slotVars == <<phase, receiving, sending, closing>>

Phase == {"new", "asked", "accepting", "open"}

TypeOK ==
    /\ phase \in Phase
    /\ {receiving, sending, closing} \subseteq BOOLEAN

Init ==
    /\ phase = "new"
    /\ receiving = FALSE
    /\ sending = FALSE
    /\ closing = FALSE

----------------------------------------------------------------------------
(* Calls down, made by the upper layer on any of its threads.              *)

(* While the slot is between clients only a slot that closed its last      *)
(* client may still be asked to receive or send: it fails such calls fast. *)
Usable == phase = "open" \/ (phase = "asked" /\ closing)

(* The accept reuses the receive buffer, so no receive may be outstanding. *)
MayAccept == phase = "asked" /\ ~receiving

MayReceive == Usable /\ ~receiving

MaySend == Usable /\ ~sending

MayDisconnect == phase = "open" /\ ~closing

StartAccept ==
    /\ MayAccept
    /\ phase' = "accepting"
    /\ closing' = FALSE
    /\ UNCHANGED <<receiving, sending>>

StartReceive ==
    /\ MayReceive
    /\ receiving' = TRUE
    /\ UNCHANGED <<phase, sending, closing>>

StartSend ==
    /\ MaySend
    /\ sending' = TRUE
    /\ UNCHANGED <<phase, receiving, closing>>

StartDisconnect ==
    /\ MayDisconnect
    /\ closing' = TRUE
    /\ UNCHANGED <<phase, receiving, sending>>

----------------------------------------------------------------------------
(* Calls up, made by the lower layer when an operation finished.           *)

(* The slot wants its next client: it is new, its accept failed, or the    *)
(* disconnect of its last client is over.                                  *)
PrepareAccept ==
    /\ \/ phase \in {"new", "accepting"}
       \/ phase = "open" /\ closing
    /\ phase' = "asked"
    /\ UNCHANGED <<receiving, sending, closing>>

FinishAccept ==
    /\ phase = "accepting"
    /\ phase' = "open"
    /\ UNCHANGED <<receiving, sending, closing>>

FinishReceive ==
    /\ receiving
    /\ receiving' = FALSE
    /\ UNCHANGED <<phase, sending, closing>>

(* No send of an earlier client is waited for: the answer may come while   *)
(* the slot is already accepting, or open for, the next client.            *)
FinishSend ==
    /\ sending
    /\ sending' = FALSE
    /\ UNCHANGED <<phase, receiving, closing>>

Down == StartAccept \/ StartReceive \/ StartSend \/ StartDisconnect

Up == PrepareAccept \/ FinishAccept \/ FinishReceive \/ FinishSend

Next == Down \/ Up

Spec == Init /\ [][Next]_slotVars

============================================================================
