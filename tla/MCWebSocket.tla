---------------------------- MODULE MCWebSocket ----------------------------
EXTENDS WebSocket

Data(n, last) == [op |-> "data", last |-> last, len |-> n]
Closing(n) == [op |-> "close", last |-> TRUE, len |-> n]
Wrong == [op |-> "bad", last |-> TRUE, len |-> 0]

Planned(frames, n) == [frames |-> frames, sends |-> n]

(* Messages in one frame or two, empty frames, a close with and without     *)
(* a reason, and a frame that is refused; and messages to the client.       *)
MCPlans == {Planned(<<Data(2, TRUE)>>, 0),
            Planned(<<Data(0, FALSE), Data(1, TRUE)>>, 0),
            Planned(<<Data(1, TRUE), Closing(1)>>, 0),
            Planned(<<Wrong, Data(1, TRUE)>>, 0),
            Planned(<<Closing(0)>>, 1),
            Planned(<<>>, 3)}
=============================================================================
