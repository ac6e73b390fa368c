----------------------------- MODULE MCBcaster -----------------------------
EXTENDS BcasterServer

CONSTANTS c1, c2, c3

\* A frame as the cross_injector sends it: a header (length, timestamp)
\* and len payload bytes.  The timestamp and payload bytes are the frame's
\* id, so that every frame of a run is distinct.
Frame(len, id) == <<len, id>> \o [i \in 1..len |-> id]

\* Steady state: registered clients forward frames of one length; c3, if
\* present, sends one frame too.
ScriptSteady == [c \in Clients |-> CASE c = c1 -> <<Frame(1, 1), Frame(1, 2)>>
                                     [] c = c2 -> <<Frame(1, 3)>>
                                     [] OTHER  -> <<Frame(1, 4)>>]
FdsSteady == <<c1, c2>>
FdsSteady3 == <<c1, c2, c3>>

\* c2 connects while c1, registered, is sending; c2 only listens, or
\* sends a frame too.
ScriptJoin == [c \in Clients |-> IF c = c1 THEN <<Frame(1, 1), Frame(1, 2)>>
                                 ELSE <<>>]
ScriptJoinSend == [c \in Clients |-> IF c = c1 THEN <<Frame(1, 1)>>
                                     ELSE <<Frame(1, 3)>>]
FdsJoin == <<c1>>
FdsNone == <<>>

\* Frames of two lengths from one client.
ScriptLengths == [c \in Clients |-> IF c = c1 THEN <<Frame(1, 1), Frame(2, 2)>>
                                    ELSE <<>>]

\* ci_stop_client: a frame, then the raw stop marker.
ScriptStop == [c \in Clients |-> IF c = c1 THEN <<Frame(1, 1), STOP_MSG>>
                                 ELSE <<>>]
=============================================================================
