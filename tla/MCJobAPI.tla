------------------------------- MODULE MCJobAPI -------------------------------
(* Small instances of JobAPI for TLC.                                      *)
EXTENDS JobAPI

CONSTANTS c1, c2, e1, e2

Of(event) == [event |-> event, valid |-> TRUE]
Invalid == [event |-> NoEvent, valid |-> FALSE]

TheItems == {Of(e1), Of(e2), Of(NoEvent), Invalid}

(* Two events in either order, one of them twice, an item without event    *)
(* before one with, an invalid item at the end, nothing, and too many.     *)
TheRequests == {<<Of(e1), Of(e2)>>, <<Of(e2), Of(e1)>>, <<Of(e1), Of(e1)>>,
                <<Of(NoEvent), Of(e1)>>, <<Of(e1), Invalid>>, << >>,
                <<Of(e1), Of(e1), Of(e2)>>}
=============================================================================
