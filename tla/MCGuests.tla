------------------------------- MODULE MCGuests ------------------------------
(* An engine's guests: the requests they serve (GuestRequests) and the       *)
(* completions they stream (CompletionStream), one or the other.             *)
EXTENDS GuestRequests, CompletionStream

NestedCalls == {<<1, 2>>}

all == <<guestVars, stream>>

NoStreams == stream = [s \in Streams |-> [Unopened EXCEPT !.guest = "absent"]]

NoRequests ==
    /\ gate = FALSE /\ chan = <<>> /\ rx = "ended" /\ free = 0
    /\ req = [r \in Requests |-> [Unsent EXCEPT !.client = "absent"]]

MCInit ==
    \/ /\ GuestInit({1, 2}, 1) \/ GuestInit({1, 2}, 2) \/ GuestInit({1, 3}, 1)
       /\ NoStreams
    \/ StreamInit /\ NoRequests

MCNext ==
    \/ GuestNext /\ UNCHANGED stream
    \/ StreamNext /\ UNCHANGED guestVars

GuestSpec == MCInit /\ [][MCNext]_all /\ GuestFairness
=============================================================================
