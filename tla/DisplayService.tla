---------------------------- MODULE DisplayService ----------------------------
(***************************************************************************)
(* What led-service2 promises its clients, with no threads in it: an       *)
(* accepted request is shown after those accepted before it, one at a      *)
(* time, or dropped because the service closes; none is accepted beyond    *)
(* the queue's bound, refused without a reason, shown twice, or begun      *)
(* after the service was told to close.                                    *)
(***************************************************************************)
EXTENDS Naturals, Sequences

CONSTANTS Requests, Malformed, Capacity, None

VARIABLES
    waiting,   \* accepted and not begun, oldest first
    showing,   \* the request being processed
    status,    \* what became of each request
    closing,   \* no request will begin any more
    down       \* nothing is accepted any more

vars == <<waiting, showing, status, closing, down>>

Waiting == {waiting[i] : i \in DOMAIN waiting}

Init ==
    /\ waiting = <<>>
    /\ showing = None
    /\ status = [r \in Requests |-> "new"]
    /\ closing = FALSE
    /\ down = FALSE

\* Besides the queue's slots there is the one request the worker has received.
Accept(r) ==
    /\ ~down
    /\ status[r] = "new"
    /\ r \notin Malformed
    /\ Len(waiting) <= Capacity
    /\ waiting' = Append(waiting, r)
    /\ status' = [status EXCEPT ![r] = "accepted"]
    /\ UNCHANGED <<showing, closing, down>>

Refuse(r) ==
    /\ status[r] = "new"
    /\ r \in Malformed \/ Len(waiting) >= Capacity \/ closing
    /\ status' = [status EXCEPT ![r] = "refused"]
    /\ UNCHANGED <<waiting, showing, closing, down>>

Begin ==
    /\ ~closing
    /\ showing = None
    /\ waiting # <<>>
    /\ showing' = Head(waiting)
    /\ waiting' = Tail(waiting)
    /\ UNCHANGED <<status, closing, down>>

\* A request that ends with a closed window or a dead panel closes the service.
End ==
    /\ showing # None
    /\ status' = [status EXCEPT ![showing] = "ended"]
    /\ showing' = None
    /\ closing' \in {closing, TRUE}
    /\ UNCHANGED <<waiting, down>>

Close ==
    /\ ~closing
    /\ closing' = TRUE
    /\ UNCHANGED <<waiting, showing, status, down>>

Drop ==
    /\ closing /\ ~down
    /\ showing = None
    /\ down' = TRUE
    /\ waiting' = <<>>
    /\ status' = [r \in Requests |-> IF r \in Waiting THEN "dropped" ELSE status[r]]
    /\ UNCHANGED <<showing, closing>>

Next ==
    \/ \E r \in Requests : Accept(r) \/ Refuse(r)
    \/ Begin \/ End \/ Close \/ Drop

Safety == Init /\ [][Next]_vars

Spec == Safety /\ WF_vars(Begin) /\ WF_vars(End) /\ WF_vars(Drop)
=============================================================================
