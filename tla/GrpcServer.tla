------------------------------ MODULE GrpcServer ------------------------------
(***************************************************************************)
(* The gRPC thread: the life of the tonic server in main.rs and the        *)
(* SendImage handlers of service.rs, which run concurrently on the tokio   *)
(* workers. A handler reads the cancellation flag first and the queue      *)
(* last, and anything may happen in between.                               *)
(***************************************************************************)
EXTENDS DisplayChannel

CONSTANT Malformed  \* the requests that send_image's validation rejects

ASSUME MalformedAssumption == Malformed \subseteq Requests

VARIABLES
    grpc,        \* where the gRPC thread is
    grpcResult,  \* what its closure returns
    rpc          \* for each SendImage call, where its handler is or what it answered

grpcVars == <<grpc, grpcResult, rpc>>

Answers == {"OK", "UNAVAILABLE", "INVALID_ARGUMENT", "RESOURCE_EXHAUSTED"}

GrpcTypeOK ==
    /\ grpc \in {"starting", "serving", "draining", "lingering", "returned",
                 "cancelled", "ended"}
    /\ grpcResult \in {"none", "ok", "err"}
    /\ rpc \in [Requests -> {"unsent", "checked"} \cup Answers]

GrpcInit ==
    /\ grpc = "starting"
    /\ grpcResult = "none"
    /\ rpc = [r \in Requests |-> "unsent"]

\* A handler has begun and not answered. send_image has no await point, so the
\* poll that runs it finishes even while the runtime is being dropped.
HandlerRunning == \E r \in Requests : rpc[r] = "checked"

-----------------------------------------------------------------------------
(* The server thread.                                                      *)

\* serve_with_shutdown binds the address and starts to accept.
GrpcServe ==
    /\ grpc = "starting"
    /\ grpc' = "serving"
    /\ UNCHANGED <<grpcResult, rpc>> /\ UNCHANGED channelVars

\* The runtime cannot be built (the service then lives until the closure is
\* dropped) or the address cannot be bound (the service dies with the future).
GrpcFails ==
    /\ grpc = "starting"
    /\ grpc' = "returned"
    /\ grpcResult' = "err"
    /\ faults' = faults \cup {"bind"}
    /\ senders' \in {TRUE, FALSE}
    /\ UNCHANGED <<shutdown, queue, receiver, rpc>>

\* SIGINT or SIGTERM, once serve_with_shutdown has installed the handlers.
Signal ==
    /\ grpc = "serving"
    /\ ~shutdown
    /\ Cancel
    /\ UNCHANGED <<queue, senders, receiver, faults>> /\ UNCHANGED grpcVars

\* cancelled() resolves: the server stops accepting, the 2 s drain begins.
ObserveShutdown ==
    /\ grpc = "serving"
    /\ shutdown
    /\ grpc' = "draining"
    /\ UNCHANGED <<grpcResult, rpc>> /\ UNCHANGED channelVars

\* Every connection has ended: the service and its sender are dropped.
Drained ==
    /\ grpc = "draining"
    /\ ~HandlerRunning
    /\ grpc' = "returned"
    /\ grpcResult' = "ok"
    /\ senders' = FALSE
    /\ UNCHANGED <<shutdown, queue, receiver, faults, rpc>>

\* The drain exceeded 2 s: block_on returns Ok, but the connection tasks keep
\* the service, and with it a sender, until the runtime is dropped.
DrainTimeout ==
    /\ grpc = "draining"
    /\ grpc' = "lingering"
    /\ grpcResult' = "ok"
    /\ UNCHANGED rpc /\ UNCHANGED channelVars

\* _guard is dropped first; the runtime, a temporary of the tail expression, after it.
GrpcGuardDrops ==
    /\ grpc \in {"returned", "lingering"}
    /\ grpc' = "cancelled"
    /\ Cancel
    /\ UNCHANGED <<queue, senders, receiver, faults, grpcResult, rpc>>

\* Mutation: the runtime is shut down in the background.
GrpcEndsInBackground ==
    /\ grpc = "cancelled"
    /\ grpc' = "ended"
    /\ senders' = FALSE
    /\ UNCHANGED <<shutdown, queue, receiver, faults, grpcResult, rpc>>

\* Dropping the runtime waits for the polls in progress and drops every task.
GrpcEnds ==
    /\ grpc = "cancelled"
    /\ ~HandlerRunning
    /\ grpc' = "ended"
    /\ senders' = FALSE
    /\ UNCHANGED <<shutdown, queue, receiver, faults, grpcResult, rpc>>

GrpcThread ==
    \/ GrpcServe \/ GrpcFails
    \/ ObserveShutdown \/ Drained \/ DrainTimeout
    \/ GrpcGuardDrops \/ GrpcEnds

-----------------------------------------------------------------------------
(* The SendImage handlers.                                                 *)

\* Connections exist from the first accept until their tasks are dropped; those
\* accepted before a shutdown still deliver calls after it.
Connected == grpc \in {"serving", "draining", "lingering"}

Answer(r, a) == rpc' = [rpc EXCEPT ![r] = a]

\* send_image begins: a call that starts after a cancellation is turned away.
SendImage(r) ==
    /\ Connected
    /\ rpc[r] = "unsent"
    /\ Answer(r, IF shutdown THEN "UNAVAILABLE" ELSE "checked")
    /\ UNCHANGED <<grpc, grpcResult>> /\ UNCHANGED channelVars

\* The validation between the flag and the queue rejects the request.
Reject(r) ==
    /\ rpc[r] = "checked"
    /\ r \in Malformed
    /\ Answer(r, "INVALID_ARGUMENT")
    /\ UNCHANGED <<grpc, grpcResult>> /\ UNCHANGED channelVars

\* Mutation: the error of try_send is ignored.
SubmitIgnoringErrors(r) ==
    /\ rpc[r] = "checked"
    /\ r \notin Malformed
    /\ Answer(r, "OK")
    /\ IF receiver /\ Len(queue) < Capacity THEN TrySend(r) ELSE UNCHANGED queue
    /\ UNCHANGED <<grpc, grpcResult, shutdown, senders, receiver, faults>>

\* try_send: a dead receiver is reported before a full queue.
Submit(r) ==
    /\ rpc[r] = "checked"
    /\ r \notin Malformed
    /\ \/ /\ ~receiver
          /\ Answer(r, "UNAVAILABLE")
          /\ UNCHANGED queue
       \/ /\ receiver
          /\ Len(queue) = Capacity
          /\ Answer(r, "RESOURCE_EXHAUSTED")
          /\ UNCHANGED queue
       \/ /\ receiver
          /\ Len(queue) < Capacity
          /\ Answer(r, "OK")
          /\ TrySend(r)
    /\ UNCHANGED <<grpc, grpcResult, shutdown, senders, receiver, faults>>

Finish(r) == Reject(r) \/ Submit(r)

GrpcNext == GrpcThread \/ Signal \/ \E r \in Requests : SendImage(r) \/ Finish(r)
=============================================================================
