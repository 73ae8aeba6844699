------------------------------ MODULE Limiter -------------------------------
(***************************************************************************)
(* The concurrency bound shared by the REST and MCP surfaces:              *)
(* serving.Limiter.Middleware around the handlers that cmd/server mounts.  *)
(* REST sits inside an http.TimeoutHandler, which runs the handler in a    *)
(* goroutine of its own and returns without it when the deadline passes;   *)
(* MCP streams and has no deadline.                                        *)
(*                                                                         *)
(* A request is a connection goroutine (conn) and the handler's work (job).*)
(* For MCP they are one goroutine; for REST the job may outlive conn.      *)
(***************************************************************************)
EXTENDS Naturals, FiniteSets

CONSTANTS
    Req,                    \* request slots of the model; each may be reused
    Rest,                   \* the ones that come in on /v1/ (the others: /mcp)
    MaxConcurrentQueries    \* capacity of the slots channel

ASSUME LimiterAssumption ==
    /\ IsFiniteSet(Req) /\ Rest \subseteq Req
    /\ MaxConcurrentQueries \in Nat \ {0}

VARIABLES
    slots,  \* len(l.slots)
    conn,   \* [Req -> where the connection's goroutine is]
    job     \* [Req -> what the handler has allocated]

limiterVars == <<slots, conn, job>>

Conn == {"none", "waiting", "serving", "writing"}
Job  == {"none", "working", "result"}

LimiterInit ==
    /\ slots = 0
    /\ conn = [r \in Req |-> "none"] /\ job = [r \in Req |-> "none"]

AcquireOneMore == slots <= MaxConcurrentQueries /\ slots' = slots + 1
Acquire == slots < MaxConcurrentQueries /\ slots' = slots + 1
Release == slots' = slots - 1

(* A request reaches Middleware                                            *)
Arrive(r) ==
    /\ conn[r] = "none" /\ job[r] = "none"
    /\ conn' = [conn EXCEPT ![r] = "waiting"]
    /\ UNCHANGED <<slots, job>>

(* case l.slots <- struct{}{}: the handler starts                          *)
TakeSlot(r) ==
    /\ conn[r] = "waiting" /\ Acquire
    /\ conn' = [conn EXCEPT ![r] = "serving"]
    /\ job' = [job EXCEPT ![r] = "working"]

(* case <-r.Context().Done()                                               *)
GiveUpReleasing(r) ==
    /\ conn[r] = "waiting" /\ slots > 0 /\ Release
    /\ conn' = [conn EXCEPT ![r] = "none"]
    /\ UNCHANGED job
GiveUp(r) ==
    /\ conn[r] = "waiting"
    /\ conn' = [conn EXCEPT ![r] = "none"]
    /\ UNCHANGED <<slots, job>>

(* case <-timer.C: 503 and Retry-After.  select picks any ready case, so    *)
(* the timer may win even when a slot is free.                             *)
RejectWhenFree(r) ==
    /\ conn[r] = "waiting" /\ slots < MaxConcurrentQueries
    /\ conn' = [conn EXCEPT ![r] = "none"]
    /\ UNCHANGED <<slots, job>>
Reject(r) ==
    /\ conn[r] = "waiting"
    /\ conn' = [conn EXCEPT ![r] = "none"]
    /\ UNCHANGED <<slots, job>>

(* The handler gets its rows, from the engine or from the cache            *)
Compute(r) ==
    /\ job[r] = "working"
    /\ job' = [job EXCEPT ![r] = "result"]
    /\ UNCHANGED <<slots, conn>>

(* The handler fails and has only an error to write                        *)
Fail(r) ==
    /\ conn[r] = "serving" /\ job[r] = "working"
    /\ conn' = [conn EXCEPT ![r] = "writing"]
    /\ job' = [job EXCEPT ![r] = "none"]
    /\ UNCHANGED slots

(* The handler hands its rows over; they are encoded and written, as fast   *)
(* as the client reads                                                      *)
StartWriting(r) ==
    /\ conn[r] = "serving" /\ job[r] = "result"
    /\ conn' = [conn EXCEPT ![r] = "writing"]
    /\ UNCHANGED <<slots, job>>

(* The response is written (or the client is gone): defer func() { <-l.slots } *)
Written(r) ==
    /\ conn[r] = "writing" /\ Release
    /\ conn' = [conn EXCEPT ![r] = "none"]
    /\ job' = [job EXCEPT ![r] = "none"]

(* http.TimeoutHandler: the deadline passes while the handler runs; the     *)
(* connection gets "request timed out" and Middleware returns               *)
DeadlineForBoth(r) ==
    /\ conn[r] = "serving" /\ Release
    /\ conn' = [conn EXCEPT ![r] = "none"]
    /\ UNCHANGED job
Deadline(r) ==
    /\ r \in Rest /\ conn[r] = "serving" /\ Release
    /\ conn' = [conn EXCEPT ![r] = "none"]
    /\ UNCHANGED job

(* The handler the deadline left behind notices that its context is done    *)
AbandonedEnds(r) ==
    /\ conn[r] = "none" /\ job[r] # "none"
    /\ job' = [job EXCEPT ![r] = "none"]
    /\ UNCHANGED <<slots, conn>>

LimiterStep(r) ==
    \/ Arrive(r) \/ TakeSlot(r) \/ GiveUp(r) \/ Reject(r)
    \/ Compute(r) \/ Fail(r) \/ StartWriting(r) \/ Written(r)
    \/ Deadline(r) \/ AbandonedEnds(r)

LimiterNext == \E r \in Req : LimiterStep(r)

LimiterSpec == LimiterInit /\ [][LimiterNext]_limiterVars

(* The queue timer fires and handlers run; clients may read arbitrarily     *)
(* slowly (there is no WriteTimeout), so Written and GiveUp are not fair    *)
LimiterFairness == \A r \in Req :
    WF_limiterVars(Reject(r)) /\ WF_limiterVars(Compute(r) \/ Fail(r)) /\ WF_limiterVars(StartWriting(r))

LimiterFairSpec == LimiterSpec /\ LimiterFairness

-----------------------------------------------------------------------------
(* Every variable keeps its type; in particular <-l.slots never blocks.     *)
LimiterTypeOK ==
    slots \in 0..MaxConcurrentQueries /\ conn \in [Req -> Conn] /\ job \in [Req -> Job]

Holders == {r \in Req : conn[r] \in {"serving", "writing"}}

(* No exit path of Middleware leaks a slot or returns one it never took:     *)
(* the slots held are exactly the requests between acquisition and return.   *)
SlotsMatchHandlers == slots = Cardinality(Holders)

(* The memory budget of Limits.MaxConcurrentQueries: no more results are     *)
(* held at once than there are slots, except by REST handlers that           *)
(* http.TimeoutHandler has left behind (the mux of cmd/server).              *)
ResultsWithinBudget ==
    Cardinality({r \in Req : job[r] = "result" /\ (r \in Rest => conn[r] # "none")})
        <= MaxConcurrentQueries

(* "Rejected with 503 rather than queued indefinitely": a request leaves     *)
(* the queue even if every slot is held by a client that never reads.        *)
NoOneQueuesForever == \A r \in Req : conn[r] = "waiting" ~> conn[r] # "waiting"
=============================================================================
