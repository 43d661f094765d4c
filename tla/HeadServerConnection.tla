------------------------ MODULE HeadServerConnection ------------------------
(***************************************************************************)
(* The connection of the console to the head server on the Internet        *)
(* (comms/src/headserverconnection.cpp) with the requests it queues and    *)
(* executes (request.cpp) and the two commands of the main UI that make,   *)
(* own and cancel them.  The connection has no socket of its own: it is    *)
(* what the last ping or request says.  Pings, requests in execution and   *)
(* interval timers are all outstanding calls of one event loop, and their  *)
(* completions arrive in any order.                                        *)
(*                                                                         *)
(* A request is freed by the event loop some time after it was scheduled   *)
(* for deletion.  Using it after that, or scheduling it a second time, is  *)
(* undefined behaviour: the model stops there (crashed).                   *)
(***************************************************************************)
EXTENDS Naturals, Sequences, FiniteSets

CONSTANTS
    Requests,           \* requests ever made
    DownloadRequests,   \* those of the DownloadApplication command
    FailureStatuses     \* statusCode() a failed invocation may report

InvocationFailures == {"ERROR", "CONNECTION_FAILED", "TIMEOUT_OCCURRED", "INVALID_INVOCATION"}

ASSUME RequestsAssumption ==
    /\ DownloadRequests \subseteq Requests
    /\ FailureStatuses \subseteq InvocationFailures

VARIABLES
    connectionState,    \* "NOT_CONNECTED" or "CONNECTED"
    pingState,          \* "IDLE_WAITING" or "SENT_AND_WAITING"
    requestQueue,
    pings,              \* pings sent and not answered yet
    timers,             \* single shot interval timers running
    running,            \* requests whose invocation is being executed
    made,               \* requests given to makeRequest()
    active,             \* requests with _active set
    answered,           \* what the command was told of a request, or "none"
    doomed,             \* requests whose deletion is scheduled
    deleted,            \* requests that have been freed
    crashed             \* a freed request was used or freed again

requestVars == <<active, answered, doomed, crashed>>
vars == <<connectionState, pingState, requestQueue, pings, timers, running, made,
          active, answered, doomed, deleted, crashed>>

-----------------------------------------------------------------------------
\* open() has sent the first ping.
Init ==
    /\ connectionState = "NOT_CONNECTED"
    /\ pingState = "SENT_AND_WAITING"
    /\ requestQueue = <<>>
    /\ pings = 1
    /\ timers = 0
    /\ running = {}
    /\ made = {}
    /\ active = Requests
    /\ answered = [r \in Requests |-> "none"]
    /\ doomed = {}
    /\ deleted = {}
    /\ crashed = FALSE

Queued == {requestQueue[i] : i \in 1..Len(requestQueue)}

\* Requests whose command still waits for an answer.
Pending == {r \in made \cap active : answered[r] = "none"}

\* ping(), `outstanding` being the pings that remain unanswered.
Ping(outstanding) ==
    /\ pings' = outstanding + 1
    /\ pingState' = "SENT_AND_WAITING"

\* The answer reaches the command if the request is still active.  Both
\* commands delete a request that succeeded; of those that failed only the
\* download command deletes its own.  A request that is not active any more is
\* scheduled for deletion whatever the answer is.
Finished_AnswersAgain(reqs, outcome) ==
    /\ answered' = [r \in Requests |-> IF r \in reqs THEN outcome ELSE answered[r]]
    /\ active' = active \ reqs
    /\ doomed' = doomed \cup reqs
    /\ crashed' = (reqs \cap (doomed \cup deleted) # {})
Finished(reqs, outcome) ==
    LET told == reqs \cap active
        kept == IF outcome = "failed" THEN told \ DownloadRequests ELSE {}
    IN  /\ answered' = [r \in Requests |-> IF r \in told THEN outcome ELSE answered[r]]
        /\ active' = active \ reqs
        /\ doomed' = doomed \cup (reqs \ kept)
        /\ crashed' = (reqs \cap (doomed \cup deleted) # {})

\* doMainStateLoop() in the connection and ping state just assigned: wait for
\* the ping, or execute the first request of the queue, or start the interval
\* timer.  `queue` and `executing` are the requests as the caller leaves them.
MainStateLoop_TimerIfConnected(queue, executing) ==
    LET serves == connectionState' = "CONNECTED" /\ queue # <<>>
        idle == pingState' = "IDLE_WAITING"
    IN  /\ requestQueue' = IF idle /\ serves THEN Tail(queue) ELSE queue
        /\ running' = IF idle /\ serves THEN executing \cup {Head(queue)} ELSE executing
        /\ timers' = IF idle /\ connectionState' = "CONNECTED" /\ ~serves
                     THEN timers + 1 ELSE timers
MainStateLoop_KeepsHead(queue, executing) ==
    /\ requestQueue' = queue
    /\ running' = IF pingState' = "SENT_AND_WAITING" \/ queue = <<>>
                  THEN executing ELSE executing \cup {Head(queue)}
    /\ UNCHANGED timers
MainStateLoop_TimerToo(queue, executing) ==
    LET serves == connectionState' = "CONNECTED" /\ queue # <<>>
    IN  IF pingState' = "SENT_AND_WAITING"
        THEN /\ requestQueue' = queue
             /\ running' = executing
             /\ UNCHANGED timers
        ELSE /\ requestQueue' = IF serves THEN Tail(queue) ELSE queue
             /\ running' = IF serves THEN executing \cup {Head(queue)} ELSE executing
             /\ timers' = timers + 1
MainStateLoop(queue, executing) ==
    IF pingState' = "SENT_AND_WAITING"
    THEN /\ requestQueue' = queue
         /\ running' = executing
         /\ UNCHANGED timers
    ELSE IF connectionState' = "CONNECTED" /\ queue # <<>>
    THEN /\ requestQueue' = Tail(queue)
         /\ running' = executing \cup {Head(queue)}
         /\ UNCHANGED timers
    ELSE /\ requestQueue' = queue
         /\ running' = executing
         /\ timers' = timers + 1

\* Whether that loop would execute a request that has been freed.
ExecutesFreed(queue) ==
    /\ pingState' = "IDLE_WAITING"
    /\ connectionState' = "CONNECTED"
    /\ queue # <<>>
    /\ Head(queue) \in deleted

-----------------------------------------------------------------------------
\* onPingReady()
PingReady == pingState' = "IDLE_WAITING"

PingOk ==
    /\ ~crashed
    /\ pings > 0
    /\ pings' = pings - 1
    /\ connectionState' = "CONNECTED"
    /\ PingReady
    /\ MainStateLoop(requestQueue, running)
    /\ crashed' = ExecutesFreed(requestQueue)
    /\ UNCHANGED <<made, active, answered, doomed, deleted>>

\* onPingError(): every queued request fails, and stays in the queue: the call
\* requestQueue.empty() only asks whether it is empty.
PingError_SparesQueued ==
    /\ ~crashed
    /\ pings > 0
    /\ pings' = pings - 1
    /\ connectionState' = "NOT_CONNECTED"
    /\ pingState' = "IDLE_WAITING"
    /\ Finished({}, "failed")
    /\ MainStateLoop(requestQueue, running)
    /\ UNCHANGED <<made, deleted>>
PingError ==
    /\ ~crashed
    /\ pings > 0
    /\ pings' = pings - 1
    /\ connectionState' = "NOT_CONNECTED"
    /\ pingState' = "IDLE_WAITING"
    /\ Finished(Queued, "failed")
    /\ MainStateLoop(requestQueue, running)
    /\ UNCHANGED <<made, deleted>>

\* pingIntervalCheck()
TimerFires ==
    /\ ~crashed
    /\ timers > 0
    /\ timers' = timers - 1
    /\ IF pingState = "SENT_AND_WAITING"
       THEN UNCHANGED <<pings, pingState>>
       ELSE Ping(pings)
    /\ UNCHANGED <<connectionState, requestQueue, running, made, requestVars, deleted>>

\* makeRequest() of a command: without a connection a ping goes out, also when
\* one is under way already.
MakeRequest(r) ==
    /\ ~crashed
    /\ r \notin made
    /\ made' = made \cup {r}
    /\ UNCHANGED <<connectionState, active, answered, doomed, deleted>>
    /\ IF connectionState = "NOT_CONNECTED"
       THEN /\ requestQueue' = Append(requestQueue, r)
            /\ Ping(pings)
            /\ UNCHANGED <<running, timers, crashed>>
       ELSE /\ UNCHANGED <<pings, pingState>>
            /\ MainStateLoop(Append(requestQueue, r), running)
            /\ crashed' = ExecutesFreed(Append(requestQueue, r))

\* What an answered invocation tells the command of a request: that it is ok;
\* or, of the list of applications, that it failed, because the answer is no
\* valid JSON.  The command then does not delete the request.
AnswerOutcomes(r) == IF r \in DownloadRequests THEN {"ok"} ELSE {"ok", "failed"}

\* requestReady(): any request that is answered counts as a successful ping,
\* whatever the answer holds and also while a ping is still unanswered.
RequestOk(r, outcome) ==
    /\ ~crashed
    /\ r \in running
    /\ connectionState' = "CONNECTED"
    /\ PingReady
    /\ MainStateLoop(requestQueue, running \ {r})
    /\ answered' = IF r \in active THEN [answered EXCEPT ![r] = outcome] ELSE answered
    /\ active' = active \ {r}
    /\ doomed' = IF r \in active /\ outcome = "failed" THEN doomed ELSE doomed \cup {r}
    /\ crashed' = (r \in doomed \cup deleted \/ ExecutesFreed(requestQueue))
    /\ UNCHANGED <<pings, made, deleted>>

\* requestFailed(): only a failure to connect or a timeout sends a ping; any
\* other status leaves neither a ping nor a timer behind.  (The invocations
\* report no status but ERROR and INVALID_INVOCATION.)
Repings(status) == status \in {"CONNECTION_FAILED", "TIMEOUT_OCCURRED"}

RequestFails(r, status) ==
    /\ ~crashed
    /\ r \in running
    /\ running' = running \ {r}
    /\ Finished({r}, "failed")
    /\ IF Repings(status) THEN Ping(pings) ELSE UNCHANGED <<pings, pingState>>
    /\ UNCHANGED <<connectionState, requestQueue, timers, made, deleted>>

\* The main UI's control channel is closed and its commands are destroyed: they
\* cancel their ongoing requests.  Aborting an executing invocation reports the
\* status ERROR at once; a queued request stays queued.
CancelOngoing ==
    /\ ~crashed
    /\ Pending # {}
    /\ active' = active \ Pending
    /\ running' = running \ Pending
    /\ doomed' = doomed \cup (Pending \cap running)
    /\ UNCHANGED <<connectionState, pingState, requestQueue, pings, timers, made,
                   answered, deleted, crashed>>

\* The event loop frees a request.
Delete(r) ==
    /\ ~crashed
    /\ r \in doomed
    /\ doomed' = doomed \ {r}
    /\ deleted' = deleted \cup {r}
    /\ UNCHANGED <<connectionState, pingState, requestQueue, pings, timers, running,
                   made, active, answered, crashed>>

-----------------------------------------------------------------------------
Next ==
    \/ PingOk
    \/ PingError
    \/ TimerFires
    \/ CancelOngoing
    \/ \E r \in Requests :
        \/ MakeRequest(r)
        \/ \E outcome \in AnswerOutcomes(r) : RequestOk(r, outcome)
        \/ \E status \in FailureStatuses : RequestFails(r, status)
        \/ Delete(r)

Spec == Init /\ [][Next]_vars

\* The network stack answers or fails every call, and timers fire.
Fairness ==
    /\ WF_vars(PingOk \/ PingError)
    /\ WF_vars(TimerFires)
    /\ \A r \in Requests :
        WF_vars(\/ \E outcome \in AnswerOutcomes(r) : RequestOk(r, outcome)
                \/ \E status \in FailureStatuses : RequestFails(r, status))

FairSpec == Spec /\ Fairness

-----------------------------------------------------------------------------
(* Properties.                                                             *)

\* The shape of the state; in particular a request is in the queue at most
\* once and never while it is being executed.
TypeOK ==
    /\ connectionState \in {"NOT_CONNECTED", "CONNECTED"}
    /\ pingState \in {"IDLE_WAITING", "SENT_AND_WAITING"}
    /\ requestQueue \in Seq(made)
    /\ \A i, j \in 1..Len(requestQueue) : requestQueue[i] = requestQueue[j] => i = j
    /\ Queued \cap running = {}
    /\ pings \in Nat
    /\ timers \in Nat
    /\ running \subseteq made
    /\ made \subseteq Requests
    /\ active \subseteq Requests
    /\ answered \in [Requests -> {"none", "ok", "failed"}]
    /\ doomed \subseteq Requests
    /\ deleted \subseteq Requests
    /\ crashed \in BOOLEAN

\* The connection never waits for a ping that is not under way, although
\* successful requests clear the waiting state and several pings may overlap.
WaitsForRealPing == pingState = "SENT_AND_WAITING" => pings > 0

\* A request the command still waits for is in the queue or being executed: no
\* interleaving of pings, failures and cancellations loses it.
NothingLost == ~crashed => \A r \in Pending : r \in Queued \cup running

\* Overlapping pings, timers and executions never exceed one more than the
\* requests made: nothing the event loop does by itself multiplies them.
BoundedLoops == pings + timers + Cardinality(running) <= 1 + Cardinality(made)

\* Nothing is under way that will make the connection look at its queue again.
Stalled == pings = 0 /\ timers = 0 /\ running = {}

\* The loop of pings, timers and executions ends only in a state in which the
\* next makeRequest() starts it again at once: connected and waiting for no
\* ping.  Without a connection it never ends, whatever overlaps and fails.
StallsOnlyWhenConnected ==
    Stalled => connectionState = "CONNECTED" /\ pingState = "IDLE_WAITING"

\* "HeadServerConnection will do regular ping REST calls."
RegularPings == []<>(pings > 0 \/ crashed)

\* A command gets its answer or gives the request up, unless the loop ends
\* first, which is the only way a request is ever left waiting: no order of
\* pings, timers and other requests overtakes it forever.
EveryRequestSettles ==
    \A r \in Requests : r \in made ~> (r \notin Pending \/ Stalled \/ crashed)

\* The detailed connection implements the request service: one answer at most,
\* none after the command gave up, whatever is still executed later.
Service == INSTANCE RequestService WITH
    status <- [r \in Requests |->
                    IF r \notin made THEN "idle"
                    ELSE IF answered[r] # "none" THEN answered[r]
                    ELSE IF r \in active THEN "pending" ELSE "cancelled"]

ServiceSpec == Service!Spec

=============================================================================
