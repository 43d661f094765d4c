--------------------- MODULE HeadServerConnectionProofs ---------------------
(***************************************************************************)
(* Proofs about HeadServerConnection for any set of requests.              *)
(*                                                                         *)
(* That no request is lost rests on the queue holding every request at     *)
(* most once and none that is being executed (part of TypeOK): executing   *)
(* the head then takes it out of one set and puts it into the other.       *)
(***************************************************************************)
EXTENDS HeadServerConnection, FiniteSetTheorems, TLAPS

Distinct(queue) == \A i, j \in 1..Len(queue) : queue[i] = queue[j] => i = j
Elems(queue) == {queue[i] : i \in 1..Len(queue)}

IInv ==
    /\ TypeOK
    /\ WaitsForRealPing
    /\ NothingLost

-----------------------------------------------------------------------------
(* Queues.                                                                 *)

LEMMA Dequeued ==
    ASSUME NEW S, NEW queue \in Seq(S), queue # <<>>, Distinct(queue)
    PROVE  /\ Tail(queue) \in Seq(S)
           /\ Head(queue) \in S
           /\ Distinct(Tail(queue))
           /\ Head(queue) \notin Elems(Tail(queue))
           /\ Elems(queue) = Elems(Tail(queue)) \cup {Head(queue)}
<1>1. /\ Tail(queue) \in Seq(S)
      /\ Len(queue) \in Nat \ {0}
      /\ Len(Tail(queue)) = Len(queue) - 1
      /\ Head(queue) = queue[1]
      /\ \A i \in 1..Len(Tail(queue)) : Tail(queue)[i] = queue[i + 1]
  OBVIOUS
<1>2. Head(queue) \in S
  BY <1>1
<1>3. Distinct(Tail(queue))
  <2> SUFFICES ASSUME NEW i \in 1..Len(Tail(queue)), NEW j \in 1..Len(Tail(queue)),
                      Tail(queue)[i] = Tail(queue)[j]
               PROVE  i = j
      BY DEF Distinct
  <2>1. i + 1 \in 1..Len(queue) /\ j + 1 \in 1..Len(queue)
    BY <1>1
  <2>2. queue[i + 1] = queue[j + 1]
    BY <1>1
  <2>3. i + 1 = j + 1
    BY <2>1, <2>2 DEF Distinct
  <2> QED BY <2>3
<1>4. Head(queue) \notin Elems(Tail(queue))
  <2> SUFFICES ASSUME NEW i \in 1..Len(Tail(queue)), Tail(queue)[i] = Head(queue)
               PROVE  FALSE
      BY DEF Elems
  <2>1. i + 1 \in 1..Len(queue) /\ 1 \in 1..Len(queue) /\ queue[i + 1] = queue[1]
    BY <1>1
  <2>2. i + 1 = 1
    BY <2>1 DEF Distinct
  <2> QED BY <2>2
<1>5. Elems(queue) = Elems(Tail(queue)) \cup {Head(queue)}
  <2>1. \A x \in Elems(queue) : x \in Elems(Tail(queue)) \cup {Head(queue)}
    <3> SUFFICES ASSUME NEW i \in 1..Len(queue)
                 PROVE  queue[i] \in Elems(Tail(queue)) \cup {Head(queue)}
        BY DEF Elems
    <3>1. CASE i = 1
      BY <1>1, <3>1
    <3>2. CASE i # 1
      <4>1. i - 1 \in 1..Len(Tail(queue)) /\ Tail(queue)[i - 1] = queue[i]
        BY <1>1, <3>2
      <4> QED BY <4>1 DEF Elems
    <3> QED BY <3>1, <3>2
  <2>2. \A x \in Elems(Tail(queue)) : x \in Elems(queue)
    <3> SUFFICES ASSUME NEW i \in 1..Len(Tail(queue)) PROVE Tail(queue)[i] \in Elems(queue)
        BY DEF Elems
    <3>1. i + 1 \in 1..Len(queue) /\ Tail(queue)[i] = queue[i + 1]
      BY <1>1
    <3> QED BY <3>1 DEF Elems
  <2>3. Head(queue) \in Elems(queue)
    BY <1>1 DEF Elems
  <2> QED BY <2>1, <2>2, <2>3
<1> QED BY <1>1, <1>2, <1>3, <1>4, <1>5

LEMMA Enqueued ==
    ASSUME NEW S, NEW queue \in Seq(S), NEW r \in S, r \notin Elems(queue), Distinct(queue)
    PROVE  /\ Append(queue, r) \in Seq(S)
           /\ Append(queue, r) # <<>>
           /\ Distinct(Append(queue, r))
           /\ Elems(Append(queue, r)) = Elems(queue) \cup {r}
<1>1. /\ Append(queue, r) \in Seq(S)
      /\ Len(queue) \in Nat
      /\ Len(Append(queue, r)) = Len(queue) + 1
      /\ Append(queue, r)[Len(queue) + 1] = r
      /\ \A i \in 1..Len(queue) : Append(queue, r)[i] = queue[i]
  OBVIOUS
<1>2. Append(queue, r) # <<>>
  BY <1>1
<1>3. \A i \in 1..Len(queue) : queue[i] # r
  BY DEF Elems
<1>4. Distinct(Append(queue, r))
  <2> SUFFICES ASSUME NEW i \in 1..(Len(queue) + 1), NEW j \in 1..(Len(queue) + 1),
                      Append(queue, r)[i] = Append(queue, r)[j]
               PROVE  i = j
      BY <1>1 DEF Distinct
  <2>1. CASE i \in 1..Len(queue) /\ j \in 1..Len(queue)
    BY <1>1, <2>1 DEF Distinct
  <2>2. CASE i = Len(queue) + 1 /\ j \in 1..Len(queue)
    BY <1>1, <1>3, <2>2
  <2>3. CASE j = Len(queue) + 1 /\ i \in 1..Len(queue)
    BY <1>1, <1>3, <2>3
  <2>4. CASE i = Len(queue) + 1 /\ j = Len(queue) + 1
    BY <2>4
  <2> QED BY <1>1, <2>1, <2>2, <2>3, <2>4
<1>5. Elems(Append(queue, r)) = Elems(queue) \cup {r}
  <2>1. \A x \in Elems(Append(queue, r)) : x \in Elems(queue) \cup {r}
    <3> SUFFICES ASSUME NEW i \in 1..(Len(queue) + 1)
                 PROVE  Append(queue, r)[i] \in Elems(queue) \cup {r}
        BY <1>1 DEF Elems
    <3>1. CASE i \in 1..Len(queue)
      BY <1>1, <3>1 DEF Elems
    <3>2. CASE i = Len(queue) + 1
      BY <1>1, <3>2
    <3> QED BY <1>1, <3>1, <3>2
  <2>2. \A i \in 1..Len(queue) : queue[i] \in Elems(Append(queue, r))
    <3> SUFFICES ASSUME NEW i \in 1..Len(queue) PROVE queue[i] \in Elems(Append(queue, r))
        OBVIOUS
    <3>1. i \in 1..Len(Append(queue, r)) /\ Append(queue, r)[i] = queue[i]
      BY <1>1
    <3> QED BY <3>1 DEF Elems
  <2>3. r \in Elems(Append(queue, r))
    <3>1. Len(queue) + 1 \in 1..Len(Append(queue, r))
      BY <1>1
    <3> QED BY <1>1, <3>1 DEF Elems
  <2>4. \A x \in Elems(queue) : x \in Elems(Append(queue, r))
    BY <2>2 DEF Elems
  <2> QED BY <2>1, <2>3, <2>4
<1> QED BY <1>1, <1>2, <1>4, <1>5

\* The main state loop moves at most the head of the queue to the requests in
\* execution; if it waits for no ping and executes nothing, it starts a timer.
LEMMA LoopFacts ==
    ASSUME NEW S, NEW queue \in Seq(S), Distinct(queue), NEW executing \in SUBSET S,
           Elems(queue) \cap executing = {}, timers \in Nat,
           MainStateLoop(queue, executing)
    PROVE  /\ requestQueue' \in Seq(S)
           /\ Distinct(requestQueue')
           /\ running' \subseteq S
           /\ Elems(requestQueue') \cap running' = {}
           /\ Elems(requestQueue') \cup running' = Elems(queue) \cup executing
           /\ timers' \in Nat
           /\ pingState' = "SENT_AND_WAITING" \/ timers' > 0 \/ running' # {}
<1>1. CASE pingState' = "SENT_AND_WAITING"
  BY <1>1 DEF MainStateLoop
<1>2. CASE pingState' # "SENT_AND_WAITING" /\ connectionState' = "CONNECTED" /\ queue # <<>>
  <2>1. requestQueue' = Tail(queue) /\ running' = executing \cup {Head(queue)} /\ timers' = timers
    BY <1>2 DEF MainStateLoop
  <2>2. /\ Tail(queue) \in Seq(S)
        /\ Head(queue) \in S
        /\ Distinct(Tail(queue))
        /\ Head(queue) \notin Elems(Tail(queue))
        /\ Elems(queue) = Elems(Tail(queue)) \cup {Head(queue)}
    BY <1>2, Dequeued
  <2> QED BY <2>1, <2>2
<1>3. CASE pingState' # "SENT_AND_WAITING" /\ ~(connectionState' = "CONNECTED" /\ queue # <<>>)
  <2>1. requestQueue' = queue /\ running' = executing /\ timers' = timers + 1
    BY <1>3 DEF MainStateLoop
  <2> QED BY <2>1
<1> QED BY <1>1, <1>2, <1>3

-----------------------------------------------------------------------------
(* The inductive invariant.                                                *)

\* TypeOK in the words of the lemmas above.
LEMMA TypeOKQueue ==
    TypeOK <=> /\ connectionState \in {"NOT_CONNECTED", "CONNECTED"}
               /\ pingState \in {"IDLE_WAITING", "SENT_AND_WAITING"}
               /\ requestQueue \in Seq(made)
               /\ Distinct(requestQueue)
               /\ Elems(requestQueue) \cap running = {}
               /\ pings \in Nat
               /\ timers \in Nat
               /\ running \subseteq made
               /\ made \subseteq Requests
               /\ active \subseteq Requests
               /\ answered \in [Requests -> {"none", "ok", "failed"}]
               /\ doomed \subseteq Requests
               /\ deleted \subseteq Requests
               /\ crashed \in BOOLEAN
BY DEF TypeOK, Distinct, Elems, Queued

LEMMA QueuedIsElems == Queued = Elems(requestQueue)
BY DEF Queued, Elems

LEMMA QueuedMade == TypeOK => Queued \subseteq made
BY DEF TypeOK, Queued

\* What Finished() does to the commands' view of the requests.
LEMMA FinishedFacts ==
    ASSUME TypeOK, NEW reqs \in SUBSET Requests, Finished(reqs, "failed")
    PROVE  /\ active' \subseteq Requests
           /\ answered' \in [Requests -> {"none", "ok", "failed"}]
           /\ doomed' \subseteq Requests
           /\ crashed' \in BOOLEAN
           /\ made' = made => Pending' \subseteq Pending \ reqs
<1>1. /\ answered' = [r \in Requests |-> IF r \in reqs \cap active THEN "failed" ELSE answered[r]]
      /\ active' = active \ reqs
      /\ crashed' \in BOOLEAN
      /\ doomed' \subseteq Requests
  BY DEF Finished, TypeOK
<1>2. ASSUME made' = made, NEW r \in Pending' PROVE r \in Pending \ reqs
  <2>1. r \in made /\ r \in active' /\ answered'[r] = "none"
    BY <1>2 DEF Pending
  <2>2. r \in active \ reqs
    BY <1>1, <2>1
  <2>3. answered[r] = "none"
    BY <1>1, <2>1, <2>2 DEF TypeOK
  <2> QED BY <2>1, <2>2, <2>3 DEF Pending
<1> QED BY <1>1, <1>2 DEF TypeOK

LEMMA InitIInv == Init => IInv
<1> SUFFICES ASSUME Init PROVE IInv
    OBVIOUS
<1>1. TypeOK
  <2>1. requestQueue \in Seq(made) /\ Len(requestQueue) = 0
    BY DEF Init
  <2>2. Queued \cap running = {}
    BY DEF Init
  <2>3. \A i, j \in 1..Len(requestQueue) : requestQueue[i] = requestQueue[j] => i = j
    BY <2>1
  <2> QED BY <2>1, <2>2, <2>3 DEF Init, TypeOK
<1>2. WaitsForRealPing /\ NothingLost
  BY DEF Init, WaitsForRealPing, NothingLost, Pending
<1> QED BY <1>1, <1>2 DEF IInv

LEMMA PingOkIInv == IInv /\ PingOk => IInv'
<1> SUFFICES ASSUME IInv, PingOk PROVE IInv'
    OBVIOUS
<1>1. /\ requestQueue' \in Seq(made)
      /\ Distinct(requestQueue')
      /\ running' \subseteq made
      /\ Elems(requestQueue') \cap running' = {}
      /\ Elems(requestQueue') \cup running' = Elems(requestQueue) \cup running
      /\ timers' \in Nat
  BY LoopFacts, TypeOKQueue DEF PingOk, IInv
<1>2. TypeOK'
  BY <1>1, TypeOKQueue DEF PingOk, PingReady, IInv, ExecutesFreed, Distinct, Elems, TypeOK, Queued
<1>3. WaitsForRealPing'
  BY DEF PingOk, PingReady, WaitsForRealPing
<1>4. NothingLost'
  <2>1. Pending' = Pending
    BY DEF PingOk, Pending
  <2> QED BY <1>1, <2>1 DEF PingOk, IInv, NothingLost, Queued, Elems
<1> QED BY <1>2, <1>3, <1>4 DEF IInv

LEMMA PingErrorIInv == IInv /\ PingError => IInv'
<1> SUFFICES ASSUME IInv, PingError PROVE IInv'
    OBVIOUS
<1>1. /\ requestQueue' \in Seq(made)
      /\ Distinct(requestQueue')
      /\ running' \subseteq made
      /\ Elems(requestQueue') \cap running' = {}
      /\ Elems(requestQueue') \cup running' = Elems(requestQueue) \cup running
      /\ timers' \in Nat
  BY LoopFacts, TypeOKQueue DEF PingError, IInv
<1>2. Queued \in SUBSET Requests
  BY QueuedMade DEF IInv, TypeOK
<1>3. /\ active' \subseteq Requests
      /\ answered' \in [Requests -> {"none", "ok", "failed"}]
      /\ doomed' \subseteq Requests
      /\ crashed' \in BOOLEAN
      /\ Pending' \subseteq Pending
  BY <1>2, FinishedFacts DEF PingError, IInv
<1>4. /\ pings' \in Nat
      /\ connectionState' = "NOT_CONNECTED"
      /\ pingState' = "IDLE_WAITING"
      /\ UNCHANGED <<made, deleted>>
  BY DEF PingError, IInv, TypeOK
<1>5. TypeOK'
  BY <1>1, <1>3, <1>4 DEF IInv, TypeOK, Distinct, Elems, Queued
<1>6. WaitsForRealPing'
  BY <1>4 DEF WaitsForRealPing
<1>7. NothingLost'
  BY <1>1, <1>3 DEF PingError, IInv, NothingLost, Queued, Elems
<1> QED BY <1>5, <1>6, <1>7 DEF IInv

LEMMA TimerFiresIInv == IInv /\ TimerFires => IInv'
<1> SUFFICES ASSUME IInv, TimerFires PROVE IInv'
    OBVIOUS
<1>1. /\ pings' \in Nat
      /\ timers' \in Nat
      /\ pingState' = "SENT_AND_WAITING"
      /\ pings' > 0
  BY DEF TimerFires, Ping, IInv, TypeOK, WaitsForRealPing
<1>2. UNCHANGED <<connectionState, requestQueue, running, made, active, answered, doomed,
                  crashed, deleted>>
  BY DEF TimerFires, requestVars
<1>3. TypeOK'
  BY <1>1, <1>2 DEF IInv, TypeOK, Queued
<1>4. WaitsForRealPing'
  BY <1>1 DEF WaitsForRealPing
<1>5. NothingLost'
  BY <1>2 DEF IInv, NothingLost, Pending, Queued
<1> QED BY <1>3, <1>4, <1>5 DEF IInv

LEMMA MakeRequestIInv ==
    ASSUME IInv, NEW r \in Requests, MakeRequest(r)
    PROVE  IInv'
<1> DEFINE queue == Append(requestQueue, r)
<1>1. /\ made' = made \cup {r}
      /\ r \notin made
      /\ UNCHANGED <<connectionState, active, answered, doomed, deleted>>
  BY DEF MakeRequest
<1>2. /\ requestQueue \in Seq(made)
      /\ Distinct(requestQueue)
      /\ Elems(requestQueue) \subseteq made
      /\ Elems(requestQueue) \cap running = {}
      /\ running \subseteq made
      /\ timers \in Nat
  BY TypeOKQueue, QueuedMade, QueuedIsElems DEF IInv
<1>3. requestQueue \in Seq(made')
  <2>1. made \subseteq made'
    BY <1>1
  <2> QED BY <1>2, <2>1
<1>4. /\ queue \in Seq(made')
      /\ queue # <<>>
      /\ Distinct(queue)
      /\ Elems(queue) = Elems(requestQueue) \cup {r}
  BY <1>1, <1>2, <1>3, Enqueued
<1>5. /\ requestQueue' \in Seq(made')
      /\ Distinct(requestQueue')
      /\ running' \subseteq made'
      /\ Elems(requestQueue') \cap running' = {}
      /\ Elems(requestQueue') \cup running' = Elems(requestQueue) \cup running \cup {r}
      /\ timers' \in Nat
  <2>1. CASE connectionState = "NOT_CONNECTED"
    <3>1. requestQueue' = queue /\ UNCHANGED <<running, timers>>
      BY <2>1 DEF MakeRequest
    <3> QED BY <1>1, <1>2, <1>4, <3>1
  <2>2. CASE connectionState # "NOT_CONNECTED"
    <3>1. MainStateLoop(queue, running)
      BY <2>2 DEF MakeRequest
    <3>2. running \in SUBSET made' /\ Elems(queue) \cap running = {}
      BY <1>1, <1>2, <1>4
    <3> HIDE DEF queue
    <3>3. Elems(requestQueue') \cup running' = Elems(queue) \cup running
      BY <1>2, <1>4, <3>1, <3>2, LoopFacts
    <3>4. /\ requestQueue' \in Seq(made')
          /\ Distinct(requestQueue')
          /\ running' \subseteq made'
          /\ Elems(requestQueue') \cap running' = {}
          /\ timers' \in Nat
      BY <1>2, <1>4, <3>1, <3>2, LoopFacts
    <3> QED BY <1>4, <3>3, <3>4
  <2> QED BY <2>1, <2>2
<1>6. /\ pings' \in Nat
      /\ pingState' \in {"IDLE_WAITING", "SENT_AND_WAITING"}
      /\ pingState' = "SENT_AND_WAITING" => pings' > 0
  BY DEF MakeRequest, Ping, IInv, TypeOK, WaitsForRealPing
<1>7. crashed' \in BOOLEAN
  BY DEF MakeRequest, IInv, TypeOK, ExecutesFreed
<1>8. TypeOK'
  BY <1>1, <1>5, <1>6, <1>7 DEF IInv, TypeOK, Distinct, Elems, Queued
<1>9. WaitsForRealPing'
  BY <1>6 DEF WaitsForRealPing
<1>10. NothingLost'
  <2>1. Pending' \subseteq Pending \cup {r}
    BY <1>1 DEF Pending
  <2> QED BY <1>5, <2>1 DEF MakeRequest, IInv, NothingLost, Queued, Elems
<1> QED BY <1>8, <1>9, <1>10 DEF IInv

\* An answered request is told ok or failed.
LEMMA AnswerOutcome ==
    ASSUME NEW r, NEW outcome \in AnswerOutcomes(r)
    PROVE  outcome \in {"ok", "failed"}
BY DEF AnswerOutcomes

LEMMA RequestOkIInv ==
    ASSUME IInv, NEW r \in Requests, NEW outcome \in AnswerOutcomes(r), RequestOk(r, outcome)
    PROVE  IInv'
<1>1. /\ requestQueue' \in Seq(made)
      /\ Distinct(requestQueue')
      /\ running' \subseteq made
      /\ Elems(requestQueue') \cap running' = {}
      /\ Elems(requestQueue') \cup running' = Elems(requestQueue) \cup (running \ {r})
      /\ timers' \in Nat
  <2>1. /\ requestQueue \in Seq(made)
        /\ Distinct(requestQueue)
        /\ running \ {r} \in SUBSET made
        /\ Elems(requestQueue) \cap (running \ {r}) = {}
        /\ timers \in Nat
    BY TypeOKQueue DEF IInv
  <2> QED BY <2>1, LoopFacts DEF RequestOk
<1>2. /\ active' = active \ {r}
      /\ answered' = IF r \in active THEN [answered EXCEPT ![r] = outcome] ELSE answered
      /\ outcome \in {"ok", "failed"}
      /\ connectionState' = "CONNECTED"
      /\ pingState' = "IDLE_WAITING"
      /\ doomed' \in {doomed, doomed \cup {r}}
      /\ crashed' \in BOOLEAN
      /\ UNCHANGED <<pings, made, deleted>>
  BY AnswerOutcome DEF RequestOk, PingReady, ExecutesFreed
<1>3. TypeOK'
  BY <1>1, <1>2 DEF IInv, TypeOK, Distinct, Elems, Queued
<1>4. WaitsForRealPing'
  BY <1>2 DEF WaitsForRealPing
<1>5. NothingLost'
  <2>1. Pending' \subseteq Pending \ {r}
    BY <1>2 DEF Pending, IInv, TypeOK
  <2> QED BY <1>1, <2>1 DEF RequestOk, IInv, NothingLost, Queued, Elems
<1> QED BY <1>3, <1>4, <1>5 DEF IInv

LEMMA RequestFailsIInv ==
    ASSUME IInv, NEW r \in Requests, NEW status, RequestFails(r, status)
    PROVE  IInv'
<1>1. /\ running' = running \ {r}
      /\ UNCHANGED <<connectionState, requestQueue, timers, made, deleted>>
  BY DEF RequestFails
<1>2. /\ active' \subseteq Requests
      /\ answered' \in [Requests -> {"none", "ok", "failed"}]
      /\ doomed' \subseteq Requests
      /\ crashed' \in BOOLEAN
      /\ Pending' \subseteq Pending \ {r}
  BY <1>1, FinishedFacts DEF RequestFails, IInv
<1>3. /\ pings' \in Nat
      /\ pingState' \in {"IDLE_WAITING", "SENT_AND_WAITING"}
      /\ pingState' = "SENT_AND_WAITING" => pings' > 0
  BY DEF RequestFails, Ping, IInv, TypeOK, WaitsForRealPing
<1>4. TypeOK'
  BY <1>1, <1>2, <1>3 DEF IInv, TypeOK, Queued
<1>5. WaitsForRealPing'
  BY <1>3 DEF WaitsForRealPing
<1>6. NothingLost'
  BY <1>1, <1>2 DEF RequestFails, IInv, NothingLost, Queued
<1> QED BY <1>4, <1>5, <1>6 DEF IInv

LEMMA CancelIInv == IInv /\ CancelOngoing => IInv'
<1> SUFFICES ASSUME IInv, CancelOngoing PROVE IInv'
    OBVIOUS
<1>1. Pending \subseteq Requests
  BY DEF Pending, IInv, TypeOK
<1>2. /\ active' = active \ Pending
      /\ running' = running \ Pending
      /\ doomed' = doomed \cup (Pending \cap running)
      /\ UNCHANGED <<connectionState, pingState, requestQueue, pings, timers, made,
                     answered, deleted, crashed>>
  BY DEF CancelOngoing
<1>3. TypeOK'
  BY <1>1, <1>2 DEF IInv, TypeOK, Queued
<1>4. WaitsForRealPing'
  BY <1>2 DEF IInv, WaitsForRealPing
<1>5. Pending' = {}
  BY <1>2 DEF Pending
<1>6. NothingLost'
  BY <1>5 DEF NothingLost
<1> QED BY <1>3, <1>4, <1>6 DEF IInv

LEMMA DeleteIInv ==
    ASSUME IInv, NEW r \in Requests, Delete(r)
    PROVE  IInv'
BY DEF IInv, Delete, TypeOK, WaitsForRealPing, NothingLost, Pending, Queued

LEMMA NextIInv == IInv /\ [Next]_vars => IInv'
<1> SUFFICES ASSUME IInv, [Next]_vars PROVE IInv'
    OBVIOUS
<1>1. CASE PingOk
  BY <1>1, PingOkIInv
<1>2. CASE PingError
  BY <1>2, PingErrorIInv
<1>3. CASE TimerFires
  BY <1>3, TimerFiresIInv
<1>4. CASE CancelOngoing
  BY <1>4, CancelIInv
<1>5. ASSUME NEW r \in Requests, MakeRequest(r) PROVE IInv'
  BY <1>5, MakeRequestIInv
<1>6. ASSUME NEW r \in Requests, NEW outcome \in AnswerOutcomes(r), RequestOk(r, outcome)
      PROVE  IInv'
  BY <1>6, RequestOkIInv
<1>7. ASSUME NEW r \in Requests, NEW status \in FailureStatuses, RequestFails(r, status)
      PROVE  IInv'
  BY <1>7, RequestFailsIInv
<1>8. ASSUME NEW r \in Requests, Delete(r) PROVE IInv'
  BY <1>8, DeleteIInv
<1>9. CASE UNCHANGED vars
  BY <1>9 DEF vars, IInv, TypeOK, WaitsForRealPing, NothingLost, Pending, Queued
<1> QED BY <1>1, <1>2, <1>3, <1>4, <1>5, <1>6, <1>7, <1>8, <1>9 DEF Next

\* The inductive invariant holds in every reachable state.
THEOREM InductiveInvariant == Spec => []IInv
BY InitIInv, NextIInv, PTL DEF Spec

\* The state keeps its shape: a request is queued at most once, and never while
\* it is being executed.
THEOREM TypeCorrect == Spec => []TypeOK
<1>1. IInv => TypeOK
  BY DEF IInv
<1> QED BY <1>1, InductiveInvariant, PTL

\* No interleaving of pings, timers and successful requests leaves the
\* connection waiting for a ping that is not under way.
THEOREM PingCorrect == Spec => []WaitsForRealPing
<1>1. IInv => WaitsForRealPing
  BY DEF IInv
<1> QED BY <1>1, InductiveInvariant, PTL

\* No request is lost while its command waits for the answer.
THEOREM NoRequestLost == Spec => []NothingLost
<1>1. IInv => NothingLost
  BY DEF IInv
<1> QED BY <1>1, InductiveInvariant, PTL

-----------------------------------------------------------------------------
(* The end of the loop of pings, timers and executions.                    *)

\* Without a connection a ping or the interval timer is always under way.
LooksForConnection == connectionState = "NOT_CONNECTED" => pings > 0 \/ timers > 0

LEMMA NextLooks == IInv /\ LooksForConnection /\ [Next]_vars => LooksForConnection'
<1> SUFFICES ASSUME IInv, LooksForConnection, [Next]_vars PROVE LooksForConnection'
    OBVIOUS
<1> USE DEF LooksForConnection
<1>1. /\ pings \in Nat
      /\ timers \in Nat
      /\ pingState = "SENT_AND_WAITING" => pings > 0
  BY DEF IInv, TypeOK, WaitsForRealPing
<1>2. CASE PingOk
  BY <1>2 DEF PingOk
<1>3. CASE PingError
  BY <1>1, <1>3 DEF PingError, MainStateLoop
<1>4. CASE TimerFires
  BY <1>1, <1>4 DEF TimerFires, Ping
<1>5. CASE CancelOngoing
  BY <1>5 DEF CancelOngoing
<1>6. ASSUME NEW r \in Requests, MakeRequest(r) PROVE LooksForConnection'
  BY <1>1, <1>6 DEF MakeRequest, Ping
<1>7. ASSUME NEW r \in Requests, NEW outcome \in AnswerOutcomes(r), RequestOk(r, outcome)
      PROVE  LooksForConnection'
  BY <1>7 DEF RequestOk
<1>8. ASSUME NEW r \in Requests, NEW status \in FailureStatuses, RequestFails(r, status)
      PROVE  LooksForConnection'
  BY <1>1, <1>8 DEF RequestFails, Ping
<1>9. ASSUME NEW r \in Requests, Delete(r) PROVE LooksForConnection'
  BY <1>9 DEF Delete
<1>10. CASE UNCHANGED vars
  BY <1>10 DEF vars
<1> QED BY <1>2, <1>3, <1>4, <1>5, <1>6, <1>7, <1>8, <1>9, <1>10 DEF Next

\* Whatever statuses the invocations report, the connection never stops while
\* it is down, and when it stops it waits for no ping: the next request made is
\* executed, or pings, at once.
THEOREM StallsHarmlessly == Spec => []StallsOnlyWhenConnected
<1>1. Init => LooksForConnection
  BY DEF Init, LooksForConnection
<1>2. IInv /\ LooksForConnection => StallsOnlyWhenConnected
  BY DEF IInv, TypeOK, WaitsForRealPing, LooksForConnection, StallsOnlyWhenConnected, Stalled
<1> QED BY <1>1, <1>2, NextLooks, InductiveInvariant, PTL DEF Spec

-----------------------------------------------------------------------------
(* The connection implements the request service.                          *)

\* A request is active until it is answered or given up, and untouched before
\* it is made.
ActiveMeansOpen ==
    \A r \in Requests : /\ r \in active => answered[r] = "none"
                        /\ r \notin made => r \in active

\* The status of a request in the service.
StatusOf(r) == IF r \notin made THEN "idle"
               ELSE IF answered[r] # "none" THEN answered[r]
               ELSE IF r \in active THEN "pending" ELSE "cancelled"

LEMMA NextActive == IInv /\ ActiveMeansOpen /\ [Next]_vars => ActiveMeansOpen'
<1> SUFFICES ASSUME IInv, ActiveMeansOpen, [Next]_vars PROVE ActiveMeansOpen'
    OBVIOUS
<1> USE DEF ActiveMeansOpen
<1>1. CASE PingOk
  BY <1>1 DEF PingOk
<1>2. CASE PingError
  BY <1>2, QueuedMade DEF PingError, Finished, IInv
<1>3. CASE TimerFires
  BY <1>3 DEF TimerFires, requestVars
<1>4. CASE CancelOngoing
  BY <1>4 DEF CancelOngoing, Pending
<1>5. ASSUME NEW r \in Requests, MakeRequest(r) PROVE ActiveMeansOpen'
  BY <1>5 DEF MakeRequest
<1>6. ASSUME NEW r \in Requests, NEW outcome \in AnswerOutcomes(r), RequestOk(r, outcome)
      PROVE  ActiveMeansOpen'
  BY <1>6 DEF RequestOk, IInv, TypeOK
<1>7. ASSUME NEW r \in Requests, NEW status \in FailureStatuses, RequestFails(r, status)
      PROVE  ActiveMeansOpen'
  BY <1>7 DEF RequestFails, Finished, IInv, TypeOK
<1>8. ASSUME NEW r \in Requests, Delete(r) PROVE ActiveMeansOpen'
  BY <1>8 DEF Delete
<1>9. CASE UNCHANGED vars
  BY <1>9 DEF vars
<1> QED BY <1>1, <1>2, <1>3, <1>4, <1>5, <1>6, <1>7, <1>8, <1>9 DEF Next

\* A step that leaves the requests' bookkeeping alone changes no status.
LEMMA SameStatus ==
    ASSUME UNCHANGED <<made, active, answered>>
    PROVE  [r \in Requests |-> StatusOf(r)]' = [r \in Requests |-> StatusOf(r)]
BY DEF StatusOf

LEMMA NextServes ==
    ASSUME IInv, ActiveMeansOpen, [Next]_vars
    PROVE  [Service!Next]_([r \in Requests |-> StatusOf(r)])
<1> DEFINE status == [r \in Requests |-> StatusOf(r)]
<1> SUFFICES Service!Next \/ status' = status
    OBVIOUS
<1>1. Service!Pending = {r \in made : r \in active}
  BY DEF Service!Pending, ActiveMeansOpen, StatusOf, IInv, TypeOK
<1>2. CASE PingOk
  BY <1>2, SameStatus DEF PingOk
<1>3. CASE PingError
  <2> DEFINE settled == Queued \cap active
  <2>1. settled \in SUBSET Service!Pending
    BY <1>1, QueuedMade DEF IInv
  <2>2. status' = [r \in Requests |-> IF r \in settled THEN "failed" ELSE status[r]]
    BY <1>3, QueuedMade DEF PingError, Finished, StatusOf, ActiveMeansOpen, IInv, TypeOK
  <2>3. Service!Settle(settled, "failed")
    BY <2>2 DEF Service!Settle, StatusOf
  <2> QED BY <2>1, <2>3 DEF Service!Next
<1>4. CASE TimerFires
  BY <1>4, SameStatus DEF TimerFires, requestVars
<1>5. CASE CancelOngoing
  <2>1. Pending \in SUBSET Service!Pending
    BY <1>1 DEF Pending
  <2>2. status' = [r \in Requests |-> IF r \in Pending THEN "cancelled" ELSE status[r]]
    BY <1>5 DEF CancelOngoing, Pending, StatusOf
  <2>3. Service!Settle(Pending, "cancelled")
    BY <2>2 DEF Service!Settle, StatusOf
  <2> QED BY <2>1, <2>3 DEF Service!Next
<1>6. ASSUME NEW r \in Requests, MakeRequest(r) PROVE Service!Next
  <2>1. /\ r \notin made
        /\ made' = made \cup {r}
        /\ UNCHANGED <<active, answered>>
    BY <1>6 DEF MakeRequest
  <2>2. Service!Make(r)
    BY <2>1 DEF Service!Make, StatusOf, ActiveMeansOpen
  <2> QED BY <2>2 DEF Service!Next
<1>7. ASSUME NEW r \in Requests, NEW outcome \in AnswerOutcomes(r), RequestOk(r, outcome)
      PROVE  Service!Next \/ status' = status
  <2>1. /\ r \in made
        /\ active' = active \ {r}
        /\ answered' = IF r \in active THEN [answered EXCEPT ![r] = outcome] ELSE answered
        /\ outcome \in {"ok", "failed"}
        /\ UNCHANGED made
    BY <1>7, AnswerOutcome DEF RequestOk, IInv, TypeOK
  <2>2. CASE r \notin active
    BY <2>1, <2>2 DEF StatusOf
  <2>3. CASE r \in active
    <3>1. r \in Service!Pending
      BY <1>1, <2>1, <2>3
    <3>2. status' = [q \in Requests |-> IF q \in {r} THEN outcome ELSE status[q]]
      BY <2>1, <2>3 DEF StatusOf, IInv, TypeOK
    <3>3. Service!Settle({r}, outcome)
      BY <3>2 DEF Service!Settle, StatusOf
    <3>4. {r} \in SUBSET Service!Pending
      BY <3>1
    <3> QED BY <2>1, <3>1, <3>3, <3>4 DEF Service!Next
  <2> QED BY <2>2, <2>3
<1>8. ASSUME NEW r \in Requests, NEW s \in FailureStatuses, RequestFails(r, s)
      PROVE  Service!Next
  <2> DEFINE settled == {r} \cap active
  <2>1. settled \in SUBSET Service!Pending
    BY <1>1, <1>8 DEF RequestFails, IInv, TypeOK
  <2>2. status' = [q \in Requests |-> IF q \in settled THEN "failed" ELSE status[q]]
    BY <1>8 DEF RequestFails, Finished, StatusOf, ActiveMeansOpen, IInv, TypeOK
  <2>3. Service!Settle(settled, "failed")
    BY <2>2 DEF Service!Settle, StatusOf
  <2> QED BY <2>1, <2>3 DEF Service!Next
<1>9. ASSUME NEW r \in Requests, Delete(r) PROVE status' = status
  BY <1>9, SameStatus DEF Delete
<1>10. CASE UNCHANGED vars
  BY <1>10, SameStatus DEF vars
<1> QED BY <1>2, <1>3, <1>4, <1>5, <1>6, <1>7, <1>8, <1>9, <1>10 DEF Next

\* A command gets at most one answer to a request and none after it gave the
\* request up, although the connection may execute the request again later.
THEOREM ImplementsRequestService == Spec => ServiceSpec
<1>1. Init => ActiveMeansOpen
  BY DEF Init, ActiveMeansOpen
<1>2. Init => Service!Init
  BY DEF Init, Service!Init
<1>3. IInv /\ ActiveMeansOpen /\ [Next]_vars
        => [Service!Next]_([r \in Requests |-> StatusOf(r)])
  BY NextServes
<1>4. [Service!Next]_([r \in Requests |-> StatusOf(r)])
        => [Service!Next]_([r \in Requests |->
                            IF r \notin made THEN "idle"
                            ELSE IF answered[r] # "none" THEN answered[r]
                            ELSE IF r \in active THEN "pending" ELSE "cancelled"])
  BY DEF StatusOf
<1> QED
  BY <1>1, <1>2, <1>3, <1>4, NextActive, InductiveInvariant, PTL
  DEF Spec, ServiceSpec, Service!Spec

-----------------------------------------------------------------------------
(* The connection's loops: a ping that ends becomes an execution or a timer, *)
(* a timer a ping, an execution that ends another one, a timer or a ping.    *)
(* Only a new request adds one.  This counts sets, which are finite because  *)
(* requests are made one by one.                                             *)

Bounded == IsFiniteSet(made) /\ BoundedLoops

\* The main state loop begins one thing at most.
LEMMA LoopBeginsOne ==
    ASSUME NEW queue, NEW executing, IsFiniteSet(executing), timers \in Nat,
           MainStateLoop(queue, executing)
    PROVE  /\ IsFiniteSet(running')
           /\ timers' \in Nat
           /\ Cardinality(running') \in Nat
           /\ timers' + Cardinality(running') <= timers + Cardinality(executing) + 1
<1>1. Cardinality(executing) \in Nat
  BY FS_CardinalityType
<1>2. /\ running' \in {executing, executing \cup {Head(queue)}}
      /\ timers' \in {timers, timers + 1}
      /\ running' = executing \/ timers' = timers
  BY DEF MainStateLoop
<1>3. CASE running' = executing
  BY <1>1, <1>2, <1>3
<1>4. CASE running' = executing \cup {Head(queue)} /\ timers' = timers
  <2>1. /\ IsFiniteSet(running')
        /\ \/ Cardinality(running') = Cardinality(executing)
           \/ Cardinality(running') = Cardinality(executing) + 1
    BY <1>4, FS_AddElement
  <2> QED
    BY <1>1, <1>4, <2>1
<1> QED
  BY <1>2, <1>3, <1>4

LEMMA NextBounded == IInv /\ Bounded /\ [Next]_vars => Bounded'
<1> SUFFICES ASSUME IInv, Bounded, [Next]_vars PROVE Bounded'
    OBVIOUS
<1>1. /\ running \subseteq made
      /\ pings \in Nat
      /\ timers \in Nat
  BY DEF IInv, TypeOK
<1>2. /\ IsFiniteSet(made) /\ Cardinality(made) \in Nat
      /\ IsFiniteSet(running) /\ Cardinality(running) \in Nat
      /\ pings + timers + Cardinality(running) <= 1 + Cardinality(made)
  BY <1>1, FS_Subset, FS_CardinalityType DEF Bounded, BoundedLoops
\* What a step that makes no request has to show.
<1>3. ASSUME made' = made,
             pings' + timers' + Cardinality(running') <= pings + timers + Cardinality(running),
             pings' \in Nat, timers' \in Nat, Cardinality(running') \in Nat
      PROVE  Bounded'
  BY <1>2, <1>1, <1>3 DEF Bounded, BoundedLoops
<1>4. ASSUME PingOk \/ PingError PROVE Bounded'
  <2>1. /\ MainStateLoop(requestQueue, running)
        /\ pings' = pings - 1
        /\ pings > 0
        /\ made' = made
    BY <1>4 DEF PingOk, PingError
  <2>2. /\ timers' \in Nat
        /\ Cardinality(running') \in Nat
        /\ timers' + Cardinality(running') <= timers + Cardinality(running) + 1
    BY <1>1, <1>2, <2>1, LoopBeginsOne
  <2> QED
    BY <1>1, <1>2, <1>3, <2>1, <2>2
<1>5. ASSUME TimerFires PROVE Bounded'
  <2>1. /\ timers' = timers - 1
        /\ timers > 0
        /\ pings' \in {pings, pings + 1}
        /\ running' = running
        /\ made' = made
    BY <1>5 DEF TimerFires, Ping
  <2> QED
    BY <1>1, <1>2, <1>3, <2>1
<1>6. ASSUME CancelOngoing PROVE Bounded'
  <2>1. /\ running' \subseteq running
        /\ UNCHANGED <<pings, timers, made>>
    BY <1>6 DEF CancelOngoing
  <2>2. Cardinality(running') \in Nat /\ Cardinality(running') <= Cardinality(running)
    BY <1>2, <2>1, FS_Subset, FS_CardinalityType
  <2> QED
    BY <1>1, <1>2, <1>3, <2>1, <2>2
<1>7. ASSUME NEW r \in Requests, MakeRequest(r) PROVE Bounded'
  <2>1. r \notin made /\ made' = made \cup {r}
    BY <1>7 DEF MakeRequest
  <2>2. IsFiniteSet(made') /\ Cardinality(made') = Cardinality(made) + 1
    BY <1>2, <2>1, FS_AddElement
  <2>3. /\ pings' \in Nat /\ timers' \in Nat /\ Cardinality(running') \in Nat
        /\ pings' + timers' + Cardinality(running') <= pings + timers + Cardinality(running) + 1
    <3>1. CASE connectionState = "NOT_CONNECTED"
      BY <1>1, <1>2, <1>7, <3>1 DEF MakeRequest, Ping
    <3>2. CASE connectionState # "NOT_CONNECTED"
      <4>1. MainStateLoop(Append(requestQueue, r), running) /\ pings' = pings
        BY <1>7, <3>2 DEF MakeRequest
      <4>2. /\ timers' \in Nat
            /\ Cardinality(running') \in Nat
            /\ timers' + Cardinality(running') <= timers + Cardinality(running) + 1
        BY <1>1, <1>2, <4>1, LoopBeginsOne
      <4> QED
        BY <1>1, <1>2, <4>1, <4>2
    <3> QED
      BY <3>1, <3>2
  <2> QED
    BY <1>1, <1>2, <2>2, <2>3 DEF Bounded, BoundedLoops
<1>8. ASSUME NEW r \in running
      PROVE  /\ IsFiniteSet(running \ {r})
             /\ Cardinality(running \ {r}) = Cardinality(running) - 1
             /\ Cardinality(running \ {r}) \in Nat
  BY <1>2, <1>8, FS_RemoveElement, FS_CardinalityType
<1>9. ASSUME NEW r \in Requests, NEW outcome \in AnswerOutcomes(r), RequestOk(r, outcome)
      PROVE  Bounded'
  <2>1. /\ r \in running
        /\ MainStateLoop(requestQueue, running \ {r})
        /\ UNCHANGED <<pings, made>>
    BY <1>9 DEF RequestOk
  <2>2. /\ timers' \in Nat
        /\ Cardinality(running') \in Nat
        /\ timers' + Cardinality(running') <= timers + Cardinality(running \ {r}) + 1
    BY <1>1, <1>8, <2>1, LoopBeginsOne
  <2>3. Cardinality(running \ {r}) = Cardinality(running) - 1
    BY <1>8, <2>1
  <2>4. pings' + timers' + Cardinality(running') <= pings + timers + Cardinality(running)
    BY <1>1, <1>2, <2>1, <2>2, <2>3
  <2>5. made' = made /\ pings' \in Nat
    BY <1>1, <2>1
  <2> QED
    BY <1>3, <2>2, <2>4, <2>5
<1>10. ASSUME NEW r \in Requests, NEW s \in FailureStatuses, RequestFails(r, s) PROVE Bounded'
  <2>1. /\ r \in running
        /\ running' = running \ {r}
        /\ pings' \in {pings, pings + 1}
        /\ UNCHANGED <<timers, made>>
    BY <1>10 DEF RequestFails, Ping
  <2>2. /\ Cardinality(running') = Cardinality(running) - 1
        /\ Cardinality(running') \in Nat
    BY <1>8, <2>1
  <2>3. pings' + timers' + Cardinality(running') <= pings + timers + Cardinality(running)
    BY <1>1, <1>2, <2>1, <2>2
  <2>4. made' = made /\ pings' \in Nat /\ timers' \in Nat
    BY <1>1, <2>1
  <2> QED
    BY <1>3, <2>2, <2>3, <2>4
<1>11. ASSUME NEW r \in Requests, Delete(r) PROVE Bounded'
  BY <1>1, <1>2, <1>3, <1>11 DEF Delete
<1>12. CASE UNCHANGED vars
  BY <1>1, <1>2, <1>3, <1>12 DEF vars
<1> QED
  BY <1>4, <1>5, <1>6, <1>7, <1>9, <1>10, <1>11, <1>12 DEF Next

\* Overlapping pings, timers and executions are never more than the requests
\* made and one: nothing multiplies them by itself, however they interleave.
THEOREM LoopsAreBounded == Spec => []BoundedLoops
<1>1. Init => Bounded
  BY FS_EmptySet DEF Init, Bounded, BoundedLoops
<1>2. Bounded => BoundedLoops
  BY DEF Bounded
<1> QED
  BY <1>1, <1>2, NextBounded, InductiveInvariant, PTL DEF Spec

=============================================================================
