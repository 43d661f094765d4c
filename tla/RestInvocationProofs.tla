------------------------- MODULE RestInvocationProofs -------------------------
(* Proofs about RestInvocation, for every number of redirects and parts.     *)
EXTENDS RestInvocation, TLAPS

(* The stages of a call: queued, then (unless it was failed in the queue)    *)
(* under way, then ended; who still waits for it; and the file.              *)

Stages ==
    /\ queued => ~reply.live /\ ~attached /\ deletions = 0
    /\ reply.live => attached /\ deletions = 0
    /\ active => answered = "none" /\ (queued \/ attached) /\ (attached => reply.live)
    /\ answered # "none" => ~queued /\ ~reply.live
    /\ deletions > 1 => unwritable
    /\ reply.live /\ reply.code = "redirect" => redirects < MaxRedirects

Waiting ==
    /\ ~active /\ answered = "none" => ~commandAlive
    /\ ~commandAlive => ~active
    /\ ~commandAlive /\ (queued \/ reply.live) => inVain
    /\ misused => ~commandAlive /\ inVain

Saved ==
    /\ queued => file = NoFile
    /\ unwritable => ~reply.live /\ ~queued /\ answered # "ok"
    /\ reply.code = "unknown" => reply.parts = 0
    /\ file.parts <= reply.parts
    /\ reply.code # "200" => file = NoFile
    /\ reply.code = "200" /\ ~full /\ ~unwritable /\ download => file.parts = reply.parts
    /\ answered = "ok" => ~file.open

InvocationInv == InvocationTypeOK /\ Stages /\ Waiting /\ Saved

LEMMA InitInv == Init => InvocationInv
<1> SUFFICES ASSUME Init PROVE InvocationInv
  OBVIOUS
<1>1. reply = [live |-> FALSE, code |-> "unknown", parts |-> 0]
  BY DEF Init, NewReply
<1>2. reply \in Reply /\ file \in [open : BOOLEAN, parts : 0..MaxParts]
  <2>1. 0 \in 0..MaxParts /\ "unknown" \in Codes \cup {"unknown"}
    BY BoundsAssumption
  <2>2. file = [open |-> FALSE, parts |-> 0]
    BY DEF Init, NoFile
  <2> QED
    BY <1>1, <2>1, <2>2, Zenon DEF Reply
<1>3. redirects \in 0..MaxRedirects /\ deletions \in 0..2
  BY BoundsAssumption DEF Init
<1>4. InvocationTypeOK
  BY <1>2, <1>3, Zenon DEF Init, InvocationTypeOK
<1>5. Stages /\ Waiting
  BY <1>1 DEF Init, Stages, Waiting
<1>6. Saved
  BY <1>1 DEF Init, Saved, NoFile
<1> QED
  BY <1>4, <1>5, <1>6 DEF InvocationInv

(* The records the actions assign: a reply that ended, that a redirect       *)
(* replaced, and the type of either.                                         *)

LEMMA NewReplyFields ==
    /\ NewReply \in Reply
    /\ NewReply.live = TRUE /\ NewReply.code = "unknown" /\ NewReply.parts = 0
  BY BoundsAssumption DEF NewReply, Reply, Codes

LEMMA EndedReplyFields ==
    ASSUME reply \in Reply
    PROVE  LET ended == [reply EXCEPT !.live = FALSE] IN
           /\ ended \in Reply
           /\ ended.live = FALSE /\ ended.code = reply.code /\ ended.parts = reply.parts
  BY DEF Reply

LEMMA FollowFields ==
    ASSUME InvocationInv, Follow, Redirected, reply.live
    PROVE  /\ reply' \in Reply /\ redirects' \in 0..MaxRedirects
           /\ reply'.live /\ reply'.code = "unknown" /\ reply'.parts = 0
           /\ status' = "ONGOING"
           /\ file = NoFile
<1>1. redirects < MaxRedirects /\ redirects \in 0..MaxRedirects
  BY DEF InvocationInv, InvocationTypeOK, Stages, Redirected
<1>2. redirects' \in 0..MaxRedirects
  BY <1>1, BoundsAssumption DEF Follow
<1>3. file = NoFile
  BY DEF InvocationInv, Saved, Redirected
<1> QED
  BY <1>2, <1>3, NewReplyFields DEF Follow

LEMMA ReplyFailsInv == InvocationInv /\ ReplyFails => InvocationInv'
<1> SUFFICES ASSUME InvocationInv, ReplyFails PROVE InvocationInv'
  OBVIOUS
<1> USE DEF InvocationInv
<1>1. CASE Redirected
  <2>1. Follow /\ reply.live /\ UNCHANGED <<download, queued, commandAlive, active, attached,
            answered, deletions, file, misused, inVain, unwritable, full>>
    BY <1>1 DEF ReplyFails, Fails, historyVars
  <2>0. /\ reply' \in Reply /\ redirects' \in 0..MaxRedirects
        /\ reply'.live /\ reply'.code = "unknown" /\ reply'.parts = 0
        /\ status' = "ONGOING"
        /\ file = NoFile
    BY <1>1, <2>1, FollowFields
  <2>2. InvocationTypeOK'
    BY <2>1, <2>0 DEF InvocationTypeOK
  <2>3. Stages'
    BY <2>1, <2>0 DEF Stages
  <2>4. Waiting'
    BY <2>1, <2>0 DEF Stages, Waiting
  <2>5. Saved'
    BY <2>1, <2>0 DEF Stages, Saved, NoFile
  <2> QED
    BY <2>2, <2>3, <2>4, <2>5
<1>2. CASE ~Redirected
  <2>1. /\ reply' \in Reply /\ ~reply'.live
        /\ reply'.code = reply.code /\ reply'.parts = reply.parts
    BY <1>2, EndedReplyFields DEF ReplyFails, Fails, InvocationTypeOK
  <2>2. /\ reply.live /\ deletions = 0 /\ attached /\ ~queued
        /\ status' = "ERROR" /\ UNCHANGED redirects
        /\ FinishedError(active, 1)
        /\ UNCHANGED <<download, queued, commandAlive, file, misused, inVain, unwritable, full>>
    BY <1>2 DEF ReplyFails, Fails, Stages, historyVars
  <2>3. /\ deletions' \in 0..1 /\ active' = FALSE
        /\ answered' \in {"none", "ok", "failed"} /\ attached' \in BOOLEAN
        /\ active => answered' = "failed" /\ attached' = FALSE
        /\ ~active => UNCHANGED <<answered, attached>>
    <3>1. CASE active
      <4>1. deletions' \in 0..1
        BY <2>2, <3>1 DEF FinishedError
      <4>2. answered' = "failed" /\ active' = FALSE /\ attached' = FALSE
        BY <2>2, <3>1 DEF FinishedError, Told
      <4> QED
        BY <3>1, <4>1, <4>2, Zenon
    <3>2. CASE ~active
      BY <2>2, <3>2 DEF FinishedError, InvocationTypeOK
    <3> QED
      BY <3>1, <3>2
  <2>4. InvocationTypeOK'
    <3>1. deletions' \in 0..2
      BY <2>3
    <3> QED
      BY <2>1, <2>2, <2>3, <3>1 DEF InvocationTypeOK
  <2>5. Stages'
    BY <2>1, <2>2, <2>3 DEF Stages, InvocationTypeOK
  <2>6. Waiting' /\ Saved'
    BY <2>1, <2>2, <2>3 DEF Stages, Waiting, Saved, InvocationTypeOK
  <2> QED
    BY <2>4, <2>5, <2>6
<1> QED
  BY <1>1, <1>2

LEMMA ReplyEndsInv == InvocationInv /\ ReplyEnds => InvocationInv'
<1> SUFFICES ASSUME InvocationInv, ReplyEnds PROVE InvocationInv'
  OBVIOUS
<1> USE DEF InvocationInv
<1>1. CASE Redirected
  <2>1. Follow /\ reply.live /\ UNCHANGED <<download, queued, commandAlive, active, attached,
            answered, deletions, file, misused, inVain, unwritable, full>>
    BY <1>1 DEF ReplyEnds, historyVars
  <2>2. /\ reply' \in Reply /\ redirects' \in 0..MaxRedirects
        /\ reply'.live /\ reply'.code = "unknown" /\ reply'.parts = 0
        /\ status' = "ONGOING"
        /\ file = NoFile
    BY <1>1, <2>1, FollowFields
  <2>3. InvocationTypeOK'
    BY <2>1, <2>2 DEF InvocationTypeOK
  <2>4. Stages'
    BY <2>1, <2>2 DEF Stages
  <2>5. Waiting'
    BY <2>1, <2>2 DEF Stages, Waiting
  <2>6. Saved'
    BY <2>1, <2>2 DEF Stages, Saved, NoFile
  <2> QED
    BY <2>3, <2>4, <2>5, <2>6
<1>2. CASE ~Redirected
  <2>1. /\ reply' \in Reply /\ ~reply'.live
        /\ reply'.code = reply.code /\ reply'.parts = reply.parts /\ reply.code # "unknown"
    BY <1>2, EndedReplyFields DEF ReplyEnds, InvocationTypeOK
  <2>2. /\ reply.live /\ deletions = 0 /\ attached /\ ~queued /\ ~unwritable
        /\ status' \in {"FINISHED", "RESPONSE_RECEIVED"} /\ UNCHANGED redirects
        /\ CloseFile /\ FinishedOk
        /\ UNCHANGED <<download, queued, commandAlive, misused, inVain, unwritable, full>>
    BY <1>2 DEF ReplyEnds, Stages, Saved, historyVars
  <2>3. /\ file' \in [open : BOOLEAN, parts : 0..MaxParts]
        /\ file'.open = FALSE /\ file'.parts = file.parts
        /\ file = NoFile => file' = NoFile
    <3>1. file' = [open |-> FALSE, parts |-> file.parts]
      BY <2>2 DEF CloseFile
    <3>2. file \in [open : BOOLEAN, parts : 0..MaxParts]
      BY DEF InvocationTypeOK
    <3>3. ASSUME file = NoFile PROVE file' = NoFile
      <4>1. file.parts = 0
        BY <3>3 DEF NoFile
      <4> QED
        BY <3>1, <4>1 DEF NoFile
    <3> QED
      BY <3>1, <3>2, <3>3
  <2>4. /\ deletions' \in 0..1 /\ active' = FALSE
        /\ answered' \in {"none", "ok", "failed"} /\ attached' \in BOOLEAN
        /\ active => answered' \in {"ok", "failed"} /\ attached' = FALSE
        /\ ~active => UNCHANGED <<answered, attached>>
    <3>1. CASE active /\ AnswerIsRead
      <4>1. deletions' \in 0..1
        BY <2>2, <3>1 DEF AnswerIsRead
      <4>2. answered' = "ok" /\ active' = FALSE /\ attached' = FALSE
        BY <2>2, <3>1 DEF AnswerIsRead, Told
      <4> QED
        BY <3>1, <4>1, <4>2, Zenon
    <3>2. CASE ~active /\ AnswerIsRead
      BY <2>2, <3>2 DEF AnswerIsRead, InvocationTypeOK
    <3>3. CASE AnswerIsNoJson
      <4>1. active /\ answered' = "failed" /\ active' = FALSE /\ attached' = FALSE
        BY <3>3 DEF AnswerIsNoJson, Told
      <4>2. deletions' \in 0..1
        BY <2>2, <3>3 DEF AnswerIsNoJson
      <4> QED
        BY <4>1, <4>2, Zenon
    <3> QED
      BY <2>2, <3>1, <3>2, <3>3 DEF FinishedOk
  <2>5. InvocationTypeOK'
    <3>1. deletions' \in 0..2
      BY <2>4
    <3> QED
      BY <2>1, <2>2, <2>3, <2>4, <3>1 DEF InvocationTypeOK
  <2>6. Stages'
    BY <2>1, <2>2, <2>4 DEF Stages
  <2>7. Waiting'
    BY <2>1, <2>2, <2>4 DEF Stages, Waiting
  <2>8. Saved'
    BY <2>1, <2>2, <2>3, <2>4 DEF Stages, Saved
  <2> QED
    BY <2>5, <2>6, <2>7, <2>8
<1> QED
  BY <1>1, <1>2

LEMMA ExecuteInv == InvocationInv /\ Execute => InvocationInv'
<1> SUFFICES ASSUME InvocationInv, Execute PROVE InvocationInv'
  OBVIOUS
<1> USE DEF InvocationInv
<1>1. /\ queued /\ queued' = FALSE /\ attached' = TRUE /\ status' = "ONGOING"
      /\ reply' \in Reply /\ reply'.live /\ reply'.code = "unknown" /\ reply'.parts = 0
      /\ UNCHANGED <<download, commandAlive, active, answered, deletions, redirects, file,
                     misused, inVain, unwritable, full>>
  BY NewReplyFields DEF Execute, historyVars
<1>2. InvocationTypeOK'
  BY <1>1 DEF InvocationTypeOK
<1>3. Stages'
  BY <1>1 DEF Stages
<1>4. Waiting'
  BY <1>1 DEF Stages, Waiting
<1>5. Saved'
  BY <1>1 DEF Saved, NoFile
<1> QED
  BY <1>2, <1>3, <1>4, <1>5

LEMMA NotExecutedInv == InvocationInv /\ NotExecuted => InvocationInv'
<1> SUFFICES ASSUME InvocationInv, NotExecuted PROVE InvocationInv'
  OBVIOUS
<1> USE DEF InvocationInv
<1>1. /\ queued /\ ~reply.live /\ ~attached /\ deletions = 0
      /\ queued' = FALSE /\ FinishedError(active, 1)
      /\ UNCHANGED <<download, commandAlive, status, reply, redirects, file,
                     misused, inVain, unwritable, full>>
  BY DEF NotExecuted, Stages, historyVars
<1>2. /\ deletions' \in 0..1 /\ active' = FALSE /\ attached' = FALSE
      /\ answered' \in {"none", "ok", "failed"}
      /\ active => answered' = "failed"
      /\ ~active => UNCHANGED answered
  <2>1. CASE active
    BY <1>1, <2>1 DEF FinishedError, Told, InvocationTypeOK
  <2>2. CASE ~active
    BY <1>1, <2>2 DEF FinishedError, InvocationTypeOK
  <2> QED
    BY <2>1, <2>2
<1>3. InvocationTypeOK'
  <2>1. deletions' \in 0..2
    BY <1>2
  <2> QED
    BY <1>1, <1>2, <2>1 DEF InvocationTypeOK
<1>4. Stages'
  BY <1>1, <1>2 DEF Stages
<1>5. Waiting' /\ Saved'
  BY <1>1, <1>2 DEF Stages, Waiting, Saved
<1> QED
  BY <1>3, <1>4, <1>5

LEMMA HeadersArriveInv == InvocationInv /\ HeadersArrive => InvocationInv'
<1> SUFFICES ASSUME InvocationInv, HeadersArrive PROVE InvocationInv'
  OBVIOUS
<1> USE DEF InvocationInv
<1>1. PICK code \in Codes : /\ code = "redirect" => redirects < MaxRedirects
                            /\ reply' = [reply EXCEPT !.code = code]
  BY DEF HeadersArrive
<1>2. /\ reply' \in Reply /\ reply'.live = reply.live /\ reply'.code = code
      /\ reply'.parts = reply.parts /\ reply.code = "unknown" /\ reply.live
      /\ UNCHANGED <<download, queued, commandAlive, active, attached, answered, deletions,
                     status, redirects, file, misused, inVain, unwritable, full>>
  BY <1>1 DEF HeadersArrive, InvocationTypeOK, Reply, requestVars, historyVars
<1>3. code # "unknown"
  BY DEF Codes
<1>4. InvocationTypeOK'
  BY <1>2 DEF InvocationTypeOK
<1>5. Stages'
  BY <1>1, <1>2 DEF Stages
<1>6. Waiting'
  BY <1>2 DEF Waiting
<1>7. Saved'
  BY <1>2, <1>3 DEF Stages, Saved, NoFile
<1> QED
  BY <1>4, <1>5, <1>6, <1>7

LEMMA PartArrivesInv == InvocationInv /\ PartArrives => InvocationInv'
<1> SUFFICES ASSUME InvocationInv, PartArrives PROVE InvocationInv'
  OBVIOUS
<1> USE DEF InvocationInv
<1>1. /\ download /\ reply.live /\ reply.code # "unknown" /\ reply.parts < MaxParts
      /\ ~queued /\ attached /\ deletions = 0 /\ ~unwritable /\ answered = "none"
      /\ UNCHANGED <<download, queued>>
  BY DEF PartArrives, Stages, Saved
<1>2. LET partly == [reply EXCEPT !.parts = @ + 1] IN
      /\ partly \in Reply
      /\ partly.live = reply.live /\ partly.code = reply.code /\ partly.parts = reply.parts + 1
  <2>1. reply.parts \in 0..MaxParts /\ reply.parts + 1 \in 0..MaxParts
    BY <1>1, BoundsAssumption DEF InvocationTypeOK, Reply
  <2> QED
    BY <2>1 DEF InvocationTypeOK, Reply
<1>3. CASE SkipPart
  <2>1. /\ reply' \in Reply /\ reply'.live = reply.live /\ reply'.code = reply.code
        /\ reply'.parts = reply.parts + 1
        /\ reply.code # "200" /\ status' = "ERROR"
        /\ UNCHANGED <<commandAlive, active, attached, answered, deletions, redirects, file,
                       misused, inVain, unwritable, full>>
    BY <1>2, <1>3 DEF SkipPart, IsSaved, requestVars, historyVars
  <2>2. InvocationTypeOK'
    BY <1>1, <2>1 DEF InvocationTypeOK
  <2>3. Stages'
    BY <1>1, <2>1 DEF Stages
  <2>4. Waiting'
    BY <1>1, <2>1 DEF Waiting
  <2>5. Saved'
    BY <1>1, <2>1 DEF Saved, InvocationTypeOK, Reply
  <2> QED
    BY <2>2, <2>3, <2>4, <2>5
<1>4. CASE SavePart
  <2>1. /\ reply' \in Reply /\ reply'.live = reply.live /\ reply'.code = reply.code
        /\ reply'.parts = reply.parts + 1
        /\ reply.code = "200" /\ status' = "RESPONSE_RECEIVED"
        /\ misused' = (misused \/ ~commandAlive)
        /\ UNCHANGED <<commandAlive, active, attached, answered, deletions, redirects,
                       inVain, unwritable>>
    BY <1>2, <1>4 DEF SavePart, IsSaved, requestVars
  <2>2. file' \in [open : BOOLEAN, parts : 0..MaxParts] /\ full' \in BOOLEAN
    <3>1. file.parts \in 0..MaxParts /\ file.parts + 1 \in 0..MaxParts
      BY <1>1, BoundsAssumption DEF InvocationTypeOK, Saved, Reply
    <3>2. CASE file' = [open |-> TRUE, parts |-> file.parts + 1] /\ UNCHANGED full
      BY <3>1, <3>2 DEF InvocationTypeOK
    <3>3. CASE file' = [open |-> TRUE, parts |-> file.parts] /\ full' = TRUE
      BY <3>1, <3>3
    <3> QED
      BY <1>4, <3>2, <3>3 DEF SavePart
  <2>3. /\ ~full' /\ ~unwritable' => file'.parts = reply'.parts
        /\ file'.parts <= reply'.parts
    BY <1>1, <1>4, <2>1, BoundsAssumption DEF SavePart, Saved, InvocationTypeOK, Reply
  <2>4. InvocationTypeOK'
    BY <1>1, <2>1, <2>2 DEF InvocationTypeOK
  <2>5. Stages'
    BY <1>1, <2>1 DEF Stages
  <2>6. Waiting'
    BY <1>1, <2>1 DEF Waiting
  <2>7. Saved'
    BY <1>1, <2>1, <2>3 DEF Saved
  <2> QED
    BY <2>4, <2>5, <2>6, <2>7
<1>5. CASE CannotSave
  <2>1. /\ reply' \in Reply /\ ~reply'.live /\ reply'.code = reply.code
        /\ reply'.parts = reply.parts + 1
        /\ reply.code = "200" /\ status' = "INVALID_INVOCATION"
        /\ FinishedError(active, 2) /\ unwritable' = TRUE
        /\ UNCHANGED <<commandAlive, redirects, file, misused, inVain, full>>
    <3>1. reply.parts \in 0..MaxParts /\ reply.parts + 1 \in 0..MaxParts
      BY <1>1, BoundsAssumption DEF InvocationTypeOK, Reply
    <3>2. reply' = [reply EXCEPT !.live = FALSE, !.parts = @ + 1]
      BY <1>5 DEF CannotSave
    <3>3. reply' \in Reply /\ ~reply'.live /\ reply'.code = reply.code
          /\ reply'.parts = reply.parts + 1
      BY <3>1, <3>2 DEF InvocationTypeOK, Reply
    <3> QED
      BY <1>5, <3>3 DEF CannotSave, IsSaved
  <2>2. /\ deletions' = 2 /\ active' = FALSE
        /\ answered' \in {"none", "failed"} /\ attached' \in BOOLEAN
        /\ active => answered' = "failed"
        /\ ~active => UNCHANGED answered
    <3>1. CASE active
      <4>1. deletions' = 2
        BY <1>1, <2>1, <3>1 DEF FinishedError
      <4>2. answered' = "failed" /\ active' = FALSE /\ attached' = FALSE
        BY <2>1, <3>1 DEF FinishedError, Told
      <4> QED
        BY <3>1, <4>1, <4>2, Zenon
    <3>2. CASE ~active
      BY <1>1, <2>1, <3>2 DEF FinishedError, InvocationTypeOK
    <3> QED
      BY <3>1, <3>2
  <2>3. InvocationTypeOK'
    <3>1. deletions' \in 0..2
      BY <2>2
    <3> QED
      BY <1>1, <2>1, <2>2, <3>1 DEF InvocationTypeOK
  <2>4. Stages'
    BY <1>1, <2>1, <2>2 DEF Stages
  <2>5. Waiting'
    BY <1>1, <2>1, <2>2 DEF Waiting
  <2>6. Saved'
    BY <1>1, <2>1, <2>2 DEF Saved, InvocationTypeOK, Reply
  <2> QED
    BY <2>3, <2>4, <2>5, <2>6
<1> QED
  BY <1>3, <1>4, <1>5 DEF PartArrives

LEMMA CommandGoesInv == InvocationInv /\ CommandGoes => InvocationInv'
<1> SUFFICES ASSUME InvocationInv, CommandGoes PROVE InvocationInv'
  OBVIOUS
<1> USE DEF InvocationInv
<1>1. /\ commandAlive /\ commandAlive' = FALSE /\ ~misused
      /\ UNCHANGED <<download, queued, file, misused, unwritable, full>>
  BY DEF CommandGoes, Waiting
<1>2. CASE answered # "none"
  <2>1. UNCHANGED <<active, attached, answered, deletions, reply, status, redirects, inVain>>
    BY <1>2 DEF CommandGoes
  <2>2. InvocationTypeOK'
    <3>1. UNCHANGED <<deletions, redirects, file>>
      BY <1>1, <2>1
    <3>2. deletions' \in 0..2 /\ redirects' \in 0..MaxRedirects
          /\ file' \in [open : BOOLEAN, parts : 0..MaxParts]
      BY <3>1 DEF InvocationTypeOK
    <3> QED
      BY <1>1, <1>2, <2>1, <3>2, ZenonT(40) DEF InvocationTypeOK
  <2>3. Stages'
    BY <2>1, <1>1 DEF Stages
  <2>4. Waiting'
    BY <1>1, <1>2, <2>1 DEF Stages, Waiting
  <2>5. Saved'
    BY <1>1, <2>1 DEF Saved
  <2> QED
    BY <2>2, <2>3, <2>4, <2>5
<1>3. CASE answered = "none"
  <2>1. active /\ Cancel /\ inVain' = (queued \/ Redirected)
    BY <1>1, <1>3 DEF CommandGoes, Waiting
  <2>2. CASE ~attached
    <3>1. /\ queued /\ active' = FALSE /\ inVain' = TRUE
          /\ UNCHANGED <<attached, answered, deletions, reply, status, redirects>>
      BY <2>1, <2>2 DEF Cancel, Stages
    <3>2. InvocationTypeOK'
      BY <1>1, <3>1 DEF InvocationTypeOK
    <3>3. Stages'
      BY <1>1, <3>1 DEF Stages
    <3>4. Waiting'
      BY <1>1, <3>1 DEF Waiting
    <3>5. Saved'
      BY <1>1, <3>1 DEF Saved
    <3> QED
      BY <3>2, <3>3, <3>4, <3>5
  <2>3. CASE attached /\ Redirected
    <3>1. /\ reply.live /\ ~queued /\ deletions = 0
          /\ Follow /\ active' = FALSE /\ inVain' = TRUE
          /\ UNCHANGED <<attached, answered, deletions>>
      BY <2>1, <2>3 DEF Cancel, Fails, Stages
    <3>2. /\ reply' \in Reply /\ redirects' \in 0..MaxRedirects
          /\ reply'.live /\ reply'.code = "unknown" /\ reply'.parts = 0
          /\ status' = "ONGOING"
          /\ file = NoFile
      BY <2>3, <3>1, FollowFields
    <3>3. InvocationTypeOK'
      BY <1>1, <3>1, <3>2 DEF InvocationTypeOK
    <3>4. Stages'
      BY <1>1, <1>3, <2>3, <3>1, <3>2 DEF Stages
    <3>5. Waiting'
      BY <1>1, <3>1, <3>2 DEF Waiting
    <3>6. Saved'
      BY <1>1, <1>3, <3>1, <3>2 DEF Stages, Saved, NoFile
    <3> QED
      BY <3>3, <3>4, <3>5, <3>6
  <2>4. CASE attached /\ ~Redirected
    <3>1. /\ reply.live /\ ~queued /\ deletions = 0 /\ UNCHANGED redirects
          /\ reply' = [reply EXCEPT !.live = FALSE] /\ status' = "ERROR"
          /\ FinishedError(FALSE, 1) /\ inVain' = FALSE
      BY <2>1, <2>4 DEF Cancel, Fails, Stages
    <3>2. /\ reply' \in Reply /\ ~reply'.live
          /\ reply'.code = reply.code /\ reply'.parts = reply.parts
      BY <3>1, EndedReplyFields DEF InvocationTypeOK
    <3>3. active' = FALSE /\ deletions' = 1 /\ UNCHANGED <<answered, attached>>
      BY <3>1 DEF FinishedError
    <3>4. InvocationTypeOK'
      <4>1. deletions' \in 0..2
        BY <3>3
      <4> QED
        BY <1>1, <3>1, <3>2, <3>3, <4>1 DEF InvocationTypeOK
    <3>5. Stages'
      BY <1>1, <1>3, <3>1, <3>2, <3>3 DEF Stages
    <3>6. Waiting'
      BY <1>1, <3>1, <3>2, <3>3 DEF Waiting
    <3>7. Saved'
      BY <1>1, <3>1, <3>2, <3>3 DEF Saved
    <3> QED
      BY <3>4, <3>5, <3>6, <3>7
  <2> QED
    BY <2>2, <2>3, <2>4
<1> QED
  BY <1>2, <1>3

\* The inductive invariant.
THEOREM InvocationInvariant == Spec => []InvocationInv
<1>1. Init => InvocationInv
  BY InitInv
<1>2. InvocationInv /\ [Next]_vars => InvocationInv'
  <2> SUFFICES ASSUME InvocationInv, [Next]_vars PROVE InvocationInv'
    OBVIOUS
  <2>1. CASE Next
    BY <2>1, ExecuteInv, NotExecutedInv, HeadersArriveInv, PartArrivesInv, ReplyEndsInv,
       ReplyFailsInv, CommandGoesInv DEF Next
  <2>2. CASE UNCHANGED vars
    BY <2>2 DEF vars, requestVars, historyVars, InvocationInv, InvocationTypeOK, Stages,
       Waiting, Saved
  <2> QED
    BY <2>1, <2>2
<1> QED
  BY <1>1, <1>2, PTL DEF Spec

\* A request is freed when its call has ended, and once, unless the output file
\* could not be opened (the promise of request.h).
THEOREM FreedOnce == Spec => []FreedOnceAtTheEnd
<1>1. InvocationInv => FreedOnceAtTheEnd
  <2> SUFFICES ASSUME InvocationInv, deletions > 0
               PROVE  ~reply.live /\ ~queued /\ (deletions = 1 \/ unwritable)
    BY DEF FreedOnceAtTheEnd
  <2>1. deletions \in 0..2
    BY DEF InvocationInv, InvocationTypeOK
  <2> QED
    BY <2>1 DEF InvocationInv, Stages
<1> QED
  BY <1>1, InvocationInvariant, PTL

\* A download reported as successful has its whole body in a closed file.
THEOREM WholeFile == Spec => []OkMeansWholeFile
<1>1. InvocationInv => OkMeansWholeFile
  BY DEF InvocationInv, Saved, OkMeansWholeFile, NoFile
<1> QED
  BY <1>1, InvocationInvariant, PTL

\* A command that is gone is called only where cancel() could not end the call.
THEOREM GoneIsLeftAlone == Spec => []GoneCommandIsLeftAlone
<1>1. InvocationInv => GoneCommandIsLeftAlone
  BY DEF InvocationInv, Waiting, GoneCommandIsLeftAlone
<1> QED
  BY <1>1, InvocationInvariant, PTL

\* The type invariant.
THEOREM InvocationTypeCorrect == Spec => []InvocationTypeOK
<1>1. InvocationInv => InvocationTypeOK
  BY DEF InvocationInv
<1> QED
  BY <1>1, InvocationInvariant, PTL

===============================================================================
