---------------------------- MODULE RestInvocation ----------------------------
(***************************************************************************)
(* One call of the console to the head server, from the command that asks  *)
(* for it to the last callback: a Request (comms/src/request.cpp) of the   *)
(* command that lists applications or of the one that downloads them, and  *)
(* the invocation that executes it (gberry-lib: RESTInvocationImpl, or     *)
(* DownloadStreamInvocationImpl, which writes the body to a file).  The    *)
(* QNetworkReply is the network library's: it announces headers, parts of  *)
(* the body and its end, and abort() ends it inside the caller.            *)
(*                                                                         *)
(* The main UI may go at any time, which destroys the command and cancels  *)
(* the request.  When HeadServerConnection executes a request, and what    *)
(* becomes of one it failed and executes nevertheless, is that module's.   *)
(***************************************************************************)
EXTENDS Naturals

CONSTANTS
    MaxRedirects,   \* bound on the redirects of a call (HeadersArrive), none in the code
    MaxParts        \* bound on the parts in which a body arrives

ASSUME BoundsAssumption == MaxRedirects \in Nat /\ MaxParts \in Nat

VARIABLES
    download,       \* which of the two commands asks
    queued,         \* the request waits to be executed
    commandAlive,
    active,         \* _active of the request
    attached,       \* its _invocation is set
    answered,       \* what the command was told
    deletions,      \* how often the deletion of the request was scheduled
    status,         \* invocationStatus
    reply,          \* qreply
    redirects,
    file,           \* the output file
    misused,        \* a destroyed command was called
    inVain,         \* history: cancelled where no abort() ends the call
    unwritable,     \* history: the output file could not be opened
    full            \* history: a part could not be written, which is not checked

requestVars == <<commandAlive, active, attached, answered, deletions>>
historyVars == <<misused, inVain, unwritable, full>>
vars == <<download, queued, requestVars, status, reply, redirects, file, historyVars>>

\* code: what the headers say; parts: of the body, handed over by readyRead.
Codes == {"200", "redirect", "success", "failure"}
Reply == [live : BOOLEAN, code : Codes \cup {"unknown"}, parts : 0..MaxParts]
NewReply == [live |-> TRUE, code |-> "unknown", parts |-> 0]

NoFile == [open |-> FALSE, parts |-> 0]

Init ==
    /\ download \in BOOLEAN
    /\ queued = TRUE
    /\ commandAlive = TRUE
    /\ active = TRUE
    /\ attached = FALSE
    /\ answered = "none"
    /\ deletions = 0
    /\ status = "NOT_STARTED"
    /\ reply = [NewReply EXCEPT !.live = FALSE]
    /\ redirects = 0
    /\ file = NoFile
    /\ misused = FALSE
    /\ inVain = FALSE
    /\ unwritable = FALSE
    /\ full = FALSE

-----------------------------------------------------------------------------
(* What the request makes of the invocation's signals.  Both commands delete *)
(* a request that succeeded; of those that failed only a download is deleted *)
(* by its command.  A request that is not active deletes itself.             *)

Told(outcome) ==
    /\ answered' = outcome
    /\ active' = FALSE
    /\ attached' = FALSE

AnswerIsRead ==
    /\ deletions' = deletions + 1
    /\ IF active THEN Told("ok") ELSE UNCHANGED <<answered, active, attached>>

\* The list of applications is no valid JSON: the command is told that the
\* request failed, and deletes it as little as any failed request for the list.
AnswerIsNoJson ==
    /\ ~download
    /\ active
    /\ Told("failed")
    /\ UNCHANGED deletions

FinishedOk == AnswerIsRead \/ AnswerIsNoJson

FinishedError_OnlyAsked(isActive, times) ==
    IF isActive
    THEN /\ Told("failed")
         /\ deletions' = deletions + (IF download THEN times ELSE times - 1)
    ELSE active' = FALSE /\ UNCHANGED <<deletions, answered, attached>>

\* finishedError() of the request, `isActive` when it is called first, `times`
\* times on end.
FinishedError(isActive, times) ==
    IF isActive
    THEN /\ Told("failed")
         /\ deletions' = deletions + (IF download THEN times ELSE times - 1)
    ELSE /\ active' = FALSE
         /\ deletions' = deletions + times
         /\ UNCHANGED <<answered, attached>>

-----------------------------------------------------------------------------
(* The end of a reply: httpFinished() and onQNetworkReplyFinished().         *)

\* A redirect is followed before anything else is looked at, also when the reply
\* was aborted.
Redirected == reply.code = "redirect"

Follow_NoFurther ==
    /\ reply' = [NewReply EXCEPT !.live = FALSE]
    /\ redirects' = redirects + 1
    /\ status' = "ONGOING"
Follow ==
    /\ reply' = NewReply
    /\ redirects' = redirects + 1
    /\ status' = "ONGOING"

\* The reply ends with an error.
Fails(isActive) ==
    IF Redirected
    THEN /\ Follow
         /\ active' = isActive
         /\ UNCHANGED <<attached, answered, deletions>>
    ELSE /\ reply' = [reply EXCEPT !.live = FALSE]
         /\ status' = "ERROR"
         /\ FinishedError(isActive, 1)
         /\ UNCHANGED redirects

CloseFile == file' = [open |-> FALSE, parts |-> file.parts]

ReplyFails ==
    /\ reply.live
    /\ Fails(active)
    /\ UNCHANGED <<download, queued, commandAlive, file, historyVars>>

\* Without an error any answer but a redirect is a success, whatever its code.
ReplyEnds ==
    /\ reply.live
    /\ reply.code \in {"200", "success", "redirect"}
    /\ IF Redirected
       THEN /\ Follow
            /\ UNCHANGED <<active, attached, answered, deletions, file>>
       ELSE /\ reply' = [reply EXCEPT !.live = FALSE]
            /\ status' = IF download THEN "FINISHED" ELSE "RESPONSE_RECEIVED"
            /\ CloseFile
            /\ FinishedOk
            /\ UNCHANGED redirects
    /\ UNCHANGED <<download, queued, commandAlive, historyVars>>

-----------------------------------------------------------------------------
\* prepareInvocation() and execute(), also of a request that was cancelled.
Execute ==
    /\ queued
    /\ queued' = FALSE
    /\ attached' = TRUE
    /\ status' = "ONGOING"
    /\ reply' = NewReply
    /\ UNCHANGED <<download, commandAlive, active, answered, deletions, redirects, file,
                   historyVars>>

\* There is no connection to the head server.
NotExecuted ==
    /\ queued
    /\ queued' = FALSE
    /\ FinishedError(active, 1)
    /\ UNCHANGED <<download, commandAlive, status, reply, redirects, file, historyVars>>

HeadersArrive ==
    /\ reply.live
    /\ reply.code = "unknown"
    /\ \E code \in Codes :
          /\ code = "redirect" => redirects < MaxRedirects
          /\ reply' = [reply EXCEPT !.code = code]
    /\ UNCHANGED <<download, queued, requestVars, status, redirects, file, historyVars>>

\* Which answers' bodies are meant for the file.
IsSaved_AnySuccess(code) == code # "failure"
IsSaved(code) == code = "200"

\* onQNetworkReplyReadyRead(): an error answer's body, or a redirect's, is not
\* for the file.
SkipPart ==
    /\ ~IsSaved(reply.code)
    /\ status' = "ERROR"
    /\ reply' = [reply EXCEPT !.parts = @ + 1]
    /\ UNCHANGED <<requestVars, redirects, file, historyVars>>

\* A part is written, or lost; the command hears that the download has started
\* and how far it is.
SavePart ==
    /\ IsSaved(reply.code)
    /\ status' = "RESPONSE_RECEIVED"
    /\ reply' = [reply EXCEPT !.parts = @ + 1]
    /\ \/ file' = [open |-> TRUE, parts |-> file.parts + 1] /\ UNCHANGED full
       \/ file' = [open |-> TRUE, parts |-> file.parts] /\ full' = TRUE
    /\ misused' = (misused \/ ~commandAlive)
    /\ UNCHANGED <<requestVars, redirects, inVain, unwritable>>

\* The file cannot be opened: abort() reports the error before this handler
\* reports it again.
CannotSave ==
    /\ IsSaved(reply.code)
    /\ ~file.open
    /\ status' = "INVALID_INVOCATION"
    /\ reply' = [reply EXCEPT !.live = FALSE, !.parts = @ + 1]
    /\ FinishedError(active, 2)
    /\ unwritable' = TRUE
    /\ UNCHANGED <<commandAlive, redirects, file, misused, inVain, full>>

PartArrives ==
    /\ download
    /\ reply.live
    /\ reply.code # "unknown"
    /\ reply.parts < MaxParts
    /\ SkipPart \/ SavePart \/ CannotSave
    /\ UNCHANGED <<download, queued>>

\* cancel()
Cancel_DeletesAtOnce ==
    /\ active' = FALSE
    /\ deletions' = deletions + 1
    /\ UNCHANGED <<attached, answered, reply, status, redirects>>
Cancel_KeepsRunning ==
    /\ active' = FALSE
    /\ UNCHANGED <<attached, answered, deletions, reply, status, redirects>>
Cancel ==
    IF attached
    THEN Fails(FALSE)
    ELSE /\ active' = FALSE
         /\ UNCHANGED <<attached, answered, deletions, reply, status, redirects>>

\* The command is destroyed; it cancels a request that was not answered.
CommandGoes ==
    /\ commandAlive
    /\ commandAlive' = FALSE
    /\ IF answered = "none"
       THEN /\ Cancel
            /\ inVain' = (queued \/ Redirected)
       ELSE UNCHANGED <<active, attached, answered, deletions, reply, status, redirects, inVain>>
    /\ UNCHANGED <<download, queued, file, misused, unwritable, full>>

-----------------------------------------------------------------------------
\* A call of a destroyed command is undefined behaviour.  The model goes on from
\* there as if it had done no harm; nothing is claimed of the other outcomes.
Next ==
    \/ Execute
    \/ NotExecuted
    \/ HeadersArrive
    \/ PartArrives
    \/ ReplyEnds
    \/ ReplyFails
    \/ CommandGoes

\* A reply ends, with an error if need be.  That a queued request is ever
\* executed or failed is not assumed: HeadServerConnection may have stopped.
Fairness == WF_vars(ReplyEnds \/ ReplyFails)

Spec == Init /\ [][Next]_vars /\ Fairness

-----------------------------------------------------------------------------
(* Properties.                                                             *)

\* The type invariant: what each variable may hold, and that an invocation held
\* by a request that is still wanted has a reply under way.
InvocationTypeOK ==
    /\ download \in BOOLEAN /\ queued \in BOOLEAN /\ commandAlive \in BOOLEAN
    /\ active \in BOOLEAN /\ attached \in BOOLEAN
    /\ misused \in BOOLEAN /\ inVain \in BOOLEAN /\ unwritable \in BOOLEAN /\ full \in BOOLEAN
    /\ answered \in {"none", "ok", "failed"}
    /\ deletions \in 0..2
    /\ status \in {"NOT_STARTED", "ONGOING", "ERROR", "INVALID_INVOCATION",
                   "RESPONSE_RECEIVED", "FINISHED"}
    /\ reply \in Reply
    /\ redirects \in 0..MaxRedirects
    /\ file \in [open : BOOLEAN, parts : 0..MaxParts]
    /\ attached /\ answered = "none" /\ active => reply.live

\* "Requests need to be alive as long as RESTInvocation is live": a request is
\* freed when its call has ended, and once, unless the output file could not be
\* opened.
FreedOnceAtTheEnd ==
    deletions > 0 => ~reply.live /\ ~queued /\ (deletions = 1 \/ unwritable)

\* A download reported as successful has its whole body in a closed file, and
\* nothing of the answers that redirected it, unless the disk was full.  (An
\* answer without a body, or not 200, leaves no file.)
OkMeansWholeFile ==
    download /\ answered = "ok" =>
        /\ ~file.open
        /\ reply.code = "200" /\ ~full => file.parts = reply.parts
        /\ reply.code # "200" => file.parts = 0

\* Nothing is reported to a command that is gone: its requests are aborted, and
\* end, in cancel().  That fails in two cases: a request cancelled in the queue is
\* executed later, and a call aborted while it is redirected goes on.
GoneCommandIsLeftAlone == misused => inVain

\* A request that was executed, before its command went or afterwards, is freed
\* in the end, also when its call is redirected (a bounded number of times).
CancelledIsFreed ==
    ~commandAlive /\ answered = "none" /\ ~queued ~> (deletions > 0 \/ misused)

===============================================================================
