------------------------- MODULE DownloadApplication -------------------------
(***************************************************************************)
(* Downloading applications (comms/src): the DownloadApplicationCommand of *)
(* the main UI's control channel adds an application to the                *)
(* LocalApplicationsStorage as "downloading", has the head server send the *)
(* package, unzips it in a process of its own and marks the application    *)
(* valid.  The storage keeps a list in memory and a directory for each     *)
(* application, from which the list is read again when the console starts. *)
(*                                                                         *)
(* Every step may fail, the main UI goes whenever an application is        *)
(* launched, which destroys the command, and the console may stop at any   *)
(* moment, also in the middle of writing or deleting an application.  Of a *)
(* request the model keeps what RequestService promises: at most one       *)
(* answer, none after it is cancelled, and perhaps none ever while it is   *)
(* queued.                                                                 *)
(***************************************************************************)
EXTENDS Naturals

CONSTANTS Ids       \* full ids of the applications the head server offers

VARIABLES
    mainUI,         \* the main UI's control channel, with its command, exists
    apps,           \* LocalApplicationsStorage::apps: the state of each, or "absent"
    dirs,           \* the application's directory
    downloads,      \* how far a download has come
    reply,          \* the <<id, result>> the last step sent to the main UI
    crashed,        \* the console stopped inside a handler, or by using the
                    \* configuration of an unreadable application
    littered        \* history: applications of which an add or a delete that
                    \* failed, or in which the console stopped, left files

vars == <<mainUI, apps, dirs, downloads, reply, crashed, littered>>

\* config: the *appcfg.json that is read; state: state.json, "invalid" when it is
\* empty; content: the rest.
Dir == [exists  : BOOLEAN,
        config  : {"none", "ok", "unreadable"},
        state   : {"none", "downloading", "valid", "invalid"},
        content : {"none", "complete"}]

NoDir == [exists |-> FALSE, config |-> "none", state |-> "none", content |-> "none"]
NewDir_NotMade == NoDir
NewDir == [NoDir EXCEPT !.exists = TRUE]

\* "requested": the request is queued; "executing": the head server has it;
\* "cancelled": one of the two, but nobody waits for it; "unzipping" and
\* "abandoned": unzip runs, and nobody waits for it.
Progress == {"none", "requested", "executing", "cancelled", "unzipping", "abandoned"}
Requested == {"requested", "executing"}
Awaited == Requested \cup {"unzipping"}

NoReply == <<>>

Init ==
    /\ mainUI = FALSE
    /\ apps = [id \in Ids |-> "absent"]
    /\ dirs = [id \in Ids |-> NoDir]
    /\ downloads = [id \in Ids |-> "none"]
    /\ reply = NoReply
    /\ crashed = FALSE
    /\ littered = {}

-----------------------------------------------------------------------------
(* ApplicationConfigReaderWriter and LocalApplicationsStorage.             *)

\* readApplication() of a readable directory: "missing state file means app is OK".
ReadApplication(dir) ==
    IF dir.config = "none" THEN "absent"
    ELSE IF dir.state = "none" THEN "valid" ELSE dir.state

\* addApplication() refuses an id it knows, and one whose directory exists.
Refused(id) == apps[id] # "absent" \/ dirs[id].exists

\* writeApplication() of `state` over `dir`: the configuration, then the state.
\* What is lost when the files are closed (a full disk) is not noticed: an
\* unreadable configuration or an invalid state then counts as written.
Written_MarkedValid(dir, state) == {[dir EXCEPT !.config = "ok", !.state = "valid"]}
Written(dir, state) ==
    {[dir EXCEPT !.config = config, !.state = written] :
        config \in {"ok", "unreadable"}, written \in {state, "invalid"}}

\* What it leaves when it fails or does not come to its end: opening a file
\* empties it, and the state is not touched before the configuration is written.
PartlyWritten(dir, state) ==
    Written(dir, state) \cup {dir, [dir EXCEPT !.config = "ok"],
                              [dir EXCEPT !.config = "unreadable"]}

\* What addApplication() leaves when it fails or does not come to its end.
PartlyAdded == {NoDir} \cup PartlyWritten(NewDir, "downloading")

\* What removeRecursively() leaves when it fails or does not come to its end: any
\* of the files.
PartlyDeleted(dir) ==
    {left \in Dir : /\ left.exists
                    /\ \A file \in {"config", "state", "content"} :
                            left[file] \in {dir[file], "none"}}

\* A directory is left as it is, and with files in it if something failed.
Leaves(id, left) ==
    /\ dirs' = [dirs EXCEPT ![id] = left]
    /\ littered' = IF left.exists THEN littered \cup {id} ELSE littered

\* deleteApplicationFromFileSystem(): the entry goes, whatever becomes of the files.
Delete_KeepsEntry(id, dir) == Leaves(id, NoDir) /\ UNCHANGED apps
Delete(id, dir) ==
    /\ apps' = [apps EXCEPT ![id] = "absent"]
    /\ \E left \in {NoDir} \cup PartlyDeleted(dir) : Leaves(id, left)

-----------------------------------------------------------------------------
\* A console that is up handles an event and sends at most one final reply.
Handles(sent) == ~crashed /\ reply' = sent

MainUIConnects ==
    /\ Handles(NoReply)
    /\ ~mainUI
    /\ mainUI' = TRUE
    /\ UNCHANGED <<apps, dirs, downloads, crashed, littered>>

\* ~DownloadApplicationCommand(): requests are cancelled, and the slot of a
\* running unzip is disconnected.
Orphaned_StillServed(progress) == progress
Orphaned(progress) ==
    CASE progress \in Requested -> "cancelled"
      [] progress = "unzipping" -> "abandoned"
      [] OTHER -> progress

MainUIGoes ==
    /\ Handles(NoReply)
    /\ mainUI
    /\ mainUI' = FALSE
    /\ downloads' = [id \in Ids |-> Orphaned(downloads[id])]
    /\ UNCHANGED <<apps, dirs, crashed, littered>>

\* process(): an application the cache does not know (which needs no state of its
\* own here) or the storage refuses.
DownloadRefused(id) ==
    /\ Handles(<<id, "failure">>)
    /\ mainUI
    /\ UNCHANGED <<mainUI, apps, dirs, downloads, crashed, littered>>

\* process(): the application could not be added.
DownloadNotAdded(id) ==
    /\ Handles(<<id, "failure">>)
    /\ mainUI
    /\ ~Refused(id)
    /\ \E left \in PartlyAdded : Leaves(id, left)
    /\ UNCHANGED <<mainUI, apps, downloads, crashed>>

\* process(): the application is added, and read again to be listed, which uses
\* an unreadable configuration; then its package is requested.
DownloadRequested(id) ==
    /\ Handles(NoReply)
    /\ mainUI
    /\ ~Refused(id)
    /\ \E dir \in Written(NewDir, "downloading") :
        IF dir.config = "unreadable"
        THEN /\ crashed' = TRUE
             /\ Leaves(id, dir)
             /\ UNCHANGED <<apps, downloads>>
        ELSE /\ apps' = [apps EXCEPT ![id] = ReadApplication(dir)]
             /\ dirs' = [dirs EXCEPT ![id] = dir]
             /\ downloads' = [downloads EXCEPT ![id] = "requested"]
             /\ UNCHANGED <<crashed, littered>>
    /\ UNCHANGED mainUI

-----------------------------------------------------------------------------
\* HeadServerConnection executes the request.
RequestExecuted(id) ==
    /\ Handles(NoReply)
    /\ downloads[id] = "requested"
    /\ downloads' = [downloads EXCEPT ![id] = "executing"]
    /\ UNCHANGED <<mainUI, apps, dirs, crashed, littered>>

\* processRequestErrorResponse(), also of a request that fails in the queue and
\* of a package that is not there after all.
RequestFails(id) ==
    /\ Handles(<<id, "failure">>)
    /\ downloads[id] \in Requested
    /\ downloads' = [downloads EXCEPT ![id] = "none"]
    /\ Delete(id, dirs[id])
    /\ UNCHANGED <<mainUI, crashed>>

\* processRequestOkResponse()
RequestOk(id) ==
    /\ Handles(NoReply)
    /\ downloads[id] = "executing"
    /\ downloads' = [downloads EXCEPT ![id] = "unzipping"]
    /\ UNCHANGED <<mainUI, apps, dirs, crashed, littered>>

\* A cancelled request is answered and deletes itself.
CancelledRequestEnds(id) ==
    /\ Handles(NoReply)
    /\ downloads[id] = "cancelled"
    /\ downloads' = [downloads EXCEPT ![id] = "none"]
    /\ UNCHANGED <<mainUI, apps, dirs, crashed, littered>>

\* What the unzip of a package makes of the directory.  A package may bring a
\* configuration of its own, readable or not.
Unpacked(dir) ==
    {[dir EXCEPT !.content = "complete", !.config = config] :
        config \in {"ok", "unreadable"}}

\* How far an unzip may have come when it fails or is interrupted.
PartlyUnpacked(dir) == {dir} \cup {[dir EXCEPT !.config = "unreadable"]} \cup Unpacked(dir)

\* What updateApplication() of the unpacked application, marked valid, leaves when
\* it fails or does not come to its end.
PartlyUpdated(dir) ==
    UNION {PartlyWritten(unpacked, "valid") : unpacked \in Unpacked(dir)}

\* onUnzipFinished(): unzip, the refresh from the disk or the update failed.
UnzipFails(id) ==
    /\ Handles(<<id, "failure">>)
    /\ downloads[id] = "unzipping"
    /\ downloads' = [downloads EXCEPT ![id] = "none"]
    /\ \E dir \in PartlyUnpacked(dirs[id]) \cup PartlyUpdated(dirs[id]) : Delete(id, dir)
    /\ UNCHANGED <<mainUI, crashed>>

\* onUnzipFinished(): the application is read, marked valid, written and read once
\* more.  A configuration that is unreadable then is used nevertheless.
UnzipOk_NotWritten(id) ==
    /\ Handles(<<id, "ok">>)
    /\ downloads[id] = "unzipping"
    /\ downloads' = [downloads EXCEPT ![id] = "none"]
    /\ \E dir \in Unpacked(dirs[id]) : dirs' = [dirs EXCEPT ![id] = dir]
    /\ apps' = [apps EXCEPT ![id] = "valid"]
    /\ UNCHANGED <<mainUI, crashed, littered>>
UnzipOk(id) ==
    /\ ~crashed
    /\ downloads[id] = "unzipping"
    /\ downloads' = [downloads EXCEPT ![id] = "none"]
    /\ \E unpacked \in Unpacked(dirs[id]) :
       \E dir \in IF unpacked.config = "unreadable"
                  THEN {unpacked} ELSE Written(unpacked, "valid") :
        /\ dirs' = [dirs EXCEPT ![id] = dir]
        /\ IF dir.config = "unreadable"
           THEN crashed' = TRUE /\ reply' = NoReply /\ UNCHANGED apps
           ELSE /\ reply' = <<id, "ok">>
                /\ apps' = [apps EXCEPT ![id] = ReadApplication(dir)]
                /\ UNCHANGED crashed
    /\ UNCHANGED <<mainUI, littered>>

\* The unzip nobody waits for ends.
AbandonedUnzipEnds(id) ==
    /\ Handles(NoReply)
    /\ downloads[id] = "abandoned"
    /\ downloads' = [downloads EXCEPT ![id] = "none"]
    /\ \E dir \in PartlyUnpacked(dirs[id]) : dirs' = [dirs EXCEPT ![id] = dir]
    /\ UNCHANGED <<mainUI, apps, crashed, littered>>

\* The console stops while it adds an application, deletes one whose download has
\* failed, or updates one that was unpacked.
StopsInAdd(id) ==
    /\ mainUI
    /\ ~Refused(id)
    /\ \E left \in PartlyAdded : Leaves(id, left)
    /\ UNCHANGED downloads

StopsInDelete(id) ==
    /\ downloads[id] \in Awaited
    /\ downloads' = [downloads EXCEPT ![id] = "none"]
    /\ \E dir \in {dirs[id]} \cup
            IF downloads[id] = "unzipping"
            THEN PartlyUnpacked(dirs[id]) \cup PartlyUpdated(dirs[id]) ELSE {} :
       \E left \in PartlyDeleted(dir) : Leaves(id, left)

StopsInUpdate(id) ==
    /\ downloads[id] = "unzipping"
    /\ downloads' = [downloads EXCEPT ![id] = "none"]
    /\ \E left \in PartlyUpdated(dirs[id]) : dirs' = [dirs EXCEPT ![id] = left]
    /\ UNCHANGED littered

StopsInHandler(id) ==
    /\ Handles(NoReply)
    /\ StopsInAdd(id) \/ StopsInDelete(id) \/ StopsInUpdate(id)
    /\ crashed' = TRUE
    /\ UNCHANGED <<mainUI, apps>>

\* The console is started again and reads every directory; an unreadable
\* configuration ends it at once.
FoundAtRestart(id) ==
    IF downloads[id] \in {"unzipping", "abandoned"}
    THEN PartlyUnpacked(dirs[id]) ELSE {dirs[id]}

Restart ==
    /\ mainUI' = FALSE
    /\ downloads' = [id \in Ids |-> "none"]
    /\ reply' = NoReply
    /\ \E found \in [Ids -> UNION {FoundAtRestart(id) : id \in Ids}] :
        /\ \A id \in Ids : found[id] \in FoundAtRestart(id)
        /\ dirs' = found
        /\ apps' = [id \in Ids |-> ReadApplication(found[id])]
        /\ crashed' = (\E id \in Ids : found[id].config = "unreadable")
    /\ UNCHANGED littered

-----------------------------------------------------------------------------
Next ==
    \/ MainUIConnects
    \/ MainUIGoes
    \/ \E id \in Ids :
        \/ DownloadRefused(id)
        \/ DownloadNotAdded(id)
        \/ DownloadRequested(id)
        \/ RequestExecuted(id)
        \/ RequestFails(id)
        \/ RequestOk(id)
        \/ CancelledRequestEnds(id)
        \/ UnzipFails(id)
        \/ UnzipOk(id)
        \/ AbandonedUnzipEnds(id)
        \/ StopsInHandler(id)
    \/ Restart

Spec == Init /\ [][Next]_vars

\* The reply to a request that is executed ends, with an error if need be, and so
\* does unzip.  Nothing is assumed of a request that is queued: the connection to
\* the head server may have stopped.
Fairness ==
    \A id \in Ids :
        /\ WF_vars(downloads[id] = "executing" /\ (RequestFails(id) \/ RequestOk(id)))
        /\ WF_vars(UnzipFails(id) \/ UnzipOk(id))

FairSpec == Spec /\ Fairness

-----------------------------------------------------------------------------
(* Properties.                                                             *)

DownloadTypeOK ==
    /\ mainUI \in BOOLEAN
    /\ apps \in [Ids -> {"absent", "downloading", "valid", "invalid"}]
    /\ dirs \in [Ids -> Dir]
    /\ downloads \in [Ids -> Progress]
    /\ reply \in {NoReply} \cup (Ids \X {"ok", "failure"})
    /\ crashed \in BOOLEAN
    /\ littered \subseteq Ids
    /\ \A id \in Ids : ~dirs[id].exists => dirs[id] = NoDir

\* The handlers of answers look the application up and use it unchecked: while
\* the command waits, the application is in the list and not valid, its directory
\* is there with a readable configuration and no content, and the command exists,
\* to whose channel they reply.
WaitingIsListed ==
    \A id \in Ids : downloads[id] \in Awaited =>
        /\ mainUI
        /\ apps[id] \in {"downloading", "invalid"}
        /\ dirs[id].config = "ok" /\ dirs[id].content = "none"

\* An application is valid, in the list or for the next start, only if its
\* package was unpacked completely: whatever request, unzip or update failed or
\* lost what it wrote, and wherever in one of them the console stopped.  Excepted
\* are applications of which an add or a delete, failed or cut short by a stop,
\* left files: a configuration without a state file counts as valid.
ValidIsComplete ==
    \A id \in Ids \ littered :
        apps[id] = "valid" \/ ReadApplication(dirs[id]) = "valid" =>
            dirs[id].content = "complete"

\* A restart finds each application as it is in the list: memory and disk agree
\* after every event, so a restart between two of them loses no download and
\* validates none.
RestartFindsTheSame ==
    ~crashed => \A id \in Ids : apps[id] # "absent" =>
        dirs[id].config = "unreadable" \/ ReadApplication(dirs[id]) = apps[id]

\* An application whose package the head server was asked for is in the end valid,
\* invalid or gone, unless the main UI goes or the console stops.
AcceptedDownloadEnds ==
    \A id \in Ids : downloads[id] = "executing" ~>
        ((downloads[id] = "none" /\ apps[id] # "downloading") \/ ~mainUI \/ crashed)

\* "if we fail after this point we need to delete our application dir": an
\* application that was added, and whose download nobody attends to any more, is
\* not left listed as downloading.
NoOrphanedDownload ==
    \A id \in Ids \ littered : apps[id] = "downloading" => downloads[id] \in Awaited

\* "folder might still exist but it is not valid application": the directory of an
\* application that is not in the list does not make it valid at the next start.
LitterIsNotValid ==
    \A id \in Ids :
        ~crashed /\ apps[id] = "absent" => ReadApplication(dirs[id]) # "valid"

=============================================================================
