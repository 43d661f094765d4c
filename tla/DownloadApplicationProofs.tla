---------------------- MODULE DownloadApplicationProofs ----------------------
(***************************************************************************)
(* Proofs about DownloadApplication for any set of application ids: that a *)
(* restart finds what was listed and that only complete applications are   *)
(* valid, save those an add or a delete left files of.                     *)
(*                                                                         *)
(* Both rest on what holds of a download that is under way, attended to or *)
(* not: its application is listed as it was added and its directory is as  *)
(* addApplication() made it, because nothing else may touch it until the   *)
(* download has ended.                                                     *)
(***************************************************************************)
EXTENDS DownloadApplication, TLAPS

\* What addApplication() makes, its state perhaps lost.
Added(dir, state) ==
    /\ dir \in Dir
    /\ dir.exists
    /\ dir.config = "ok"
    /\ dir.state = state
    /\ dir.content = "none"
AddedState == {"downloading", "invalid"}

UnderWay ==
    \A id \in Ids :
        /\ downloads[id] # "none" => apps[id] \in AddedState /\ Added(dirs[id], apps[id])
        /\ downloads[id] \in Awaited => mainUI

IInv ==
    /\ DownloadTypeOK
    /\ UnderWay
    /\ ValidIsComplete
    /\ RestartFindsTheSame

-----------------------------------------------------------------------------
(* Directories.                                                            *)

LEMMA NoDirFacts == NoDir \in Dir /\ ~NoDir.exists /\ ReadApplication(NoDir) = "absent"
BY DEF NoDir, Dir, ReadApplication

LEMMA NewDirFacts ==
    NewDir \in Dir /\ NewDir.exists /\ NewDir.content = "none"
BY DEF NewDir, NoDir, Dir

LEMMA AddedDirFacts ==
    ASSUME NEW state \in AddedState, NEW dir, Added(dir, state)
    PROVE  dir \in Dir /\ dir.exists /\ ReadApplication(dir) = state
BY DEF Added, AddedState, ReadApplication

LEMMA NotAwaited == "none" \notin Awaited /\ Awaited \subseteq Progress
BY DEF Awaited, Requested, Progress

\* Writing into a directory keeps it there with its content.
LEMMA WrittenFacts ==
    ASSUME NEW dir \in Dir, dir.exists, NEW state \in {"downloading", "valid"},
           NEW left \in Written(dir, state)
    PROVE  /\ left \in Dir
           /\ left.exists
           /\ left.config \in {"ok", "unreadable"}
           /\ ReadApplication(left) = left.state
           /\ left.state \in {state, "invalid"}
           /\ left.content = dir.content
<1>1. PICK config \in {"ok", "unreadable"}, written \in {state, "invalid"} :
            left = [dir EXCEPT !.config = config, !.state = written]
  BY DEF Written
<1>2. left \in Dir /\ left.exists /\ left.config = config /\ left.state = written
      /\ left.content = dir.content
  BY <1>1 DEF Dir
<1> QED BY <1>2 DEF ReadApplication

LEMMA PartlyWrittenFacts ==
    ASSUME NEW dir \in Dir, dir.exists, NEW state \in {"downloading", "valid"},
           NEW left \in PartlyWritten(dir, state)
    PROVE  left \in Dir /\ left.exists /\ left.content = dir.content
<1>1. CASE left \in Written(dir, state)
  BY <1>1, WrittenFacts
<1>2. CASE left \in {dir, [dir EXCEPT !.config = "ok"], [dir EXCEPT !.config = "unreadable"]}
  BY <1>2 DEF Dir
<1> QED BY <1>1, <1>2 DEF PartlyWritten

\* What a new application's directory is when it was written.
LEMMA AddedFacts ==
    ASSUME NEW dir \in Written(NewDir, "downloading"), dir.config # "unreadable"
    PROVE  dir.state \in AddedState /\ Added(dir, dir.state)
BY NewDirFacts, WrittenFacts DEF Added, AddedState

\* Unzipping a package completes the directory and leaves its state as it was.
LEMMA UnpackedFacts ==
    ASSUME NEW state \in AddedState, NEW added, Added(added, state), NEW dir \in Unpacked(added)
    PROVE  /\ dir \in Dir
           /\ dir.exists
           /\ dir.content = "complete"
           /\ ReadApplication(dir) = state
<1>1. PICK config \in {"ok", "unreadable"} :
            dir = [added EXCEPT !.content = "complete", !.config = config]
  BY DEF Unpacked
<1>2. dir \in Dir /\ dir.exists /\ dir.content = "complete" /\ dir.config = config
      /\ dir.state = state
  BY <1>1 DEF Added, Dir
<1> QED BY <1>2 DEF ReadApplication, AddedState

LEMMA PartlyUnpackedFacts ==
    ASSUME NEW state \in AddedState, NEW added, Added(added, state),
           NEW dir \in PartlyUnpacked(added)
    PROVE  dir \in Dir /\ dir.exists /\ ReadApplication(dir) = state
<1>1. CASE dir = added
  BY <1>1, AddedDirFacts
<1>2. CASE dir = [added EXCEPT !.config = "unreadable"]
  <2>1. dir \in Dir /\ dir.exists /\ dir.config = "unreadable" /\ dir.state = state
    BY <1>2 DEF Added, Dir
  <2> QED BY <2>1 DEF ReadApplication, AddedState
<1>3. CASE dir \in Unpacked(added)
  BY <1>3, UnpackedFacts
<1> QED BY <1>1, <1>2, <1>3 DEF PartlyUnpacked

LEMMA PartlyUpdatedFacts ==
    ASSUME NEW state \in AddedState, NEW added, Added(added, state),
           NEW dir \in PartlyUpdated(added)
    PROVE  dir \in Dir /\ dir.exists /\ dir.content = "complete"
<1>1. PICK unpacked \in Unpacked(added) : dir \in PartlyWritten(unpacked, "valid")
  BY DEF PartlyUpdated
<1> QED BY <1>1, UnpackedFacts, PartlyWrittenFacts

LEMMA PartlyAddedFacts ==
    ASSUME NEW left \in PartlyAdded
    PROVE  left \in Dir /\ (~left.exists => left = NoDir)
<1>1. CASE left = NoDir
  BY <1>1, NoDirFacts
<1>2. CASE left \in PartlyWritten(NewDir, "downloading")
  BY <1>2, NewDirFacts, PartlyWrittenFacts
<1> QED BY <1>1, <1>2 DEF PartlyAdded

\* A deletion leaves nothing, or files of an application counted as littered.
LEMMA DeleteFacts ==
    ASSUME DownloadTypeOK, NEW id \in Ids, NEW dir, Delete(id, dir)
    PROVE  /\ apps' = [apps EXCEPT ![id] = "absent"]
           /\ \E left \in Dir :
                /\ dirs' = [dirs EXCEPT ![id] = left]
                /\ ~left.exists => left = NoDir
                /\ \/ left = NoDir /\ littered' = littered
                   \/ littered' = littered \cup {id}
<1>1. PICK left \in {NoDir} \cup PartlyDeleted(dir) : Leaves(id, left)
  BY DEF Delete
<1>2. left \in Dir /\ (~left.exists => left = NoDir)
  BY NoDirFacts DEF PartlyDeleted
<1> QED BY <1>1, <1>2, NoDirFacts DEF Leaves, Delete

-----------------------------------------------------------------------------
(* The inductive invariant.                                                *)

LEMMA InitIInv == Init => IInv
<1> SUFFICES ASSUME Init PROVE IInv
    OBVIOUS
<1>1. DownloadTypeOK
  BY NoDirFacts DEF Init, DownloadTypeOK, Progress
<1>2. UnderWay /\ ValidIsComplete /\ RestartFindsTheSame
  BY NoDirFacts, NotAwaited DEF Init, UnderWay, ValidIsComplete, RestartFindsTheSame
<1> QED BY <1>1, <1>2 DEF IInv

\* A step that changes neither the list nor the directories.
LEMMA ListUnchanged ==
    ASSUME IInv, UNCHANGED <<apps, dirs, littered, crashed>>, DownloadTypeOK',
           UnderWay'
    PROVE  IInv'
BY DEF IInv, ValidIsComplete, RestartFindsTheSame

\* A step in which the console stops and leaves a directory littered, or
\* complete, of an application that is not listed as valid.
LEMMA StopStep ==
    ASSUME IInv, NEW id \in Ids, NEW left \in Dir, ~left.exists => left = NoDir,
           dirs' = [dirs EXCEPT ![id] = left],
           downloads' = [downloads EXCEPT ![id] = "none"],
           \/ littered' = littered \cup {id}
           \/ littered' = littered /\ left = NoDir /\ apps[id] # "valid"
           \/ littered' = littered /\ left.content = "complete",
           crashed' = TRUE, reply' = NoReply, UNCHANGED <<mainUI, apps>>
    PROVE  IInv'
<1>1. DownloadTypeOK'
  BY DEF IInv, DownloadTypeOK, Progress
<1>2. UnderWay'
  BY NotAwaited DEF IInv, UnderWay, DownloadTypeOK
<1>3. ValidIsComplete'
  BY NoDirFacts DEF IInv, ValidIsComplete, DownloadTypeOK
<1>4. RestartFindsTheSame'
  BY DEF RestartFindsTheSame
<1> QED BY <1>1, <1>2, <1>3, <1>4 DEF IInv

\* A step that deletes an application, or fails to.
LEMMA DeleteStep ==
    ASSUME IInv, NEW id \in Ids, NEW dir, Delete(id, dir),
           UNCHANGED <<mainUI, crashed>>,
           downloads' = [downloads EXCEPT ![id] = "none"],
           reply' = <<id, "failure">>
    PROVE  IInv'
<1>1. PICK left \in Dir :
        /\ apps' = [apps EXCEPT ![id] = "absent"]
        /\ dirs' = [dirs EXCEPT ![id] = left]
        /\ ~left.exists => left = NoDir
        /\ \/ left = NoDir /\ littered' = littered
           \/ littered' = littered \cup {id}
  BY DeleteFacts DEF IInv
<1>2. DownloadTypeOK'
  BY <1>1 DEF IInv, DownloadTypeOK, Progress
<1>3. UnderWay'
  BY <1>1, NotAwaited DEF IInv, UnderWay, DownloadTypeOK
<1>4. ValidIsComplete'
  BY <1>1, NoDirFacts DEF IInv, ValidIsComplete, DownloadTypeOK
<1>5. RestartFindsTheSame'
  BY <1>1 DEF IInv, RestartFindsTheSame, DownloadTypeOK
<1> QED BY <1>2, <1>3, <1>4, <1>5 DEF IInv

LEMMA NextIInv == IInv /\ [Next]_vars => IInv'
<1> SUFFICES ASSUME IInv, [Next]_vars PROVE IInv'
    OBVIOUS
<1> USE DEF IInv
<1>1. CASE MainUIConnects
  <2>1. DownloadTypeOK' /\ UnderWay'
    BY <1>1 DEF MainUIConnects, Handles, DownloadTypeOK, UnderWay
  <2> QED BY <1>1, <2>1, ListUnchanged DEF MainUIConnects
<1>2. CASE MainUIGoes
  <2>1. \A id \in Ids : /\ Orphaned(downloads[id]) \in Progress \ Awaited
                        /\ Orphaned(downloads[id]) = "none" <=> downloads[id] = "none"
    BY DEF DownloadTypeOK, Orphaned, Progress, Awaited, Requested
  <2>2. DownloadTypeOK' /\ UnderWay'
    BY <1>2, <2>1 DEF MainUIGoes, Handles, DownloadTypeOK, UnderWay
  <2> QED BY <1>2, <2>2, ListUnchanged DEF MainUIGoes
<1>3. ASSUME NEW id \in Ids, DownloadRefused(id) PROVE IInv'
  <2>1. DownloadTypeOK' /\ UnderWay'
    BY <1>3 DEF DownloadRefused, Handles, DownloadTypeOK, UnderWay
  <2> QED BY <1>3, <2>1, ListUnchanged DEF DownloadRefused
<1>4. ASSUME NEW id \in Ids, DownloadNotAdded(id) PROVE IInv'
  <2>1. PICK left \in PartlyAdded : Leaves(id, left)
    BY <1>4 DEF DownloadNotAdded
  <2>2. left \in Dir /\ (~left.exists => left = NoDir)
    BY PartlyAddedFacts
  <2>3. apps[id] = "absent" /\ downloads[id] = "none"
    BY <1>4 DEF DownloadNotAdded, Refused, UnderWay, AddedState
  <2>4. DownloadTypeOK'
    BY <1>4, <2>1, <2>2 DEF DownloadNotAdded, Handles, Leaves, DownloadTypeOK
  <2>5. UnderWay' /\ ValidIsComplete' /\ RestartFindsTheSame'
    BY <1>4, <2>1, <2>2, <2>3, NoDirFacts
    DEF DownloadNotAdded, Leaves, DownloadTypeOK, UnderWay, ValidIsComplete, RestartFindsTheSame
  <2> QED BY <2>4, <2>5
<1>5. ASSUME NEW id \in Ids, DownloadRequested(id) PROVE IInv'
  <2>1. PICK dir \in Written(NewDir, "downloading") :
        IF dir.config = "unreadable"
        THEN /\ crashed' = TRUE
             /\ Leaves(id, dir)
             /\ UNCHANGED <<apps, downloads>>
        ELSE /\ apps' = [apps EXCEPT ![id] = ReadApplication(dir)]
             /\ dirs' = [dirs EXCEPT ![id] = dir]
             /\ downloads' = [downloads EXCEPT ![id] = "requested"]
             /\ UNCHANGED <<crashed, littered>>
    BY <1>5 DEF DownloadRequested
  <2>2. /\ mainUI /\ mainUI' = mainUI /\ reply' = NoReply /\ ~crashed
        /\ apps[id] = "absent" /\ downloads[id] = "none"
    BY <1>5 DEF DownloadRequested, Handles, Refused, UnderWay, AddedState
  <2>3. dir \in Dir /\ dir.exists /\ ReadApplication(dir) = dir.state
    BY NewDirFacts, WrittenFacts
  <2>4. CASE dir.config = "unreadable"
    <3>1. Leaves(id, dir) /\ crashed' = TRUE /\ UNCHANGED <<apps, downloads>>
      BY <2>1, <2>4
    <3>2. dirs' = [dirs EXCEPT ![id] = dir] /\ littered' = littered \cup {id}
      BY <2>3, <3>1 DEF Leaves
    <3>3. downloads' = [downloads EXCEPT ![id] = "none"]
      BY <2>2, <3>1 DEF DownloadTypeOK
    <3> QED BY <2>2, <2>3, <3>1, <3>2, <3>3, StopStep
  <2>5. CASE dir.config # "unreadable"
    <3>1. dir.state \in AddedState /\ Added(dir, dir.state)
      BY <2>5, AddedFacts
    <3>2. /\ apps' = [apps EXCEPT ![id] = dir.state]
          /\ dirs' = [dirs EXCEPT ![id] = dir]
          /\ downloads' = [downloads EXCEPT ![id] = "requested"]
          /\ UNCHANGED <<crashed, littered>>
      BY <2>1, <2>3, <2>5
    <3>3. DownloadTypeOK'
      BY <2>2, <2>3, <3>1, <3>2 DEF DownloadTypeOK, Progress, AddedState
    <3>4. UnderWay'
      BY <2>2, <3>1, <3>2 DEF UnderWay, DownloadTypeOK
    <3>5. ValidIsComplete' /\ RestartFindsTheSame'
      BY <2>2, <2>3, <3>1, <3>2
      DEF ValidIsComplete, RestartFindsTheSame, DownloadTypeOK, AddedState
    <3> QED BY <3>3, <3>4, <3>5
  <2> QED BY <2>4, <2>5
<1>6. ASSUME NEW id \in Ids, RequestFails(id) PROVE IInv'
  BY <1>6, DeleteStep DEF RequestFails, Handles
<1>7. ASSUME NEW id \in Ids, RequestExecuted(id) \/ RequestOk(id) PROVE IInv'
  <2>1. DownloadTypeOK' /\ UnderWay'
    BY <1>7
    DEF RequestExecuted, RequestOk, Handles, DownloadTypeOK, UnderWay, Progress, Awaited, Requested
  <2> QED BY <1>7, <2>1, ListUnchanged DEF RequestExecuted, RequestOk
<1>8. ASSUME NEW id \in Ids, CancelledRequestEnds(id) PROVE IInv'
  <2>1. DownloadTypeOK' /\ UnderWay'
    BY <1>8, NotAwaited DEF CancelledRequestEnds, Handles, DownloadTypeOK, UnderWay, Progress
  <2> QED BY <1>8, <2>1, ListUnchanged DEF CancelledRequestEnds
<1>9. ASSUME NEW id \in Ids, UnzipFails(id) PROVE IInv'
  BY <1>9, DeleteStep DEF UnzipFails, Handles
<1>10. ASSUME NEW id \in Ids, UnzipOk(id) PROVE IInv'
  <2>1. apps[id] \in AddedState /\ Added(dirs[id], apps[id])
    BY <1>10 DEF UnzipOk, UnderWay
  <2>2. PICK unpacked \in Unpacked(dirs[id]) :
            \E dir \in IF unpacked.config = "unreadable"
                      THEN {unpacked} ELSE Written(unpacked, "valid") :
                /\ dirs' = [dirs EXCEPT ![id] = dir]
                /\ IF dir.config = "unreadable"
                   THEN crashed' = TRUE /\ reply' = NoReply /\ UNCHANGED apps
                   ELSE /\ reply' = <<id, "ok">>
                        /\ apps' = [apps EXCEPT ![id] = ReadApplication(dir)]
                        /\ UNCHANGED crashed
    BY <1>10 DEF UnzipOk
  <2>3. PICK dir \in IF unpacked.config = "unreadable"
                    THEN {unpacked} ELSE Written(unpacked, "valid") :
                /\ dirs' = [dirs EXCEPT ![id] = dir]
                /\ IF dir.config = "unreadable"
                   THEN crashed' = TRUE /\ reply' = NoReply /\ UNCHANGED apps
                   ELSE /\ reply' = <<id, "ok">>
                        /\ apps' = [apps EXCEPT ![id] = ReadApplication(dir)]
                        /\ UNCHANGED crashed
    BY <2>2
  <2>4. /\ ~crashed
        /\ downloads' = [downloads EXCEPT ![id] = "none"]
        /\ UNCHANGED <<mainUI, littered>>
    BY <1>10 DEF UnzipOk
  <2>5. unpacked \in Dir /\ unpacked.exists /\ unpacked.content = "complete"
    BY <2>1, <2>2, UnpackedFacts
  <2>6. dir \in Dir /\ dir.exists /\ dir.content = "complete"
    BY <2>3, <2>5, WrittenFacts
  <2>7. CASE dir.config = "unreadable"
    BY <2>3, <2>4, <2>6, <2>7, StopStep
  <2>8. CASE dir.config # "unreadable"
    <3>1. ReadApplication(dir) \in {"valid", "invalid"}
      BY <2>3, <2>5, <2>8, WrittenFacts
    <3>2. /\ reply' = <<id, "ok">>
          /\ dirs' = [dirs EXCEPT ![id] = dir]
          /\ apps' = [apps EXCEPT ![id] = ReadApplication(dir)]
          /\ UNCHANGED crashed
      BY <2>3, <2>8
    <3>3. DownloadTypeOK'
      BY <2>4, <2>6, <3>1, <3>2 DEF DownloadTypeOK, Progress
    <3>4. UnderWay'
      BY <2>4, <3>2, NotAwaited DEF UnderWay, DownloadTypeOK
    <3>5. ValidIsComplete' /\ RestartFindsTheSame'
      BY <2>4, <2>6, <3>2 DEF ValidIsComplete, RestartFindsTheSame, DownloadTypeOK
    <3> QED BY <3>3, <3>4, <3>5
  <2> QED BY <2>7, <2>8
<1>11. ASSUME NEW id \in Ids, AbandonedUnzipEnds(id) PROVE IInv'
  <2>1. apps[id] \in AddedState /\ Added(dirs[id], apps[id])
    BY <1>11 DEF AbandonedUnzipEnds, UnderWay
  <2>2. PICK dir \in PartlyUnpacked(dirs[id]) : dirs' = [dirs EXCEPT ![id] = dir]
    BY <1>11 DEF AbandonedUnzipEnds
  <2>3. dir \in Dir /\ dir.exists /\ ReadApplication(dir) = apps[id] /\ apps[id] # "valid"
    BY <2>1, <2>2, PartlyUnpackedFacts DEF AddedState
  <2>4. DownloadTypeOK'
    BY <1>11, <2>2, <2>3 DEF AbandonedUnzipEnds, Handles, DownloadTypeOK, Progress
  <2>5. UnderWay'
    BY <1>11, <2>2, NotAwaited DEF AbandonedUnzipEnds, DownloadTypeOK, UnderWay
  <2>6. ValidIsComplete' /\ RestartFindsTheSame'
    BY <1>11, <2>2, <2>3
    DEF AbandonedUnzipEnds, DownloadTypeOK, ValidIsComplete, RestartFindsTheSame
  <2> QED BY <2>4, <2>5, <2>6
<1>14. ASSUME NEW id \in Ids, StopsInHandler(id) PROVE IInv'
  <2>1. crashed' = TRUE /\ reply' = NoReply /\ UNCHANGED <<mainUI, apps>>
    BY <1>14 DEF StopsInHandler, Handles
  <2>2. CASE StopsInAdd(id)
    <3>1. PICK left \in PartlyAdded : Leaves(id, left)
      BY <2>2 DEF StopsInAdd
    <3>2. apps[id] = "absent" /\ downloads[id] = "none"
      BY <2>2 DEF StopsInAdd, Refused, UnderWay, AddedState
    <3>3. downloads' = [downloads EXCEPT ![id] = "none"]
      BY <2>2, <3>2 DEF StopsInAdd, DownloadTypeOK
    <3>4. left \in Dir /\ (~left.exists => left = NoDir)
      BY PartlyAddedFacts
    <3> QED BY <2>1, <3>1, <3>2, <3>3, <3>4, StopStep DEF Leaves
  <2>3. CASE StopsInDelete(id)
    <3>1. PICK left \in Dir : left.exists /\ Leaves(id, left)
      BY <2>3 DEF StopsInDelete, PartlyDeleted
    <3>2. left \in Dir /\ left.exists
      BY <3>1
    <3>3. downloads' = [downloads EXCEPT ![id] = "none"]
      BY <2>3 DEF StopsInDelete
    <3> QED BY <2>1, <3>1, <3>2, <3>3, StopStep DEF Leaves
  <2>4. CASE StopsInUpdate(id)
    <3>1. apps[id] \in AddedState /\ Added(dirs[id], apps[id])
      BY <2>4 DEF StopsInUpdate, UnderWay
    <3>2. PICK left \in PartlyUpdated(dirs[id]) : dirs' = [dirs EXCEPT ![id] = left]
      BY <2>4 DEF StopsInUpdate
    <3>3. left \in Dir /\ left.exists /\ left.content = "complete"
      BY <3>1, <3>2, PartlyUpdatedFacts
    <3>4. downloads' = [downloads EXCEPT ![id] = "none"] /\ littered' = littered
      BY <2>4 DEF StopsInUpdate
    <3> QED BY <2>1, <3>2, <3>3, <3>4, StopStep
  <2> QED BY <1>14, <2>2, <2>3, <2>4 DEF StopsInHandler
<1>12. CASE Restart
  <2>1. PICK found \in [Ids -> UNION {FoundAtRestart(id) : id \in Ids}] :
            /\ \A id \in Ids : found[id] \in FoundAtRestart(id)
            /\ dirs' = found
            /\ apps' = [id \in Ids |-> ReadApplication(found[id])]
            /\ crashed' = (\E id \in Ids : found[id].config = "unreadable")
    BY <1>12 DEF Restart
  <2>2. /\ mainUI' = FALSE
        /\ downloads' = [id \in Ids |-> "none"]
        /\ reply' = NoReply
        /\ UNCHANGED littered
    BY <1>12 DEF Restart
  <2>3. \A id \in Ids : \/ found[id] = dirs[id]
                        \/ /\ found[id] \in Dir /\ found[id].exists
                           /\ ReadApplication(found[id]) \in AddedState
    <3> SUFFICES ASSUME NEW id \in Ids, found[id] # dirs[id]
                 PROVE  /\ found[id] \in Dir /\ found[id].exists
                        /\ ReadApplication(found[id]) \in AddedState
        OBVIOUS
    <3>1. downloads[id] # "none" /\ found[id] \in PartlyUnpacked(dirs[id])
      BY <2>1 DEF FoundAtRestart
    <3>2. apps[id] \in AddedState /\ Added(dirs[id], apps[id])
      BY <3>1 DEF UnderWay
    <3> QED BY <3>1, <3>2, PartlyUnpackedFacts
  <2>10. found \in [Ids -> Dir]
    BY <2>1, <2>3 DEF DownloadTypeOK
  <2>4. \A id \in Ids : ReadApplication(found[id]) \in {"absent", "downloading", "valid", "invalid"}
    BY <2>10 DEF ReadApplication, Dir
  <2>5. crashed' \in BOOLEAN
    BY <2>1
  <2>6. DownloadTypeOK'
    BY <2>1, <2>2, <2>3, <2>4, <2>5, <2>10 DEF DownloadTypeOK, Progress
  <2>7. UnderWay'
    BY <2>2, NotAwaited DEF UnderWay
  <2>8. ValidIsComplete'
    BY <2>1, <2>2, <2>3 DEF ValidIsComplete, AddedState
  <2>9. RestartFindsTheSame'
    BY <2>1 DEF RestartFindsTheSame
  <2> QED BY <2>6, <2>7, <2>8, <2>9
<1>13. CASE UNCHANGED vars
  BY <1>13 DEF vars, DownloadTypeOK, UnderWay, ValidIsComplete, RestartFindsTheSame
<1> QED
  BY <1>1, <1>2, <1>3, <1>4, <1>5, <1>6, <1>7, <1>8, <1>9, <1>10, <1>11, <1>12, <1>13,
     <1>14 DEF Next

-----------------------------------------------------------------------------
(* The theorems.                                                           *)

\* The inductive invariant holds in every behaviour.
THEOREM IInvHolds == Spec => []IInv
BY InitIInv, NextIInv, PTL DEF Spec

\* The type invariant, with its part that a directory that is not there has no
\* files, for any set of applications.
THEOREM TypeCorrect == Spec => []DownloadTypeOK
<1>1. IInv => DownloadTypeOK
  BY DEF IInv
<1> QED BY <1>1, IInvHolds, PTL

\* The handlers of a download's answers find the application they look up, as
\* it was added and with its directory, and the channel they reply to.
THEOREM WaitingListed == Spec => []WaitingIsListed
<1>1. IInv => WaitingIsListed
  <2> SUFFICES ASSUME IInv, NEW id \in Ids, downloads[id] \in Awaited
               PROVE  /\ mainUI
                      /\ apps[id] \in {"downloading", "invalid"}
                      /\ dirs[id].config = "ok" /\ dirs[id].content = "none"
      BY DEF WaitingIsListed
  <2>1. downloads[id] # "none"
    BY DEF Awaited, Requested
  <2>2. mainUI /\ apps[id] \in AddedState /\ Added(dirs[id], apps[id])
    BY <2>1 DEF IInv, UnderWay
  <2> QED BY <2>2 DEF Added, AddedState
<1> QED BY <1>1, IInvHolds, PTL

\* Only an application whose package was unpacked completely is valid, in the
\* list and for the next start, whatever failed in its request, unzip or update
\* and wherever the console stopped in them; applications of which an add or a
\* delete, failed or cut short, left files are excepted.
THEOREM ValidComplete == Spec => []ValidIsComplete
<1>1. IInv => ValidIsComplete
  BY DEF IInv
<1> QED BY <1>1, IInvHolds, PTL

\* A restart between any two events finds each application as it is in the list.
THEOREM RestartSame == Spec => []RestartFindsTheSame
<1>1. IInv => RestartFindsTheSame
  BY DEF IInv
<1> QED BY <1>1, IInvHolds, PTL

=============================================================================
