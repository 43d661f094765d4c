--------------------------- MODULE ConsoleUIProofs ---------------------------
(***************************************************************************)
(* Proofs about the connections of applications and the screen, for any    *)
(* connections, applications and identification codes.                     *)
(*                                                                         *)
(* First the tables.  TablesAgree is not inductive: that a validated       *)
(* connection is listed needs that a connection whose gatekeeper waits is  *)
(* listed as long as its socket is open (GatekeptIsListed), and that it is *)
(* linked to some application needs that processes present codes that were *)
(* made for one.                                                           *)
(*                                                                         *)
(* Then the screen.  Nothing in the code says that there is one launch at  *)
(* a time: a process, its connection, its code and the timer that launches *)
(* again belong to four objects.  ScreenInv says it: only the controller   *)
(* whose launch the state of the machine waits for (Awaits) has a process  *)
(* that comes up, a timer or a pending connection, and only one of the     *)
(* three.  From it follow the links, the foreground and, with              *)
(* WaitAppLinkedOnce, that the players' channels follow the screen.        *)
(*                                                                         *)
(* All this lasts until a connection that a process made in place of a     *)
(* lost one is validated (readmitted): such a connection presents a code   *)
(* of a launch that is over.  ReconnectInv says that none was so far;      *)
(* UntilReadmitted is the invariant.                                       *)
(***************************************************************************)
EXTENDS ConsoleUI, TLAPS

AnyApplication == ApplicationIds \cup {NoApplication}

CodeMap == [Codes -> AnyApplication]

\* A controller, whatever the number of its rounds and timers.
AnyController == [
    app           : AnyApplication,
    process       : {"NotRunning", "Starting", "Running"},
    currentAction : {"NONE", "LAUNCHING", "STOPPING"},
    running       : BOOLEAN,
    waitRounds    : Nat,
    relaunchTimers: Nat,
    program       : AnyApplication,
    code          : Codes \cup {NoApplication},
    connection    : Connections \cup {NoConnection},
    lost          : BOOLEAN]

\* A process was started with a code.
HasCode(k) == k.process # "NotRunning" => k.code \in Codes

ControllersOK(ks) ==
    /\ ks \in [Controllers -> AnyController]
    /\ \A c \in Controllers : HasCode(ks[c])

GatekeptIsListed == openSockets \cap gatekeepers \subseteq connections

\* The tables of connections.
TablesInv ==
    /\ controlChannels \in [Connections -> {"NONE", "OPEN", "GONE"}]
    /\ connectionIdCount \in Nat
    /\ openSockets \subseteq Connections
    /\ connections \subseteq openSockets
    /\ gatekeepers \subseteq Connections
    /\ appIdByConnectionId \in [Connections -> AnyApplication]
    /\ presents \in [Connections -> {<<>>} \cup (Codes \X AnyApplication)]
    /\ \A conn \in gatekeepers : presents[conn] \in Codes \X AnyApplication
    /\ \A conn \in Connections : conn >= connectionIdCount =>
            conn \notin openSockets \cup gatekeepers /\ controlChannels[conn] = "NONE"
    /\ GatekeptIsListed
    /\ TablesAgree

UIInv ==
    /\ appIdByCode \in CodeMap
    /\ ControllersOK(controllers)

ConsoleInv == TablesInv /\ UIInv

-----------------------------------------------------------------------------
(* The controllers and the registry's codes.                               *)

LEMMA StoppedOK ==
    ASSUME NEW ks, ControllersOK(ks), NEW c \in Controllers
    PROVE  ControllersOK(Stopped(ks, c))
BY DEF ControllersOK, Stopped, AnyController, HasCode

LEMMA EndedOK ==
    ASSUME NEW ks, ControllersOK(ks), NEW c \in Controllers
    PROVE  ControllersOK(Ended(ks, c))
BY DEF ControllersOK, Ended, ControllerOf, AnyController, HasCode, AnyApplication

LEMMA CodeCreatedOK ==
    ASSUME NEW codes \in CodeMap, NEW code \in Codes, NEW id \in AnyApplication
    PROVE  CodeCreated(codes, code, id) \in CodeMap
BY DEF CodeMap, CodeCreated

LEMMA WithControllerOK ==
    ASSUME NEW ks, ControllersOK(ks), NEW c \in Controllers,
           NEW k \in AnyController, HasCode(k)
    PROVE  ControllersOK([ks EXCEPT ![c] = k])
BY DEF ControllersOK

LEMMA LaunchesOK ==
    ASSUME NEW ks, ControllersOK(ks), NEW c \in Controllers, NEW codes \in CodeMap,
           NEW result \in Launches(ks, c, codes)
    PROVE  ControllersOK(result.controllers) /\ result.codes \in CodeMap
<1> DEFINE k == ks[c]
           delayed == [ks EXCEPT ![c].relaunchTimers = @ + 1, ![c].waitRounds = RoundsAfterDelay(k)]
           started(code) ==
                [ks EXCEPT ![c] = IF k.process = "NotRunning"
                    THEN [@ EXCEPT !.currentAction = "LAUNCHING", !.process = "Starting",
                                   !.program = k.app, !.code = code]
                    ELSE [@ EXCEPT !.currentAction = "LAUNCHING"]]
<1>1. k \in AnyController /\ HasCode(k) /\ k.app \in AnyApplication
  BY DEF ControllersOK, AnyController
<1>2. \/ result = LaunchResult(Stopped(ks, c), codes, TRUE)
      \/ result = LaunchResult(delayed, codes, FALSE)
      \/ result = LaunchResult(ks, codes, TRUE)
      \/ \E code \in Codes :
            result = LaunchResult(started(code), CodeCreated(codes, code, k.app), FALSE)
  BY DEF Launches
<1>3. ControllersOK(delayed)
  <2> DEFINE timed == [ks EXCEPT ![c].relaunchTimers = @ + 1]
  <2>1. ControllersOK(timed)
    BY DEF ControllersOK, AnyController, HasCode
  <2>2. RoundsAfterDelay(k) \in Nat
    BY <1>1 DEF AnyController, RoundsAfterDelay
  <2>3. delayed = [timed EXCEPT ![c].waitRounds = RoundsAfterDelay(k)]
    OBVIOUS
  <2> HIDE DEF timed, k
  <2>4. ControllersOK([timed EXCEPT ![c].waitRounds = RoundsAfterDelay(k)])
    BY <2>1, <2>2 DEF ControllersOK, AnyController, HasCode
  <2> QED
    BY <2>3, <2>4
<1>4. ASSUME NEW code \in Codes
      PROVE  ControllersOK(started(code)) /\ CodeCreated(codes, code, k.app) \in CodeMap
  <2> DEFINE k1 == [k EXCEPT !.currentAction = "LAUNCHING"]
             k2 == [k1 EXCEPT !.process = "Starting"]
             k3 == [k2 EXCEPT !.program = k.app]
             k4 == [k3 EXCEPT !.code = code]
  <2>1. k1 \in AnyController /\ HasCode(k1)
    <3> HIDE DEF k
    <3> QED
      BY <1>1 DEF AnyController, HasCode
  <2>2. k2 \in AnyController
    <3> HIDE DEF k1
    <3> QED
      BY <2>1 DEF AnyController
  <2>3. k3 \in AnyController
    <3> HIDE DEF k2, k
    <3> QED
      BY <1>1, <2>2 DEF AnyController
  <2>4. k4 \in AnyController /\ HasCode(k4)
    <3> HIDE DEF k3
    <3> QED
      BY <2>3 DEF AnyController, HasCode
  <2>5. started(code) = [ks EXCEPT ![c] = IF k.process = "NotRunning" THEN k4 ELSE k1]
    OBVIOUS
  <2>6. ControllersOK([ks EXCEPT ![c] = IF k.process = "NotRunning" THEN k4 ELSE k1])
    <3> HIDE DEF k1, k4
    <3> QED
      BY <2>1, <2>4, WithControllerOK
  <2> QED
    BY <1>1, <2>5, <2>6, CodeCreatedOK
<1> HIDE DEF delayed, started, k
<1> QED
  BY <1>1, <1>2, <1>3, <1>4, StoppedOK DEF LaunchResult

\* Whatever the state machine enters leaves controllers and codes in order.
LEMMA EnterLaunchingMainUIOK ==
    ASSUME NEW ks, ControllersOK(ks), NEW codes \in CodeMap, EnterLaunchingMainUI(ks, codes)
    PROVE  UIInv'
BY LaunchesOK DEF EnterLaunchingMainUI, UIInv, Controllers

LEMMA EnterLaunchingAppOK ==
    ASSUME NEW ks, ControllersOK(ks), appIdByCode \in CodeMap, EnterLaunchingApp(ks)
    PROVE  UIInv'
<1>1. ControllersOK(Stopped(ks, "mainui"))
  BY StoppedOK DEF Controllers
<1>2. PICK result \in Launches(Stopped(ks, "mainui"), "currentApp", appIdByCode) :
        IF result.failed
        THEN EnterLaunchingMainUI(result.controllers, result.codes)
        ELSE controllers' = result.controllers /\ appIdByCode' = result.codes
  BY DEF EnterLaunchingApp
<1>3. ControllersOK(result.controllers) /\ result.codes \in CodeMap
  BY <1>1, <1>2, LaunchesOK DEF Controllers
<1> QED
  BY <1>2, <1>3, EnterLaunchingMainUIOK DEF UIInv

LEMMA LeaveAppOK ==
    ASSUME NEW ks, ControllersOK(ks), appIdByCode \in CodeMap, LeaveApp(ks)
    PROVE  UIInv'
BY StoppedOK, EnterLaunchingMainUIOK DEF LeaveApp, Controllers

LEMMA OnAppLaunchFailedOK ==
    ASSUME NEW ks, ControllersOK(ks), appIdByCode \in CodeMap, OnAppLaunchFailed(ks)
    PROVE  UIInv'
BY EnterLaunchingMainUIOK DEF OnAppLaunchFailed, UIInv

LEMMA AppTakenOK ==
    ASSUME NEW ks, ControllersOK(ks), NEW id \in AnyApplication
    PROVE  ControllersOK(AppTaken(ks, id))
<1>1. ControllersOK(Stopped(ks, "currentApp"))
  BY StoppedOK DEF Controllers
<1> QED
  BY <1>1 DEF AppTaken, ControllersOK, AnyController, HasCode, Controllers

LEMMA CodeConsumedOK ==
    ASSUME TablesInv, appIdByCode \in CodeMap, NEW conn \in Connections
    PROVE  CodeConsumed(conn) \in CodeMap
BY DEF CodeConsumed, CodeMap, AnyApplication

-----------------------------------------------------------------------------
(* The tables of connections.                                              *)

TablesKept ==
    UNCHANGED <<controlChannels, tcpVars, gatekeepers, appIdByConnectionId, presents,
                reconnections>>

LEMMA KeptTables == TablesInv /\ TablesKept => TablesInv'
BY DEF TablesKept, TablesInv, TablesAgree, GatekeptIsListed, tcpVars

\* Resuming the wait application may switch the players' channels, but opens and
\* closes no control channel.
LEMMA ResumesWaitAppKeepsChannels == ResumesWaitApp => UNCHANGED controlChannels
BY DEF ResumesWaitApp, ActivatesWaitApp, ActivateConnection, Activation, Ignored

LEMMA InitTables == ConsoleInit => TablesInv
<1> SUFFICES ASSUME ConsoleInit PROVE TablesInv
  OBVIOUS
<1> USE ConnectionsAssumption DEF ConsoleInit, ConnectionInit, Init
<1>1. GatekeptIsListed /\ TablesAgree
  BY DEF GatekeptIsListed, TablesAgree
<1> QED
  BY <1>1 DEF TablesInv, AnyApplication

LEMMA NewConnectionTables ==
    ASSUME TablesInv, NEW code \in Codes, NEW id \in AnyApplication, NewConnection(code, id)
    PROVE  TablesInv'
<1> USE ConnectionsAssumption
<1> DEFINE conn == connectionIdCount
<1>1. /\ conn \in Connections /\ conn \in Nat
      /\ conn \notin openSockets \cup gatekeepers /\ controlChannels[conn] = "NONE"
  BY DEF TablesInv, NewConnection
<1>2. UNCHANGED <<controlChannels, appIdByConnectionId>>
  BY DEF NewConnection, Ignored, registryVars
<1>3. /\ connectionIdCount' = conn + 1
      /\ openSockets' = openSockets \cup {conn}
      /\ connections' = connections \cup {conn}
      /\ gatekeepers' = gatekeepers \cup {conn}
      /\ presents' = [presents EXCEPT ![conn] = <<code, id>>]
  BY DEF NewConnection, NextConnectionId
<1> HIDE DEF conn
<1>4. presents' \in [Connections -> {<<>>} \cup (Codes \X AnyApplication)]
  BY <1>1, <1>3 DEF TablesInv
<1>5. \A c \in gatekeepers' : presents'[c] \in Codes \X AnyApplication
  BY <1>1, <1>3 DEF TablesInv
<1>6. \A c \in Connections : c >= connectionIdCount' =>
            c \notin openSockets' \cup gatekeepers' /\ controlChannels'[c] = "NONE"
  <2> SUFFICES ASSUME NEW c \in Connections, c >= conn + 1
               PROVE  c \notin openSockets' \cup gatekeepers' /\ controlChannels'[c] = "NONE"
    BY <1>3
  <2>1. c \in Nat /\ c # conn /\ c >= conn
    BY <1>1
  <2> QED
    BY <2>1, <1>2, <1>3 DEF TablesInv, conn
<1>7. GatekeptIsListed'
  BY <1>3 DEF TablesInv, GatekeptIsListed
<1>8. TablesAgree'
  <2> SUFFICES ASSUME NEW c \in Connections
               PROVE  /\ controlChannels[c] = "OPEN" <=> appIdByConnectionId[c] # NoApplication
                      /\ controlChannels[c] = "OPEN" => c \in connections' \ gatekeepers'
    BY <1>2 DEF TablesAgree
  <2> QED
    BY <1>1, <1>3 DEF TablesInv, TablesAgree
<1>9. connectionIdCount' \in Nat
  BY <1>1, <1>3
<1> QED
  BY <1>1, <1>2, <1>3, <1>4, <1>5, <1>6, <1>7, <1>8, <1>9 DEF TablesInv

LEMMA DiscardTables ==
    ASSUME TablesInv, NEW conn \in gatekeepers, Discard(conn)
    PROVE  TablesInv'
<1>1. UNCHANGED <<controlChannels, connectionIdCount, openSockets, appIdByConnectionId, presents>>
  BY DEF Discard, Ignored
<1>2. gatekeepers' = gatekeepers \ {conn} /\ connections' = connections \ {conn}
  BY DEF Discard
<1>3. controlChannels[conn] # "OPEN"
  BY DEF TablesInv, TablesAgree
<1>4. GatekeptIsListed' /\ TablesAgree'
  BY <1>1, <1>2, <1>3 DEF TablesInv, GatekeptIsListed, TablesAgree
<1> QED
  BY <1>1, <1>2, <1>4 DEF TablesInv

LEMMA ReplyValidatedTables ==
    ASSUME TablesInv, appIdByCode \in CodeMap, NEW conn \in Connections, ReplyValidated(conn)
    PROVE  TablesInv'
<1> DEFINE id == MatchedApplication(conn)
<1>1. conn \in openSockets /\ conn \in gatekeepers /\ id # NoApplication
  BY DEF ReplyValidated, CanReply
<1>2. presents[conn] \in Codes \X AnyApplication
  BY <1>1 DEF TablesInv
<1>3. id \in AnyApplication
  BY <1>2 DEF MatchedApplication, CodeMap
<1>4. conn \in connections
  BY <1>1 DEF TablesInv, GatekeptIsListed
<1>5. /\ UNCHANGED <<connectionIdCount, openSockets, connections, presents>>
      /\ gatekeepers' = gatekeepers \ {conn}
      /\ appIdByConnectionId' = [appIdByConnectionId EXCEPT ![conn] = id]
      /\ controlChannels' = [controlChannels EXCEPT ![conn] = "OPEN"]
  BY DEF ReplyValidated, ConnectionValidated, tcpVars
<1>6. ~(conn >= connectionIdCount)
  BY <1>1 DEF TablesInv
<1> HIDE DEF id
<1>7. GatekeptIsListed'
  BY <1>5 DEF TablesInv, GatekeptIsListed
<1>8. TablesAgree'
  BY <1>1, <1>4, <1>5 DEF TablesInv, TablesAgree
<1>9. /\ appIdByConnectionId' \in [Connections -> AnyApplication]
      /\ controlChannels' \in [Connections -> {"NONE", "OPEN", "GONE"}]
  BY <1>3, <1>5 DEF TablesInv
<1>10. \A c \in Connections : c >= connectionIdCount' =>
            c \notin openSockets' \cup gatekeepers' /\ controlChannels'[c] = "NONE"
  BY <1>5, <1>6 DEF TablesInv
<1> QED
  BY <1>5, <1>7, <1>8, <1>9, <1>10 DEF TablesInv

LEMMA SocketDisconnectsTables ==
    ASSUME TablesInv, NEW conn \in Connections, SocketDisconnects(conn)
    PROVE  TablesInv'
<1>1. /\ openSockets' = openSockets \ {conn}
      /\ connections' = connections \ {conn}
      /\ UNCHANGED <<connectionIdCount, gatekeepers, presents>>
  BY DEF SocketDisconnects
<1>2. GatekeptIsListed'
  BY <1>1 DEF TablesInv, GatekeptIsListed
<1>3. CASE conn \in connections
  <2>1. appIdByConnectionId' = [appIdByConnectionId EXCEPT ![conn] = NoApplication]
    BY <1>3 DEF SocketDisconnects
  <2>2. controlChannels' = IF controlChannels[conn] = "OPEN"
                           THEN [controlChannels EXCEPT ![conn] = "GONE"] ELSE controlChannels
    BY <1>3 DEF SocketDisconnects, ApplicationClosed, Ignored
  <2>3. TablesAgree'
    BY <1>1, <2>1, <2>2 DEF TablesInv, TablesAgree
  <2>4. /\ appIdByConnectionId' \in [Connections -> AnyApplication]
        /\ controlChannels' \in [Connections -> {"NONE", "OPEN", "GONE"}]
    BY <2>1, <2>2 DEF TablesInv, AnyApplication
  <2>5. \A c \in Connections : controlChannels[c] = "NONE" => controlChannels'[c] = "NONE"
    BY <2>2 DEF TablesInv
  <2> QED
    BY <1>1, <1>2, <2>3, <2>4, <2>5 DEF TablesInv
<1>4. CASE conn \notin connections
  <2>1. UNCHANGED <<controlChannels, appIdByConnectionId>>
    BY <1>4 DEF SocketDisconnects, Ignored
  <2>2. connections' = connections
    BY <1>1, <1>4
  <2>3. TablesAgree'
    BY <1>1, <2>1, <2>2 DEF TablesInv, TablesAgree
  <2> QED
    BY <1>1, <1>2, <2>1, <2>2, <2>3 DEF TablesInv
<1> QED
  BY <1>3, <1>4

-----------------------------------------------------------------------------
(* One lemma for each action.                                              *)

LEMMA InitInv == ConsoleInit => ConsoleInv
<1> SUFFICES ASSUME ConsoleInit PROVE UIInv
  BY InitTables DEF ConsoleInv
<1>1. appIdByCode \in CodeMap
  BY DEF ConsoleInit, ConnectionInit, CodeMap, AnyApplication
<1>2. ASSUME NEW id \in AnyApplication
      PROVE  ControllerOf(id) \in AnyController /\ HasCode(ControllerOf(id))
  BY DEF ControllerOf, AnyController, HasCode, AnyApplication
<1>3. \A c \in Controllers : (IF c = "currentApp" THEN NoApplication ELSE c) \in AnyApplication
  BY ApplicationsAssumption DEF Controllers, AnyApplication
<1>4. ControllersOK(controllers)
  BY <1>2, <1>3 DEF ConsoleInit, ControllersOK
<1> QED
  BY <1>1, <1>4 DEF UIInv

LEMMA StartInv == ConsoleInv /\ Start => ConsoleInv'
<1> SUFFICES ASSUME ConsoleInv, Start PROVE ConsoleInv'
  OBVIOUS
<1>1. TablesKept
  BY DEF Start, Ignored, TablesKept, reconnectVars
<1>2. UIInv'
  BY LaunchesOK DEF ConsoleInv, UIInv, Start, Controllers
<1> QED
  BY <1>1, <1>2, KeptTables DEF ConsoleInv

LEMMA ProcessStartsInv ==
    ASSUME ConsoleInv, NEW c \in Controllers, ProcessStarts(c)
    PROVE  ConsoleInv'
<1>1. TablesKept /\ UNCHANGED appIdByCode
  BY DEF ProcessStarts, Ignored, TablesKept, connectionVars, registryVars, reconnectVars
<1>2. ControllersOK(controllers')
  <2> DEFINE k  == controllers[c]
             k1 == [k EXCEPT !.process = "Running"]
             k2 == [k1 EXCEPT !.running = TRUE]
             k3 == [k2 EXCEPT !.currentAction = "NONE"]
  <2>1. k \in AnyController /\ k.code \in Codes
    BY DEF ConsoleInv, UIInv, ControllersOK, HasCode, ProcessStarts
  <2>2. k1 \in AnyController /\ k1.code \in Codes
    <3> HIDE DEF k
    <3> QED
      BY <2>1 DEF AnyController
  <2>3. k2 \in AnyController /\ k2.code \in Codes
    <3> HIDE DEF k1
    <3> QED
      BY <2>2 DEF AnyController
  <2>4. k3 \in AnyController /\ HasCode(k3)
    <3> HIDE DEF k2
    <3> QED
      BY <2>3 DEF AnyController, HasCode
  <2>5. controllers' = [controllers EXCEPT ![c] = k3]
    BY DEF ProcessStarts, ConsoleInv, UIInv, ControllersOK
  <2> HIDE DEF k3
  <2> QED
    BY <2>4, <2>5, WithControllerOK DEF ConsoleInv, UIInv
<1> QED
  BY <1>1, <1>2, KeptTables DEF ConsoleInv, UIInv

LEMMA ProcessFailsToStartInv ==
    ASSUME ConsoleInv, NEW c \in Controllers, ProcessFailsToStart(c)
    PROVE  ConsoleInv'
<1>1. TablesKept
  BY DEF ProcessFailsToStart, Ignored, TablesKept, reconnectVars
<1>2. ControllersOK(Ended(controllers, c))
  BY EndedOK DEF ConsoleInv, UIInv
<1>3. UIInv'
  BY <1>2, OnAppLaunchFailedOK DEF ConsoleInv, UIInv, ProcessFailsToStart
<1> QED
  BY <1>1, <1>3, KeptTables DEF ConsoleInv

LEMMA ProcessFinishesInv ==
    ASSUME ConsoleInv, NEW c \in Controllers, ProcessFinishes(c)
    PROVE  ConsoleInv'
<1>1. TablesKept
  BY ResumesWaitAppKeepsChannels DEF ProcessFinishes, LeaveApp, Ignored, TablesKept, reconnectVars
<1>2. ControllersOK(Ended(controllers, c))
  BY EndedOK DEF ConsoleInv, UIInv
<1>3. UIInv'
  BY <1>2, LeaveAppOK, OnAppLaunchFailedOK DEF ConsoleInv, UIInv, ProcessFinishes
<1> QED
  BY <1>1, <1>3, KeptTables DEF ConsoleInv

LEMMA RelaunchTimerFiresInv ==
    ASSUME ConsoleInv, NEW c \in Controllers, RelaunchTimerFires(c)
    PROVE  ConsoleInv'
<1> DEFINE ks == [controllers EXCEPT ![c].relaunchTimers = @ - 1]
<1>1. TablesKept
  BY DEF RelaunchTimerFires, Ignored, TablesKept, reconnectVars
<1>2. ControllersOK(ks)
  <2> DEFINE k == controllers[c]
             k1 == [k EXCEPT !.relaunchTimers = @ - 1]
  <2>1. k \in AnyController /\ HasCode(k) /\ k.relaunchTimers > 0
    BY DEF ConsoleInv, UIInv, ControllersOK, RelaunchTimerFires
  <2>2. k1 \in AnyController /\ HasCode(k1)
    <3> HIDE DEF k
    <3> QED
      BY <2>1 DEF AnyController, HasCode
  <2>3. ks = [controllers EXCEPT ![c] = k1]
    OBVIOUS
  <2> HIDE DEF k1
  <2> QED
    BY <2>2, <2>3, WithControllerOK DEF ConsoleInv, UIInv
<1>3. PICK result \in Launches(ks, c, appIdByCode) :
        IF c = "currentApp" /\ result.failed
        THEN OnAppLaunchFailed(result.controllers)
        ELSE controllers' = result.controllers /\ appIdByCode' = result.codes
  BY DEF RelaunchTimerFires
<1> HIDE DEF ks
<1>4. ControllersOK(result.controllers) /\ result.codes \in CodeMap
  BY <1>2, <1>3, LaunchesOK DEF ConsoleInv, UIInv
<1>5. UIInv'
  BY <1>3, <1>4, OnAppLaunchFailedOK DEF ConsoleInv, UIInv
<1> QED
  BY <1>1, <1>5, KeptTables DEF ConsoleInv

LEMMA ProcessConnectsInv ==
    ASSUME ConsoleInv, NEW c \in Controllers, ProcessConnects(c)
    PROVE  ConsoleInv'
<1>1. controllers[c] \in AnyController /\ controllers[c].code \in Codes
  BY DEF ConsoleInv, UIInv, ControllersOK, HasCode, ProcessConnects
<1>2. controllers[c].program \in AnyApplication
  BY <1>1 DEF AnyController
<1>3. TablesInv'
  BY <1>1, <1>2, NewConnectionTables DEF ConsoleInv, ProcessConnects
<1>4. ControllersOK(controllers')
  <2> DEFINE k == controllers[c]
             k1 == [k EXCEPT !.connection = connectionIdCount]
  <2>1. connectionIdCount \in Connections
    BY DEF ProcessConnects, NewConnection
  <2>2. k1 \in AnyController /\ HasCode(k1)
    <3> HIDE DEF k
    <3> SUFFICES k \in AnyController /\ HasCode(k)
      BY <2>1 DEF AnyController, HasCode
    <3> QED
      BY DEF k, ConsoleInv, UIInv, ControllersOK
  <2>3. controllers' = [controllers EXCEPT ![c] = k1]
    BY DEF ProcessConnects
  <2> HIDE DEF k1
  <2> QED
    BY <2>2, <2>3, WithControllerOK DEF ConsoleInv, UIInv
<1>5. UNCHANGED appIdByCode
  BY DEF ProcessConnects, NewConnection, registryVars
<1> QED
  BY <1>3, <1>4, <1>5 DEF ConsoleInv, UIInv

LEMMA ConnectionLostInv ==
    ASSUME ConsoleInv, NEW c \in Controllers, ConnectionLost(c)
    PROVE  ConsoleInv'
<1>1. TablesKept /\ UNCHANGED appIdByCode
  BY DEF ConnectionLost, Ignored, TablesKept, connectionVars, registryVars, reconnectVars
<1>2. ControllersOK(controllers')
  <2> DEFINE k  == controllers[c]
             k1 == [k EXCEPT !.connection = NoConnection]
             k2 == [k1 EXCEPT !.lost = TRUE]
  <2>1. k \in AnyController /\ HasCode(k)
    BY DEF ConsoleInv, UIInv, ControllersOK
  <2>2. k1 \in AnyController /\ HasCode(k1)
    <3> HIDE DEF k
    <3> QED
      BY <2>1 DEF AnyController, HasCode
  <2>3. k2 \in AnyController /\ HasCode(k2)
    <3> HIDE DEF k1
    <3> QED
      BY <2>2 DEF AnyController, HasCode
  <2>4. controllers' = [controllers EXCEPT ![c] = k2]
    BY DEF ConnectionLost, ConsoleInv, UIInv, ControllersOK
  <2> HIDE DEF k2
  <2> QED
    BY <2>3, <2>4, WithControllerOK DEF ConsoleInv, UIInv
<1> QED
  BY <1>1, <1>2, KeptTables DEF ConsoleInv, UIInv

LEMMA ProcessReconnectsInv ==
    ASSUME ConsoleInv, NEW c \in Controllers, ProcessReconnects(c)
    PROVE  ConsoleInv'
<1>1. controllers[c] \in AnyController /\ controllers[c].code \in Codes
  BY DEF ConsoleInv, UIInv, ControllersOK, HasCode, ProcessReconnects
<1>2. controllers[c].program \in AnyApplication
  BY <1>1 DEF AnyController
<1>3. TablesInv'
  BY <1>1, <1>2, NewConnectionTables DEF ConsoleInv, ProcessReconnects
<1>4. ControllersOK(controllers')
  <2> DEFINE k  == controllers[c]
             k1 == [k EXCEPT !.connection = connectionIdCount]
             k2 == [k1 EXCEPT !.lost = FALSE]
  <2>1. connectionIdCount \in Connections
    BY DEF ProcessReconnects, NewConnection
  <2>2. k \in AnyController /\ HasCode(k)
    BY DEF ConsoleInv, UIInv, ControllersOK
  <2>3. k1 \in AnyController /\ HasCode(k1)
    <3> HIDE DEF k
    <3> QED
      BY <2>1, <2>2 DEF AnyController, HasCode
  <2>4. k2 \in AnyController /\ HasCode(k2)
    <3> HIDE DEF k1
    <3> QED
      BY <2>3 DEF AnyController, HasCode
  <2>5. controllers' = [controllers EXCEPT ![c] = k2]
    BY DEF ProcessReconnects, ConsoleInv, UIInv, ControllersOK
  <2> HIDE DEF k2
  <2> QED
    BY <2>4, <2>5, WithControllerOK DEF ConsoleInv, UIInv
<1>5. UNCHANGED appIdByCode
  BY DEF ProcessReconnects, NewConnection, registryVars
<1> QED
  BY <1>3, <1>4, <1>5 DEF ConsoleInv, UIInv

LEMMA ValidatedInv ==
    ASSUME ConsoleInv, NEW conn \in Connections, Validated(conn)
    PROVE  ConsoleInv'
<1>1. TablesInv'
  BY ReplyValidatedTables DEF ConsoleInv, UIInv, Validated
<1>2. CodeConsumed(conn) \in CodeMap
  BY CodeConsumedOK DEF ConsoleInv, UIInv
<1>3. \/ EnterLaunchingMainUI(controllers, CodeConsumed(conn))
      \/ appIdByCode' = CodeConsumed(conn) /\ UNCHANGED controllers
  BY DEF Validated
<1>4. UIInv'
  BY <1>2, <1>3, EnterLaunchingMainUIOK DEF ConsoleInv, UIInv
<1> QED
  BY <1>1, <1>4 DEF ConsoleInv

LEMMA NotValidatedInv ==
    ASSUME ConsoleInv, NEW conn \in Connections, NotValidated(conn)
    PROVE  ConsoleInv'
<1>1. conn \in gatekeepers /\ Discard(conn) /\ UNCHANGED appIdByCode
  BY DEF NotValidated, ReplyDiscarded, CanReply, GateTimeout
<1>2. UNCHANGED controllers
  BY DEF NotValidated, uiVars
<1> QED
  BY <1>1, <1>2, DiscardTables DEF ConsoleInv, UIInv

LEMMA DisconnectedInv ==
    ASSUME ConsoleInv, NEW conn \in Connections, Disconnected(conn)
    PROVE  ConsoleInv'
<1>1. SocketDisconnects(conn) /\ UNCHANGED <<appIdByCode, controllers>>
  BY DEF Disconnected, SocketDisconnects, uiVars
<1> QED
  BY <1>1, SocketDisconnectsTables DEF ConsoleInv, UIInv

LEMMA LaunchApplicationInv ==
    ASSUME ConsoleInv, NEW conn \in Connections,
           NEW id \in Applications \cup {NoApplication}, LaunchApplication(conn, id)
    PROVE  ConsoleInv'
<1>1. TablesKept
  BY ResumesWaitAppKeepsChannels DEF LaunchApplication, Ignored, TablesKept, reconnectVars
<1>2. id \in AnyApplication
  BY ApplicationsAssumption DEF AnyApplication
<1>3. ControllersOK(AppTaken(controllers, id))
  BY <1>2, AppTakenOK DEF ConsoleInv, UIInv
<1>4. UIInv'
  BY <1>3, EnterLaunchingAppOK DEF ConsoleInv, UIInv, LaunchApplication
<1> QED
  BY <1>1, <1>4, KeptTables DEF ConsoleInv

LEMMA ExitApplicationInv ==
    ASSUME ConsoleInv, NEW conn \in Connections, ExitApplication(conn)
    PROVE  ConsoleInv'
<1>1. TablesKept
  BY ResumesWaitAppKeepsChannels DEF ExitApplication, LeaveApp, Ignored, TablesKept, reconnectVars
<1>2. UIInv'
  BY LeaveAppOK DEF ConsoleInv, UIInv, ExitApplication
<1> QED
  BY <1>1, <1>2, KeptTables DEF ConsoleInv

LEMMA StutterInv == ConsoleInv /\ UNCHANGED consoleVars => ConsoleInv'
<1> SUFFICES ASSUME ConsoleInv, UNCHANGED consoleVars PROVE ConsoleInv'
  OBVIOUS
<1>1. TablesKept
  BY DEF consoleVars, vars, connectionVars, registryVars, TablesKept, reconnectVars
<1>2. UNCHANGED <<appIdByCode, controllers>>
  BY DEF consoleVars, connectionVars, registryVars, uiVars
<1> QED
  BY <1>1, <1>2, KeptTables DEF ConsoleInv, UIInv

LEMMA NextInv == ConsoleInv /\ [ConsoleNext]_consoleVars => ConsoleInv'
<1> SUFFICES ASSUME ConsoleInv, ConsoleNext PROVE ConsoleInv'
  BY StutterInv
<1>1. CASE Start
  BY <1>1, StartInv
<1>2. ASSUME NEW c \in Controllers,
             \/ ProcessStarts(c) \/ ProcessFailsToStart(c) \/ ProcessFinishes(c)
             \/ RelaunchTimerFires(c) \/ ProcessConnects(c)
             \/ ConnectionLost(c) \/ ProcessReconnects(c)
      PROVE  ConsoleInv'
  BY <1>2, ProcessStartsInv, ProcessFailsToStartInv, ProcessFinishesInv,
     RelaunchTimerFiresInv, ProcessConnectsInv, ConnectionLostInv, ProcessReconnectsInv
<1>3. ASSUME NEW conn \in Connections,
             \/ Validated(conn) \/ NotValidated(conn) \/ Disconnected(conn)
             \/ \E id \in Applications \cup {NoApplication} : LaunchApplication(conn, id)
             \/ ExitApplication(conn)
      PROVE  ConsoleInv'
  BY <1>3, ValidatedInv, NotValidatedInv, DisconnectedInv, LaunchApplicationInv,
     ExitApplicationInv
<1> QED
  BY <1>1, <1>2, <1>3 DEF ConsoleNext

-----------------------------------------------------------------------------
\* The invariant holds of every behaviour of the screen and its connections.
THEOREM ConsoleInvariant == ConsoleSpec => []ConsoleInv
<1>1. ConsoleInit => ConsoleInv
  BY InitInv
<1>2. ConsoleInv /\ [ConsoleNext]_consoleVars => ConsoleInv'
  BY NextInv
<1> QED
  BY <1>1, <1>2, PTL DEF ConsoleSpec

\* The server's list, the gatekeepers, the registry's links and the control
\* channels describe the same connections, whichever callbacks come first and
\* however many connections there are.
THEOREM TablesAlwaysAgree == ConsoleSpec => []TablesAgree
<1>1. ConsoleInv => TablesAgree
  BY DEF ConsoleInv, TablesInv
<1> QED
  BY <1>1, ConsoleInvariant, PTL

-----------------------------------------------------------------------------
(* The screen: which launch it waits for, and what comes of it.            *)

\* The ids of the applications a controller may launch.
IdsOf(c) == IF c = "currentApp" THEN Applications ELSE {c}

\* The controller whose launch a state of the machine waits for.
Awaits(state, c) ==
    \/ state = "startup" /\ c = "waitapp"
    \/ state = "waitAppVisibleLaunchingMainUI" /\ c = "mainui"
    \/ state = "waitAppVisibleLaunchingApp" /\ c = "currentApp"

\* A process that has ended or been told to.
Background(k) == k.process = "NotRunning" \/ k.currentAction = "STOPPING"

\* A process that has not connected yet.
ComesUp(k) ==
    \/ k.process = "Starting"
    \/ k.process = "Running" /\ k.connection = NoConnection /\ ~k.lost

\* No launch of the controller is under way, as far as the controller knows.
Rests(k) == ~ComesUp(k) /\ k.relaunchTimers = 0

\* The fields of a controller agree.
Fits(c, k) ==
    /\ k.app \in IdsOf(c) \/ (c = "currentApp" /\ k.app = NoApplication)
    /\ k.process # "NotRunning" => k.program \in IdsOf(c)
    /\ k.connection # NoConnection => k.process = "Running"
    /\ k.lost => k.process = "Running" /\ k.connection = NoConnection
    /\ k.currentAction = "STOPPING" => k.process = "Running"
    /\ k.currentAction = "LAUNCHING" => k.process = "Starting"
    /\ k.waitRounds <= MaxWaitRounds

\* What the launch under way has come to: a process that will present the code
\* made for it, or a timer that will launch when the previous process has died.
LaunchesOnce(k, codes, idle) ==
    /\ ComesUp(k) => idle /\ k.relaunchTimers = 0 /\ codes[k.code] = k.program
    /\ k.relaunchTimers # 0 => idle /\ k.relaunchTimers = 1 /\ Background(k)

\* Which of the processes a state leaves in the background.
InBackground(state, c) ==
    \/ c = "mainui" /\ state \in {"off", "startup", "waitAppVisibleLaunchingApp", "appVisible"}
    \/ c = "currentApp" /\ state \in {"off", "startup", "waitAppVisibleLaunchingMainUI",
                                      "mainuiVisible"}
    \/ c = "waitapp" /\ state = "off"

\* The controllers ks of a state, when `idle` says that no connection waits for
\* its reply.
ScreenOK(state, ks, codes, idle) ==
    \A c \in Controllers :
        /\ Fits(c, ks[c])
        /\ ~Awaits(state, c) => Rests(ks[c])
        /\ LaunchesOnce(ks[c], codes, idle)
        /\ InBackground(state, c) => Background(ks[c])

\* First connections of processes that may still be validated.
Pending == (openSockets \cap gatekeepers) \ reconnections

\* A process is what its connection presents.
PresentsProgram(k) ==
    k.connection # NoConnection =>
        k.connection < connectionIdCount /\ presents[k.connection][2] = k.program

ConnectionsPresent == \A c \in Controllers : PresentsProgram(controllers[c])

\* Of the launch the state waits for, at most one connection is pending; its code
\* still stands for its application; and its process, if it lives, is the last one,
\* which may have lost the connection and made others since.
PendingIsAwaited ==
    \A conn \in Pending :
        /\ \A other \in Pending : other = conn
        /\ appIdByCode[presents[conn][1]] = presents[conn][2]
        /\ \E c \in Controllers :
            /\ Awaits(uiState, c)
            /\ presents[conn][2] \in IdsOf(c)
            /\ controllers[c].connection \in {conn, NoConnection} \cup reconnections

\* No connection that was made in place of a lost one is validated yet.
ReconnectInv ==
    /\ reconnections \subseteq Connections
    /\ readmitted \in BOOLEAN
    /\ \A conn \in reconnections :
            conn < connectionIdCount /\ controlChannels[conn] # "OPEN"

ScreenInv ==
    /\ uiState \in UIStates
    /\ ScreenOK(uiState, controllers, appIdByCode, Pending = {})
    /\ ConnectionsPresent
    /\ PendingIsAwaited
    /\ LinkedToItsApplication

LaunchInv == ConsoleInv /\ ReconnectInv /\ ScreenInv

\* From k to l a controller keeps its connection, and with one its process.
SameProcess(k, l) ==
    /\ l.connection = k.connection
    /\ k.connection # NoConnection => l.program = k.program /\ l.process = k.process

\* No controller's process is replaced, unless there was none.
Continues(ks, ls) == \A c \in Controllers : SameProcess(ks[c], ls[c])

\* No controller has a new connection.
LosesOnly(ks, ls) ==
    \A c \in Controllers : ls[c].connection \in {ks[c].connection, NoConnection}

\* Only the controller c changes.
OthersKept(ks, ls, c) == \A d \in Controllers : d # c => ls[d] = ks[d]

\* A launch that fails changes nothing.
FailsIdly(result, ks, codes) ==
    result.failed => result.controllers = ks /\ result.codes = codes

\* No launch at all is under way: what holds when another one begins.
Calm(ks) == \A c \in Controllers : Fits(c, ks[c]) /\ Rests(ks[c])

-----------------------------------------------------------------------------
(* What a launch does to controllers at rest.                              *)

LEMMA Apart ==
    /\ "waitapp" \notin Applications /\ "mainui" \notin Applications
    /\ NoApplication \notin Applications
    /\ NoApplication # "waitapp" /\ NoApplication # "mainui"
    /\ NoConnection \notin Connections
    /\ \A c \in Controllers : IdsOf(c) \subseteq ApplicationIds /\ NoApplication \notin IdsOf(c)
<1>1. NoConnection \notin Connections
  BY ConnectionsAssumption DEF NoConnection
<1> QED
  BY <1>1, ApplicationsAssumption, ApplicationIdsAssumption
     DEF Controllers, IdsOf, NoApplication

LEMMA StoppedFits ==
    ASSUME NEW ks, ControllersOK(ks), NEW c \in Controllers
    PROVE  /\ OthersKept(ks, Stopped(ks, c), c)
           /\ SameProcess(ks[c], Stopped(ks, c)[c])
           /\ Fits(c, ks[c]) => Fits(c, Stopped(ks, c)[c])
           /\ Rests(ks[c]) => Rests(Stopped(ks, c)[c])
           /\ ~ComesUp(ks[c]) => Background(Stopped(ks, c)[c])
           /\ Background(ks[c]) /\ Fits(c, ks[c]) => Stopped(ks, c) = ks
           /\ Stopped(ks, c)[c].relaunchTimers = ks[c].relaunchTimers
           /\ Stopped(ks, c)[c].app = ks[c].app
           /\ Stopped(ks, c)[c].process = ks[c].process
           /\ Stopped(ks, c)[c].code = ks[c].code
           /\ Stopped(ks, c)[c].program = ks[c].program
           /\ Stopped(ks, c)[c].lost = ks[c].lost
<1>1. CASE ks[c].process = "Running"
  <2> DEFINE k == ks[c]
             l == [k EXCEPT !.currentAction = "STOPPING"]
  <2>1. k \in AnyController
    BY DEF ControllersOK
  <2>2. Stopped(ks, c) = [ks EXCEPT ![c] = l]
    BY <1>1 DEF Stopped
  <2>3. /\ l.app = k.app /\ l.process = k.process /\ l.currentAction = "STOPPING"
        /\ l.running = k.running /\ l.waitRounds = k.waitRounds
        /\ l.relaunchTimers = k.relaunchTimers /\ l.program = k.program
        /\ l.code = k.code /\ l.connection = k.connection /\ l.lost = k.lost
    <3> HIDE DEF k
    <3> QED
      BY <2>1 DEF AnyController
  <2>4. k.currentAction = "STOPPING" => l = k
    <3> HIDE DEF k
    <3> QED
      BY <2>1 DEF AnyController
  <2>5. k.currentAction = "STOPPING" => Stopped(ks, c) = ks
    <3> HIDE DEF l
    <3> QED
      BY <2>2, <2>4 DEF ControllersOK, k
  <2>6. Stopped(ks, c)[c] = l /\ OthersKept(ks, Stopped(ks, c), c)
    BY <2>2 DEF ControllersOK, OthersKept
  <2> HIDE DEF l
  <2> QED
    BY <1>1, <2>3, <2>5, <2>6 DEF SameProcess, Fits, Rests, ComesUp, Background, k
<1>2. CASE ks[c].process # "Running"
  <2>1. Stopped(ks, c) = ks
    BY <1>2 DEF Stopped
  <2>2. ks[c].process \in {"NotRunning", "Starting", "Running"}
    BY DEF ControllersOK, AnyController
  <2> QED
    BY <1>2, <2>1, <2>2 DEF SameProcess, ComesUp, Background, OthersKept
<1> QED
  BY <1>1, <1>2

\* What a launch makes of a controller k at rest whose previous process is gone
\* or told to go: it fails, is delayed, or starts a process with a code made for it.
LEMMA LaunchFits ==
    ASSUME NEW ks, ControllersOK(ks), NEW c \in Controllers, NEW codes \in CodeMap,
           NEW result \in Launches(ks, c, codes),
           Fits(c, ks[c]), Rests(ks[c]), Background(ks[c])
    PROVE  /\ OthersKept(ks, result.controllers, c)
           /\ SameProcess(ks[c], result.controllers[c])
           /\ Fits(c, result.controllers[c])
           /\ LaunchesOnce(result.controllers[c], result.codes, TRUE)
           /\ FailsIdly(result, ks, codes)
<1> DEFINE k == ks[c]
           l == result.controllers[c]
<1>1. /\ k \in AnyController /\ HasCode(k) /\ k.app \in AnyApplication
      /\ k.waitRounds \in Nat /\ k.relaunchTimers = 0
  BY DEF ControllersOK, AnyController, Rests
<1>2. CASE result = LaunchResult(ks, codes, TRUE)
  <2>1. result.controllers = ks /\ result.codes = codes
    BY <1>2 DEF LaunchResult
  <2> QED
    BY <2>1 DEF SameProcess, LaunchesOnce, Rests, OthersKept, FailsIdly
<1>3. CASE result = LaunchResult(Stopped(ks, c), codes, TRUE)
  <2>1. result = LaunchResult(ks, codes, TRUE)
    BY <1>3, StoppedFits
  <2> QED
    BY <1>2, <2>1
<1>4. CASE /\ k.currentAction = "STOPPING" /\ k.waitRounds # MaxWaitRounds
           /\ result = LaunchResult([ks EXCEPT ![c].relaunchTimers = @ + 1,
                                               ![c].waitRounds = RoundsAfterDelay(k)], codes, FALSE)
  <2> DEFINE k1 == [k EXCEPT !.relaunchTimers = @ + 1]
             k2 == [k1 EXCEPT !.waitRounds = RoundsAfterDelay(k)]
  <2>1. /\ k1 \in AnyController
        /\ k1.app = k.app /\ k1.process = k.process /\ k1.currentAction = k.currentAction
        /\ k1.relaunchTimers = k.relaunchTimers + 1 /\ k1.program = k.program
        /\ k1.code = k.code /\ k1.connection = k.connection /\ k1.lost = k.lost
    <3> HIDE DEF k
    <3> QED
      BY <1>1 DEF AnyController
  <2>2. RoundsAfterDelay(k) = k.waitRounds + 1
    BY DEF RoundsAfterDelay
  <2>3. /\ k2.app = k1.app /\ k2.process = k1.process /\ k2.currentAction = k1.currentAction
        /\ k2.relaunchTimers = k1.relaunchTimers /\ k2.program = k1.program
        /\ k2.code = k1.code /\ k2.connection = k1.connection /\ k2.lost = k1.lost
        /\ k2.waitRounds = k.waitRounds + 1
    <3> HIDE DEF k, k1
    <3> QED
      BY <2>1, <2>2 DEF AnyController
  <2>4. result.controllers = [ks EXCEPT ![c] = k2] /\ result.codes = codes /\ ~result.failed
    BY <1>4 DEF LaunchResult
  <2> HIDE DEF k1, k2
  <2>5. l = k2 /\ OthersKept(ks, result.controllers, c)
    BY <2>4 DEF ControllersOK, OthersKept
  <2>6. k2.waitRounds <= MaxWaitRounds
    BY <1>1, <1>4, <2>3 DEF Fits, MaxWaitRounds
  <2>7. k2.relaunchTimers = 1
    BY <1>1, <2>1, <2>3
  <2> HIDE DEF l
  <2>8. Fits(c, l) /\ SameProcess(k, l)
    BY <2>1, <2>3, <2>5, <2>6 DEF Fits, SameProcess
  <2>9. ~ComesUp(l) /\ Background(l)
    BY <2>1, <2>3, <2>5 DEF Rests, ComesUp, Background
  <2> QED
    BY <2>4, <2>5, <2>7, <2>8, <2>9 DEF LaunchesOnce, FailsIdly, l
<1>5. ASSUME NEW code \in Codes, k.app # NoApplication, k.currentAction # "STOPPING",
             result = LaunchResult(
                [ks EXCEPT ![c] = IF k.process = "NotRunning"
                    THEN [@ EXCEPT !.currentAction = "LAUNCHING", !.process = "Starting",
                                   !.program = k.app, !.code = code]
                    ELSE [@ EXCEPT !.currentAction = "LAUNCHING"]],
                CodeCreated(codes, code, k.app), FALSE)
      PROVE  /\ OthersKept(ks, result.controllers, c)
             /\ SameProcess(k, l) /\ Fits(c, l) /\ LaunchesOnce(l, result.codes, TRUE)
             /\ ~result.failed
  <2> DEFINE k1 == [k EXCEPT !.currentAction = "LAUNCHING"]
             k2 == [k1 EXCEPT !.process = "Starting"]
             k3 == [k2 EXCEPT !.program = k.app]
             k4 == [k3 EXCEPT !.code = code]
  <2>1. k.process = "NotRunning"
    BY <1>5 DEF Background
  <2>2. /\ k1 \in AnyController
        /\ k1.app = k.app /\ k1.currentAction = "LAUNCHING" /\ k1.waitRounds = k.waitRounds
        /\ k1.relaunchTimers = k.relaunchTimers /\ k1.connection = k.connection
        /\ k1.lost = k.lost
    <3> HIDE DEF k
    <3> QED
      BY <1>1 DEF AnyController
  <2>3. /\ k2 \in AnyController
        /\ k2.app = k1.app /\ k2.currentAction = k1.currentAction /\ k2.process = "Starting"
        /\ k2.waitRounds = k1.waitRounds
        /\ k2.relaunchTimers = k1.relaunchTimers /\ k2.connection = k1.connection
        /\ k2.lost = k1.lost
    <3> HIDE DEF k1
    <3> QED
      BY <2>2 DEF AnyController
  <2>4. /\ k3 \in AnyController
        /\ k3.app = k2.app /\ k3.currentAction = k2.currentAction /\ k3.process = k2.process
        /\ k3.waitRounds = k2.waitRounds /\ k3.program = k.app
        /\ k3.relaunchTimers = k2.relaunchTimers /\ k3.connection = k2.connection
        /\ k3.lost = k2.lost
    <3> HIDE DEF k2, k
    <3> QED
      BY <1>1, <2>3 DEF AnyController
  <2>5. /\ k4.app = k3.app /\ k4.currentAction = k3.currentAction /\ k4.process = k3.process
        /\ k4.waitRounds = k3.waitRounds /\ k4.program = k3.program /\ k4.code = code
        /\ k4.relaunchTimers = k3.relaunchTimers /\ k4.connection = k3.connection
        /\ k4.lost = k3.lost
    <3> HIDE DEF k3
    <3> QED
      BY <2>4 DEF AnyController
  <2>6. /\ result.controllers = [ks EXCEPT ![c] = k4]
        /\ result.codes = CodeCreated(codes, code, k.app) /\ ~result.failed
    BY <1>5, <2>1 DEF LaunchResult
  <2> HIDE DEF k1, k2, k3, k4
  <2>7. l = k4 /\ OthersKept(ks, result.controllers, c)
    BY <2>6 DEF ControllersOK, OthersKept
  <2>8. result.codes[code] = k.app
    BY <2>6 DEF CodeCreated, CodeMap
  <2> HIDE DEF l
  <2>9. k.connection = NoConnection /\ ~k.lost
    BY <2>1 DEF Fits
  <2>10. k.app \in IdsOf(c)
    BY <1>5 DEF Fits
  <2>11. Fits(c, l) /\ SameProcess(k, l)
    BY <2>2, <2>3, <2>4, <2>5, <2>7, <2>9, <2>10 DEF Fits, SameProcess
  <2>12. LaunchesOnce(l, result.codes, TRUE)
    BY <1>1, <2>2, <2>3, <2>4, <2>5, <2>7, <2>8 DEF LaunchesOnce
  <2> QED
    BY <2>6, <2>7, <2>11, <2>12
<1>6. \/ result = LaunchResult(Stopped(ks, c), codes, TRUE)
      \/ /\ k.currentAction = "STOPPING" /\ k.waitRounds # MaxWaitRounds
         /\ result = LaunchResult([ks EXCEPT ![c].relaunchTimers = @ + 1,
                                             ![c].waitRounds = RoundsAfterDelay(k)], codes, FALSE)
      \/ result = LaunchResult(ks, codes, TRUE)
      \/ \E code \in Codes :
            /\ k.app # NoApplication /\ k.currentAction # "STOPPING"
            /\ result = LaunchResult(
                [ks EXCEPT ![c] = IF k.process = "NotRunning"
                    THEN [@ EXCEPT !.currentAction = "LAUNCHING", !.process = "Starting",
                                   !.program = k.app, !.code = code]
                    ELSE [@ EXCEPT !.currentAction = "LAUNCHING"]],
                CodeCreated(codes, code, k.app), FALSE)
  BY DEF Launches
<1>7. CASE \E code \in Codes :
            /\ k.app # NoApplication /\ k.currentAction # "STOPPING"
            /\ result = LaunchResult(
                [ks EXCEPT ![c] = IF k.process = "NotRunning"
                    THEN [@ EXCEPT !.currentAction = "LAUNCHING", !.process = "Starting",
                                   !.program = k.app, !.code = code]
                    ELSE [@ EXCEPT !.currentAction = "LAUNCHING"]],
                CodeCreated(codes, code, k.app), FALSE)
  BY <1>5, <1>7 DEF FailsIdly
<1> QED
  BY <1>2, <1>3, <1>4, <1>6, <1>7

\* So a state that is entered with all controllers at rest, and launches one of
\* them, is in order.
LEMMA AfterLaunch ==
    ASSUME NEW ks, ControllersOK(ks), Calm(ks), NEW c \in Controllers, NEW codes \in CodeMap,
           NEW result \in Launches(ks, c, codes), Background(ks[c]),
           NEW state \in UIStates, Awaits(state, c),
           \A d \in Controllers : InBackground(state, d) => Background(ks[d])
    PROVE  /\ ScreenOK(state, result.controllers, result.codes, TRUE)
           /\ Continues(ks, result.controllers)
<1>1. Fits(c, ks[c]) /\ Rests(ks[c])
  BY DEF Calm
<1>2. /\ OthersKept(ks, result.controllers, c)
      /\ SameProcess(ks[c], result.controllers[c])
      /\ Fits(c, result.controllers[c])
      /\ LaunchesOnce(result.controllers[c], result.codes, TRUE)
  BY <1>1, LaunchFits
<1>3. ~InBackground(state, c)
  BY DEF Awaits, InBackground
<1>4. \A d \in Controllers : Awaits(state, d) => d = c
  BY DEF Awaits
<1>5. ASSUME NEW d \in Controllers
      PROVE  /\ Fits(d, result.controllers[d])
             /\ ~Awaits(state, d) => Rests(result.controllers[d])
             /\ LaunchesOnce(result.controllers[d], result.codes, TRUE)
             /\ InBackground(state, d) => Background(result.controllers[d])
             /\ SameProcess(ks[d], result.controllers[d])
  <2>1. CASE d = c
    BY <1>2, <1>3, <2>1
  <2>2. CASE d # c
    BY <1>2, <1>4, <2>2 DEF Calm, Rests, LaunchesOnce, SameProcess, OthersKept
  <2> QED
    BY <2>1, <2>2
<1> QED
  BY <1>5 DEF ScreenOK, Continues

LEMMA SameProcessTwice ==
    ASSUME NEW k, NEW l, NEW m, SameProcess(k, l), SameProcess(l, m)
    PROVE  SameProcess(k, m)
BY DEF SameProcess

LEMMA ContinuesTwice ==
    ASSUME NEW ks, NEW ls, NEW ms, Continues(ks, ls), Continues(ls, ms)
    PROVE  Continues(ks, ms)
BY SameProcessTwice DEF Continues

\* Entering a state that launches: the conditions its predecessors fulfil.
LEMMA EnterLaunchingMainUIFits ==
    ASSUME NEW ks, ControllersOK(ks), Calm(ks), NEW codes \in CodeMap,
           Background(ks["mainui"]), Background(ks["currentApp"]),
           EnterLaunchingMainUI(ks, codes)
    PROVE  /\ uiState' = "waitAppVisibleLaunchingMainUI"
           /\ ScreenOK(uiState', controllers', appIdByCode', TRUE)
           /\ Continues(ks, controllers')
<1>1. PICK result \in Launches(ks, "mainui", codes) :
            controllers' = result.controllers /\ appIdByCode' = result.codes
  BY DEF EnterLaunchingMainUI
<1>2. uiState' = "waitAppVisibleLaunchingMainUI"
  BY DEF EnterLaunchingMainUI
<1>3. /\ "mainui" \in Controllers /\ uiState' \in UIStates /\ Awaits(uiState', "mainui")
      /\ \A d \in Controllers : InBackground(uiState', d) => Background(ks[d])
  BY <1>2 DEF Controllers, UIStates, Awaits, InBackground
<1>4. /\ ScreenOK(uiState', result.controllers, result.codes, TRUE)
      /\ Continues(ks, result.controllers)
  BY <1>3, AfterLaunch
<1> QED
  BY <1>1, <1>2, <1>4

LEMMA EnterLaunchingAppFits ==
    ASSUME NEW ks, ControllersOK(ks), Calm(ks), appIdByCode \in CodeMap,
           Background(ks["currentApp"]), EnterLaunchingApp(ks)
    PROVE  /\ uiState' \in {"waitAppVisibleLaunchingMainUI", "waitAppVisibleLaunchingApp"}
           /\ ScreenOK(uiState', controllers', appIdByCode', TRUE)
           /\ Continues(ks, controllers')
<1> DEFINE ls == Stopped(ks, "mainui")
<1> USE DEF Controllers
<1>1. OthersKept(ks, ls, "mainui") /\ ControllersOK(ls)
  BY StoppedFits, StoppedOK
<1>2. /\ SameProcess(ks["mainui"], ls["mainui"]) /\ Fits("mainui", ls["mainui"])
      /\ Rests(ls["mainui"]) /\ Background(ls["mainui"])
  BY StoppedFits DEF Calm, Rests
<1>3. Calm(ls) /\ Continues(ks, ls) /\ Background(ls["currentApp"])
  BY <1>1, <1>2 DEF Calm, Continues, OthersKept, SameProcess
<1>4. PICK result \in Launches(ls, "currentApp", appIdByCode) :
        IF result.failed
        THEN EnterLaunchingMainUI(result.controllers, result.codes)
        ELSE /\ uiState' = "waitAppVisibleLaunchingApp"
             /\ controllers' = result.controllers
             /\ appIdByCode' = result.codes
  BY DEF EnterLaunchingApp
<1> HIDE DEF ls
<1>5. CASE result.failed
  <2>1. Fits("currentApp", ls["currentApp"]) /\ Rests(ls["currentApp"])
    BY <1>3 DEF Calm
  <2>2. result \in Launches(ls, "currentApp", appIdByCode) /\ "currentApp" \in Controllers
    BY <1>4
  <2>3. FailsIdly(result, ls, appIdByCode)
    BY <1>1, <1>3, <2>1, <2>2, LaunchFits
  <2>4. result.controllers = ls /\ result.codes = appIdByCode
    BY <1>5, <2>3 DEF FailsIdly
  <2>5. EnterLaunchingMainUI(ls, appIdByCode)
    BY <1>4, <1>5, <2>4
  <2>6. /\ uiState' = "waitAppVisibleLaunchingMainUI"
        /\ ScreenOK(uiState', controllers', appIdByCode', TRUE)
        /\ Continues(ls, controllers')
    BY <1>1, <1>2, <1>3, <2>5, EnterLaunchingMainUIFits
  <2> QED
    BY <1>3, <2>6, ContinuesTwice
<1>6. CASE ~result.failed
  <2>1. /\ uiState' = "waitAppVisibleLaunchingApp"
        /\ controllers' = result.controllers /\ appIdByCode' = result.codes
    BY <1>4, <1>6
  <2>2. /\ uiState' \in UIStates /\ Awaits(uiState', "currentApp")
        /\ \A d \in Controllers : InBackground(uiState', d) => Background(ls[d])
    BY <1>2, <2>1 DEF UIStates, Awaits, InBackground
  <2>3. /\ ScreenOK(uiState', result.controllers, result.codes, TRUE)
        /\ Continues(ls, result.controllers)
    BY <1>1, <1>3, <1>4, <2>2, AfterLaunch
  <2> QED
    BY <1>3, <2>1, <2>3, ContinuesTwice
<1> QED
  BY <1>5, <1>6

LEMMA LeaveAppFits ==
    ASSUME NEW ks, ControllersOK(ks), Calm(ks), appIdByCode \in CodeMap,
           Background(ks["mainui"]), LeaveApp(ks)
    PROVE  /\ uiState' = "waitAppVisibleLaunchingMainUI"
           /\ ScreenOK(uiState', controllers', appIdByCode', TRUE)
           /\ Continues(ks, controllers')
<1> DEFINE ls == Stopped(ks, "currentApp")
<1> USE DEF Controllers
<1>1. OthersKept(ks, ls, "currentApp") /\ ControllersOK(ls)
  BY StoppedFits, StoppedOK
<1>2. /\ SameProcess(ks["currentApp"], ls["currentApp"]) /\ Fits("currentApp", ls["currentApp"])
      /\ Rests(ls["currentApp"]) /\ Background(ls["currentApp"])
  BY StoppedFits DEF Calm, Rests
<1>3. Calm(ls) /\ Continues(ks, ls) /\ Background(ls["mainui"])
  BY <1>1, <1>2 DEF Calm, Continues, OthersKept, SameProcess
<1>4. EnterLaunchingMainUI(ls, appIdByCode)
  BY DEF LeaveApp
<1> HIDE DEF ls
<1>5. /\ uiState' = "waitAppVisibleLaunchingMainUI"
      /\ ScreenOK(uiState', controllers', appIdByCode', TRUE)
      /\ Continues(ls, controllers')
  BY <1>1, <1>2, <1>3, <1>4, EnterLaunchingMainUIFits
<1> QED
  BY <1>3, <1>5, ContinuesTwice

LEMMA EndedFits ==
    ASSUME NEW ks, ControllersOK(ks), NEW c \in Controllers
    PROVE  /\ OthersKept(ks, Ended(ks, c), c)
           /\ Ended(ks, c)[c].process = "NotRunning"
           /\ Ended(ks, c)[c].connection = NoConnection
           /\ Ended(ks, c)[c].relaunchTimers = ks[c].relaunchTimers
           /\ ~ComesUp(Ended(ks, c)[c]) /\ Background(Ended(ks, c)[c])
           /\ Fits(c, ks[c]) => Fits(c, Ended(ks, c)[c])
<1> DEFINE k == ks[c]
           l == [ControllerOf(k.app) EXCEPT !.relaunchTimers = k.relaunchTimers]
<1>1. k \in AnyController
  BY DEF ControllersOK
<1>2. Ended(ks, c) = [ks EXCEPT ![c] = l]
  BY DEF Ended
<1>3. /\ l.app = k.app /\ l.process = "NotRunning" /\ l.currentAction = "NONE"
      /\ l.relaunchTimers = k.relaunchTimers /\ l.waitRounds = 0
      /\ l.connection = NoConnection /\ ~l.lost
  <2> HIDE DEF k
  <2> QED
    BY <1>1 DEF AnyController, ControllerOf
<1> HIDE DEF l
<1>4. Ended(ks, c)[c] = l /\ OthersKept(ks, Ended(ks, c), c)
  BY <1>2 DEF ControllersOK, OthersKept
<1>5. 0 <= MaxWaitRounds
  BY DEF MaxWaitRounds
<1>6. ~ComesUp(l) /\ Background(l) /\ (Fits(c, k) => Fits(c, l))
  BY <1>3, <1>5 DEF ComesUp, Background, Fits
<1> QED
  BY <1>3, <1>4, <1>6

LEMMA AppTakenFits ==
    ASSUME NEW ks, ControllersOK(ks), NEW id \in Applications \cup {NoApplication},
           NEW k, k = ks["currentApp"], NEW l, l = AppTaken(ks, id)["currentApp"]
    PROVE  /\ OthersKept(ks, AppTaken(ks, id), "currentApp")
           /\ SameProcess(k, l)
           /\ l.process = k.process /\ l.relaunchTimers = k.relaunchTimers
           /\ l.code = k.code /\ l.program = k.program /\ l.lost = k.lost
           /\ Fits("currentApp", k) => Fits("currentApp", l)
           /\ ~ComesUp(k) \/ (Background(k) /\ Fits("currentApp", k)) => Background(l)
<1> DEFINE ls == Stopped(ks, "currentApp")
           m == ls["currentApp"]
           m1 == [m EXCEPT !.app = id]
<1> USE DEF Controllers
<1>1. /\ OthersKept(ks, ls, "currentApp") /\ ControllersOK(ls)
      /\ SameProcess(k, m)
      /\ m.process = k.process /\ m.relaunchTimers = k.relaunchTimers
      /\ m.code = k.code /\ m.program = k.program /\ m.lost = k.lost
      /\ Fits("currentApp", k) => Fits("currentApp", m)
      /\ ~ComesUp(k) => Background(m)
      /\ Background(k) /\ Fits("currentApp", k) => m = k
  BY StoppedFits, StoppedOK
<1>2. m \in AnyController
  BY <1>1 DEF ControllersOK
<1>3. AppTaken(ks, id) = [ls EXCEPT !["currentApp"] = m1]
  BY DEF AppTaken
<1> HIDE DEF ls
<1>4. /\ m1.app = id /\ m1.process = m.process /\ m1.currentAction = m.currentAction
      /\ m1.waitRounds = m.waitRounds /\ m1.relaunchTimers = m.relaunchTimers
      /\ m1.program = m.program /\ m1.code = m.code /\ m1.connection = m.connection
      /\ m1.lost = m.lost
  <2> HIDE DEF m
  <2> QED
    BY <1>2 DEF AnyController
<1> HIDE DEF m1
<1>5. l = m1 /\ OthersKept(ks, AppTaken(ks, id), "currentApp")
  BY <1>1, <1>3 DEF ControllersOK, OthersKept
<1> HIDE DEF m
<1>6. SameProcess(k, l)
  BY <1>1, <1>4, <1>5 DEF SameProcess
<1>7. Fits("currentApp", k) => Fits("currentApp", l)
  BY <1>1, <1>4, <1>5 DEF Fits, IdsOf
<1>8. ~ComesUp(k) \/ (Background(k) /\ Fits("currentApp", k)) => Background(l)
  BY <1>1, <1>4, <1>5 DEF Background
<1> QED
  BY <1>1, <1>4, <1>5, <1>6, <1>7, <1>8

-----------------------------------------------------------------------------
(* Facts the actions share.                                                *)

\* Nothing is pending in a state that waits for no launch, or while a process
\* comes up or a timer runs.
LEMMA NothingPending ==
    ASSUME ScreenInv
    PROVE  /\ (\A c \in Controllers : ~Awaits(uiState, c)) => Pending = {} /\ Calm(controllers)
           /\ \A c \in Controllers : ~Rests(controllers[c]) => Pending = {} /\ Awaits(uiState, c)
BY DEF ScreenInv, ScreenOK, PendingIsAwaited, LaunchesOnce, Rests, Calm

LEMMA OneAwaited ==
    \A state, c, d : Awaits(state, c) /\ Awaits(state, d) => c = d
BY DEF Awaits

\* A controller that rests has nothing to answer for.
LEMMA RestsLaunchesOnce ==
    \A k, codes, idle : Rests(k) => LaunchesOnce(k, codes, idle)
BY DEF Rests, LaunchesOnce

\* Changing one controller.
LEMMA OneChanged ==
    ASSUME NEW state, NEW ks, NEW ls, NEW codes, NEW idle, NEW c \in Controllers,
           ScreenOK(state, ks, codes, idle), OthersKept(ks, ls, c),
           Fits(c, ls[c]), ~Awaits(state, c) => Rests(ls[c]),
           LaunchesOnce(ls[c], codes, idle),
           InBackground(state, c) => Background(ls[c])
    PROVE  ScreenOK(state, ls, codes, idle)
BY DEF ScreenOK, OthersKept

\* Fewer connections are pending.
LEMMA LessPending ==
    ASSUME NEW state, NEW ks, NEW codes, NEW idle, NEW idler,
           ScreenOK(state, ks, codes, idle), idle => idler
    PROVE  ScreenOK(state, ks, codes, idler)
BY DEF ScreenOK, LaunchesOnce

\* A launch has just begun, or failed: nothing is pending.
LEMMA Entered ==
    ASSUME ScreenOK(uiState', controllers', appIdByCode', TRUE), uiState' \in UIStates,
           Pending' = {}, UNCHANGED <<connectionIdCount, presents, reconnections>>,
           LinkedToItsApplication',
           NEW ks, Continues(ks, controllers'), \A c \in Controllers : PresentsProgram(ks[c]),
           LosesOnly(controllers, ks)
    PROVE  ScreenInv' /\ LosesOnly(controllers, controllers')
<1>1. ConnectionsPresent'
  BY DEF ConnectionsPresent, Continues, SameProcess, PresentsProgram
<1>2. PendingIsAwaited'
  BY DEF PendingIsAwaited
<1>3. ScreenOK(uiState', controllers', appIdByCode', (Pending = {})')
  BY LessPending
<1>4. LosesOnly(controllers, controllers')
  BY DEF LosesOnly, Continues, SameProcess
<1> QED
  BY <1>1, <1>2, <1>3, <1>4 DEF ScreenInv

\* The tables are kept.
LEMMA LinksKept ==
    ASSUME LinkedToItsApplication, TablesKept
    PROVE  /\ LinkedToItsApplication'
           /\ UNCHANGED <<connectionIdCount, presents, reconnections>>
           /\ Pending' = Pending
BY DEF LinkedToItsApplication, TablesKept, tcpVars, Pending

-----------------------------------------------------------------------------
(* The actions, once more for the screen.                                  *)

LEMMA InitScreen == ConsoleInit => ScreenInv
<1> SUFFICES ASSUME ConsoleInit PROVE ScreenInv
  OBVIOUS
<1>1. /\ uiState = "off" /\ openSockets = {} /\ gatekeepers = {}
      /\ \A conn \in Connections : appIdByConnectionId[conn] = NoApplication
      /\ \A c \in Controllers :
            controllers[c] = ControllerOf(IF c = "currentApp" THEN NoApplication ELSE c)
  BY DEF ConsoleInit, ConnectionInit
<1>2. Pending = {}
  BY <1>1 DEF Pending
<1>3. ASSUME NEW id
      PROVE  /\ ControllerOf(id).app = id /\ ControllerOf(id).process = "NotRunning"
             /\ ControllerOf(id).currentAction = "NONE" /\ ControllerOf(id).waitRounds = 0
             /\ ControllerOf(id).relaunchTimers = 0
             /\ ControllerOf(id).connection = NoConnection /\ ~ControllerOf(id).lost
  BY DEF ControllerOf
<1>4. ASSUME NEW c \in Controllers
      PROVE  /\ Fits(c, controllers[c]) /\ Rests(controllers[c]) /\ Background(controllers[c])
             /\ PresentsProgram(controllers[c])
  <2> DEFINE id == IF c = "currentApp" THEN NoApplication ELSE c
             k == ControllerOf(id)
  <2>1. controllers[c] = k
    BY <1>1
  <2>2. /\ k.app = id /\ k.process = "NotRunning" /\ k.currentAction = "NONE"
        /\ k.waitRounds = 0 /\ k.relaunchTimers = 0 /\ k.connection = NoConnection
        /\ ~k.lost
    BY <1>3
  <2>3. id \in IdsOf(c) \/ (c = "currentApp" /\ id = NoApplication)
    BY DEF IdsOf
  <2> HIDE DEF k, id
  <2> QED
    BY <2>1, <2>2, <2>3
       DEF Fits, Rests, ComesUp, Background, PresentsProgram, MaxWaitRounds
<1>5. ScreenOK(uiState, controllers, appIdByCode, Pending = {})
  BY <1>4, RestsLaunchesOnce DEF ScreenOK
<1>6. ConnectionsPresent /\ PendingIsAwaited /\ LinkedToItsApplication
  BY <1>1, <1>2, <1>4 DEF ConnectionsPresent, PendingIsAwaited, LinkedToItsApplication
<1> QED
  BY <1>1, <1>5, <1>6 DEF ScreenInv, UIStates

LEMMA StartScreen ==
    LaunchInv /\ Start => ScreenInv' /\ LosesOnly(controllers, controllers')
<1> SUFFICES ASSUME LaunchInv, Start PROVE ScreenInv' /\ LosesOnly(controllers, controllers')
  OBVIOUS
<1> USE DEF LaunchInv
<1>1. TablesKept /\ uiState = "off" /\ uiState' = "startup"
  BY DEF Start, Ignored, TablesKept, reconnectVars
<1>2. /\ \A c \in Controllers : ~Awaits(uiState, c)
      /\ \A c \in Controllers : InBackground(uiState', c) => InBackground(uiState, c)
      /\ InBackground(uiState, "waitapp") /\ "waitapp" \in Controllers
      /\ Awaits(uiState', "waitapp") /\ uiState' \in UIStates
  BY <1>1 DEF Awaits, InBackground, Controllers, UIStates
<1>3. Pending = {} /\ Calm(controllers)
  BY <1>2, NothingPending
<1>4. \A c \in Controllers : InBackground(uiState, c) => Background(controllers[c])
  BY DEF ScreenInv, ScreenOK
<1>5. PICK result \in Launches(controllers, "waitapp", appIdByCode) :
            controllers' = result.controllers /\ appIdByCode' = result.codes
  BY DEF Start
<1>6. /\ ScreenOK(uiState', result.controllers, result.codes, TRUE)
      /\ Continues(controllers, result.controllers)
  BY <1>2, <1>3, <1>4, AfterLaunch DEF ConsoleInv, UIInv
<1>7. /\ LinkedToItsApplication' /\ UNCHANGED <<connectionIdCount, presents, reconnections>>
      /\ Pending' = {}
  BY <1>1, <1>3, LinksKept DEF ScreenInv
<1>8. \A c \in Controllers : PresentsProgram(controllers[c])
  BY DEF ScreenInv, ConnectionsPresent
<1>9. LosesOnly(controllers, controllers)
  BY DEF LosesOnly
<1> QED
  BY <1>2, <1>5, <1>6, <1>7, <1>8, <1>9, Entered

LEMMA ProcessStartsScreen ==
    ASSUME LaunchInv, NEW c \in Controllers, ProcessStarts(c)
    PROVE  ScreenInv' /\ LosesOnly(controllers, controllers')
<1> DEFINE k  == controllers[c]
           k1 == [k EXCEPT !.process = "Running"]
           k2 == [k1 EXCEPT !.running = TRUE]
           k3 == [k2 EXCEPT !.currentAction = "NONE"]
<1>1. TablesKept /\ UNCHANGED <<appIdByCode, uiState>>
  BY DEF ProcessStarts, Ignored, TablesKept, connectionVars, registryVars, reconnectVars
<1>2. k \in AnyController /\ k.process = "Starting" /\ controllers' = [controllers EXCEPT ![c] = k3]
  BY DEF ProcessStarts, LaunchInv, ConsoleInv, UIInv, ControllersOK
<1>3. k1 \in AnyController /\ k1.app = k.app /\ k1.process = "Running"
      /\ k1.waitRounds = k.waitRounds /\ k1.relaunchTimers = k.relaunchTimers
      /\ k1.program = k.program /\ k1.code = k.code /\ k1.connection = k.connection
      /\ k1.lost = k.lost
  <2> HIDE DEF k
  <2> QED
    BY <1>2 DEF AnyController
<1>4. k2 \in AnyController /\ k2.app = k1.app /\ k2.process = k1.process
      /\ k2.waitRounds = k1.waitRounds /\ k2.relaunchTimers = k1.relaunchTimers
      /\ k2.program = k1.program /\ k2.code = k1.code /\ k2.connection = k1.connection
      /\ k2.lost = k1.lost
  <2> HIDE DEF k1
  <2> QED
    BY <1>3 DEF AnyController
<1>5. k3.app = k2.app /\ k3.process = k2.process /\ k3.currentAction = "NONE"
      /\ k3.waitRounds = k2.waitRounds /\ k3.relaunchTimers = k2.relaunchTimers
      /\ k3.program = k2.program /\ k3.code = k2.code /\ k3.connection = k2.connection
      /\ k3.lost = k2.lost
  <2> HIDE DEF k2
  <2> QED
    BY <1>4 DEF AnyController
<1> HIDE DEF k1, k2, k3
<1>6. controllers'[c] = k3 /\ OthersKept(controllers, controllers', c)
  BY <1>2 DEF OthersKept, LaunchInv, ConsoleInv, UIInv, ControllersOK
<1>7. /\ ScreenOK(uiState, controllers, appIdByCode, Pending = {})
      /\ Fits(c, k) /\ LaunchesOnce(k, appIdByCode, Pending = {})
      /\ ~Awaits(uiState, c) => Rests(k)
      /\ InBackground(uiState, c) => Background(k)
  BY DEF LaunchInv, ScreenInv, ScreenOK
<1> HIDE DEF k
<1>8. ComesUp(k) /\ k.connection = NoConnection /\ ~k.lost /\ ~Background(k)
  BY <1>2, <1>7 DEF ComesUp, Fits, Background
<1>9. Pending = {} /\ Awaits(uiState, c) /\ ~InBackground(uiState, c)
  BY <1>7, <1>8 DEF LaunchesOnce, Rests
<1>10. Fits(c, k3) /\ LaunchesOnce(k3, appIdByCode, Pending = {})
  BY <1>2, <1>3, <1>4, <1>5, <1>7, <1>8 DEF Fits, LaunchesOnce, ComesUp
<1>11. ScreenOK(uiState, controllers', appIdByCode, Pending = {})
  BY <1>6, <1>7, <1>9, <1>10, OneChanged
<1>12. /\ LinkedToItsApplication' /\ UNCHANGED <<connectionIdCount, presents, reconnections>>
       /\ Pending' = Pending
  BY <1>1, LinksKept DEF LaunchInv, ScreenInv
<1>13. ConnectionsPresent'
  BY <1>3, <1>4, <1>5, <1>6, <1>8, <1>12
     DEF LaunchInv, ScreenInv, ConnectionsPresent, PresentsProgram, OthersKept
<1>14. PendingIsAwaited'
  BY <1>9, <1>12 DEF PendingIsAwaited
<1>15. LosesOnly(controllers, controllers')
  BY <1>3, <1>4, <1>5, <1>6 DEF LosesOnly, OthersKept, k
<1> QED
  BY <1>1, <1>11, <1>12, <1>13, <1>14, <1>15 DEF LaunchInv, ScreenInv

LEMMA ProcessFailsToStartScreen ==
    ASSUME LaunchInv, NEW c \in Controllers, ProcessFailsToStart(c)
    PROVE  ScreenInv' /\ LosesOnly(controllers, controllers')
<1> DEFINE k == controllers[c]
           ks == Ended(controllers, c)
<1>1. TablesKept
  BY DEF ProcessFailsToStart, Ignored, TablesKept, reconnectVars
<1>2. /\ LinkedToItsApplication' /\ UNCHANGED <<connectionIdCount, presents, reconnections>>
      /\ Pending' = Pending
  BY <1>1, LinksKept DEF LaunchInv, ScreenInv
<1>3. /\ OthersKept(controllers, ks, c) /\ ControllersOK(ks)
      /\ ks[c].connection = NoConnection
      /\ ks[c].relaunchTimers = k.relaunchTimers
      /\ ~ComesUp(ks[c]) /\ Background(ks[c])
      /\ Fits(c, k) => Fits(c, ks[c])
  BY EndedFits, EndedOK DEF LaunchInv, ConsoleInv, UIInv
<1>4. k.process = "Starting"
  BY DEF ProcessFailsToStart
<1>5. /\ ScreenOK(uiState, controllers, appIdByCode, Pending = {})
      /\ Fits(c, k) /\ LaunchesOnce(k, appIdByCode, Pending = {})
      /\ ~Awaits(uiState, c) => Rests(k)
      /\ \A d \in Controllers : InBackground(uiState, d) => Background(controllers[d])
      /\ \A d \in Controllers : Fits(d, controllers[d])
      /\ \A d \in Controllers : ~Awaits(uiState, d) => Rests(controllers[d])
  BY DEF LaunchInv, ScreenInv, ScreenOK
<1> HIDE DEF ks
<1>6. ComesUp(k) /\ k.relaunchTimers = 0 /\ Pending = {} /\ Awaits(uiState, c)
  BY <1>4, <1>5 DEF ComesUp, LaunchesOnce, Rests
<1>7. Rests(ks[c]) /\ Fits(c, ks[c])
  BY <1>3, <1>5, <1>6 DEF Rests
<1>8. Calm(ks)
  BY <1>3, <1>5, <1>6, <1>7, OneAwaited DEF Calm, OthersKept
<1>9. \A d \in Controllers : PresentsProgram(ks[d])
  BY <1>3 DEF LaunchInv, ScreenInv, ConnectionsPresent, PresentsProgram, OthersKept
<1>10. LosesOnly(controllers, ks)
  BY <1>3 DEF LosesOnly, OthersKept
<1>11. CASE c = "currentApp"
  <2>1. uiState = "waitAppVisibleLaunchingApp"
    BY <1>6, <1>11 DEF Awaits
  <2>2. EnterLaunchingMainUI(ks, appIdByCode)
    BY <1>11, <2>1 DEF ProcessFailsToStart, OnAppLaunchFailed, ks
  <2>3. Background(ks["mainui"]) /\ Background(ks["currentApp"])
    BY <1>3, <1>5, <1>11, <2>1 DEF InBackground, OthersKept, Controllers
  <2>4. /\ uiState' = "waitAppVisibleLaunchingMainUI"
        /\ ScreenOK(uiState', controllers', appIdByCode', TRUE)
        /\ Continues(ks, controllers')
    BY <1>3, <1>8, <2>2, <2>3, EnterLaunchingMainUIFits DEF LaunchInv, ConsoleInv, UIInv
  <2>5. uiState' \in UIStates
    BY <2>4 DEF UIStates
  <2>6. Pending' = {}
    BY <1>2, <1>6
  <2> QED
    BY <1>2, <1>9, <1>10, <2>4, <2>5, <2>6, Entered
<1>12. CASE c # "currentApp"
  <2>1. controllers' = ks /\ UNCHANGED <<uiState, appIdByCode>>
    BY <1>12 DEF ProcessFailsToStart, ks
  <2>2. ScreenOK(uiState, ks, appIdByCode, Pending = {})
    BY <1>3, <1>5, <1>7, RestsLaunchesOnce, OneChanged
  <2>3. PendingIsAwaited'
    BY <1>2, <1>6 DEF PendingIsAwaited
  <2>4. ConnectionsPresent'
    BY <1>2, <1>9, <2>1 DEF ConnectionsPresent, PresentsProgram
  <2> QED
    BY <1>2, <1>10, <2>1, <2>2, <2>3, <2>4 DEF LaunchInv, ScreenInv
<1> QED
  BY <1>11, <1>12

LEMMA ProcessFinishesScreen ==
    ASSUME LaunchInv, NEW c \in Controllers, ProcessFinishes(c)
    PROVE  ScreenInv' /\ LosesOnly(controllers, controllers')
<1> DEFINE k == controllers[c]
           ks == Ended(controllers, c)
<1>1. TablesKept
  BY ResumesWaitAppKeepsChannels DEF ProcessFinishes, LeaveApp, Ignored, TablesKept, reconnectVars
<1>2. /\ LinkedToItsApplication' /\ UNCHANGED <<connectionIdCount, presents, reconnections>>
      /\ Pending' = Pending
  BY <1>1, LinksKept DEF LaunchInv, ScreenInv
<1>3. /\ OthersKept(controllers, ks, c) /\ ControllersOK(ks)
      /\ ks[c].process = "NotRunning" /\ ks[c].connection = NoConnection
      /\ ks[c].relaunchTimers = k.relaunchTimers
      /\ ~ComesUp(ks[c]) /\ Background(ks[c])
      /\ Fits(c, k) => Fits(c, ks[c])
  BY EndedFits, EndedOK DEF LaunchInv, ConsoleInv, UIInv
<1>4. /\ ScreenOK(uiState, controllers, appIdByCode, Pending = {})
      /\ Fits(c, k) /\ LaunchesOnce(k, appIdByCode, Pending = {})
      /\ ~Awaits(uiState, c) => Rests(k)
      /\ \A d \in Controllers : InBackground(uiState, d) => Background(controllers[d])
  BY DEF LaunchInv, ScreenInv, ScreenOK
<1> HIDE DEF ks
<1>5. /\ Fits(c, ks[c]) /\ LaunchesOnce(ks[c], appIdByCode, Pending = {})
      /\ ~Awaits(uiState, c) => Rests(ks[c])
  BY <1>3, <1>4 DEF LaunchesOnce, Rests
<1>6. ScreenOK(uiState, ks, appIdByCode, Pending = {})
  BY <1>3, <1>4, <1>5, OneChanged
<1>7. \A d \in Controllers : PresentsProgram(ks[d])
  BY <1>3 DEF LaunchInv, ScreenInv, ConnectionsPresent, PresentsProgram, OthersKept
<1>8. LosesOnly(controllers, ks)
  BY <1>3 DEF LosesOnly, OthersKept
<1>9. CASE c = "currentApp" /\ uiState = "appVisible" /\ LeaveApp(ks)
  <2>1. \A d \in Controllers : ~Awaits(uiState, d)
    BY <1>9 DEF Awaits
  <2>2. Calm(ks) /\ Pending = {}
    BY <1>6, <2>1, NothingPending DEF Calm, ScreenOK, LaunchInv
  <2>3. Background(ks["mainui"])
    BY <1>3, <1>4, <1>9 DEF InBackground, OthersKept, Controllers
  <2>4. /\ uiState' = "waitAppVisibleLaunchingMainUI"
        /\ ScreenOK(uiState', controllers', appIdByCode', TRUE)
        /\ Continues(ks, controllers')
    BY <1>3, <1>9, <2>2, <2>3, LeaveAppFits DEF LaunchInv, ConsoleInv, UIInv
  <2>5. uiState' \in UIStates /\ Pending' = {}
    BY <1>2, <2>2, <2>4 DEF UIStates
  <2> QED
    BY <1>2, <1>7, <1>8, <2>4, <2>5, Entered
<1>10. ~(c = "currentApp" /\ k.currentAction = "LAUNCHING")
  BY <1>4 DEF Fits, ProcessFinishes
<1>11. CASE controllers' = ks /\ UNCHANGED <<uiState, appIdByCode>>
  <2>1. PendingIsAwaited'
    <3> SUFFICES ASSUME NEW conn \in Pending
                 PROVE  /\ \A other \in Pending : other = conn
                        /\ appIdByCode[presents[conn][1]] = presents[conn][2]
                        /\ \E d \in Controllers :
                            /\ Awaits(uiState, d)
                            /\ presents[conn][2] \in IdsOf(d)
                            /\ ks[d].connection \in {conn, NoConnection} \cup reconnections
      BY <1>2, <1>11 DEF PendingIsAwaited
    <3> QED
      BY <1>3 DEF LaunchInv, ScreenInv, PendingIsAwaited, OthersKept
  <2>2. ConnectionsPresent'
    BY <1>2, <1>7, <1>11 DEF ConnectionsPresent, PresentsProgram
  <2> QED
    BY <1>2, <1>6, <1>8, <1>11, <2>1, <2>2 DEF LaunchInv, ScreenInv
<1> QED
  BY <1>9, <1>10, <1>11 DEF ProcessFinishes, ks

LEMMA RelaunchTimerFiresScreen ==
    ASSUME LaunchInv, NEW c \in Controllers, RelaunchTimerFires(c)
    PROVE  ScreenInv' /\ LosesOnly(controllers, controllers')
<1> DEFINE k == controllers[c]
           k1 == [k EXCEPT !.relaunchTimers = @ - 1]
           ks == [controllers EXCEPT ![c].relaunchTimers = @ - 1]
<1>1. TablesKept
  BY DEF RelaunchTimerFires, Ignored, TablesKept, reconnectVars
<1>2. /\ LinkedToItsApplication' /\ UNCHANGED <<connectionIdCount, presents, reconnections>>
      /\ Pending' = Pending
  BY <1>1, LinksKept DEF LaunchInv, ScreenInv
<1>3. k \in AnyController /\ HasCode(k) /\ k.relaunchTimers \in Nat /\ k.relaunchTimers > 0
  BY DEF LaunchInv, ConsoleInv, UIInv, ControllersOK, RelaunchTimerFires, AnyController
<1>4. /\ Fits(c, k) /\ LaunchesOnce(k, appIdByCode, Pending = {})
      /\ ~Awaits(uiState, c) => Rests(k)
      /\ \A d \in Controllers : InBackground(uiState, d) => Background(controllers[d])
      /\ \A d \in Controllers : Fits(d, controllers[d])
      /\ \A d \in Controllers : ~Awaits(uiState, d) => Rests(controllers[d])
  BY DEF LaunchInv, ScreenInv, ScreenOK
<1>5. k.relaunchTimers = 1 /\ ~ComesUp(k) /\ Background(k) /\ Pending = {} /\ Awaits(uiState, c)
  <2> HIDE DEF k
  <2>1. k.relaunchTimers # 0
    BY <1>3
  <2> QED
    BY <1>4, <2>1 DEF LaunchesOnce, Rests
<1>6. /\ k1 \in AnyController /\ k1.app = k.app /\ k1.process = k.process
      /\ k1.currentAction = k.currentAction
      /\ k1.waitRounds = k.waitRounds /\ k1.relaunchTimers = 0
      /\ k1.program = k.program /\ k1.code = k.code /\ k1.connection = k.connection
      /\ k1.lost = k.lost
  <2> HIDE DEF k
  <2> QED
    BY <1>3, <1>5 DEF AnyController
<1>7. ks = [controllers EXCEPT ![c] = k1]
  OBVIOUS
<1> HIDE DEF k1
<1>8. ControllersOK(ks) /\ ks[c] = k1 /\ OthersKept(controllers, ks, c)
  <2>1. HasCode(k1)
    <3> HIDE DEF k
    <3> QED
      BY <1>3, <1>6 DEF HasCode
  <2> HIDE DEF ks
  <2>2. ControllersOK(ks)
    BY <1>6, <1>7, <2>1, WithControllerOK DEF LaunchInv, ConsoleInv, UIInv
  <2> QED
    BY <1>7, <2>2 DEF OthersKept, LaunchInv, ConsoleInv, UIInv, ControllersOK
<1> HIDE DEF k, ks
<1>9. Fits(c, ks[c]) /\ Rests(ks[c]) /\ Background(ks[c])
  BY <1>4, <1>5, <1>6, <1>8 DEF Fits, Rests, ComesUp, Background
<1>10. Calm(ks)
  BY <1>4, <1>5, <1>8, <1>9, OneAwaited DEF Calm, OthersKept
<1>11. \A d \in Controllers : InBackground(uiState, d) => Background(ks[d])
  BY <1>4, <1>8, <1>9 DEF OthersKept
<1>12. \A d \in Controllers : PresentsProgram(ks[d])
  BY <1>6, <1>8 DEF LaunchInv, ScreenInv, ConnectionsPresent, PresentsProgram, OthersKept, k
<1>13. PICK result \in Launches(ks, c, appIdByCode) :
        IF c = "currentApp" /\ result.failed
        THEN OnAppLaunchFailed(result.controllers)
        ELSE controllers' = result.controllers /\ appIdByCode' = result.codes /\ UNCHANGED uiState
  BY DEF RelaunchTimerFires, ks
<1>14. uiState \in UIStates /\ appIdByCode \in CodeMap
  BY DEF LaunchInv, ScreenInv, ConsoleInv, UIInv
<1>15. Pending' = {}
  BY <1>2, <1>5
<1>16. LosesOnly(controllers, ks)
  BY <1>6, <1>8 DEF LosesOnly, OthersKept, k
<1>17. CASE c = "currentApp" /\ result.failed
  <2>1. uiState = "waitAppVisibleLaunchingApp"
    BY <1>5, <1>17 DEF Awaits
  <2>2. FailsIdly(result, ks, appIdByCode)
    BY <1>8, <1>9, <1>13, <1>14, LaunchFits
  <2>3. EnterLaunchingMainUI(ks, appIdByCode)
    BY <1>13, <1>17, <2>1, <2>2 DEF FailsIdly, OnAppLaunchFailed
  <2>4. Background(ks["mainui"]) /\ Background(ks["currentApp"])
    BY <1>9, <1>11, <1>17, <2>1 DEF InBackground, Controllers
  <2>5. /\ uiState' = "waitAppVisibleLaunchingMainUI"
        /\ ScreenOK(uiState', controllers', appIdByCode', TRUE)
        /\ Continues(ks, controllers')
    BY <1>8, <1>10, <1>14, <2>3, <2>4, EnterLaunchingMainUIFits
  <2>6. uiState' \in UIStates
    BY <2>5 DEF UIStates
  <2> QED
    BY <1>2, <1>12, <1>15, <1>16, <2>5, <2>6, Entered
<1>18. CASE ~(c = "currentApp" /\ result.failed)
  <2>1. controllers' = result.controllers /\ appIdByCode' = result.codes /\ uiState' = uiState
    BY <1>13, <1>18
  <2>2. /\ ScreenOK(uiState, result.controllers, result.codes, TRUE)
        /\ Continues(ks, result.controllers)
    BY <1>5, <1>8, <1>9, <1>10, <1>11, <1>13, <1>14, AfterLaunch
  <2> QED
    BY <1>2, <1>12, <1>14, <1>15, <1>16, <2>1, <2>2, Entered
<1> QED
  BY <1>17, <1>18

\* A connection of the process of c is numbered and listed.
LEMMA NewConnectionPresents ==
    ASSUME LaunchInv, NEW c \in Controllers,
           NewConnection(controllers[c].code, controllers[c].program),
           OthersKept(controllers, controllers', c),
           controllers'[c].connection = connectionIdCount,
           controllers'[c].program = controllers[c].program
    PROVE  /\ connectionIdCount \in Nat /\ connectionIdCount # NoConnection
           /\ connectionIdCount \in Connections /\ connectionIdCount \notin reconnections
           /\ connectionIdCount \notin openSockets \cap gatekeepers
           /\ connectionIdCount' = connectionIdCount + 1
           /\ openSockets' \cap gatekeepers' = (openSockets \cap gatekeepers) \cup {connectionIdCount}
           /\ presents'[connectionIdCount] = <<controllers[c].code, controllers[c].program>>
           /\ \A m \in Connections : m # connectionIdCount => presents'[m] = presents[m]
           /\ ConnectionsPresent'
           /\ LinkedToItsApplication'
<1> DEFINE k == controllers[c]
           n == connectionIdCount
<1>1. /\ n \in Connections /\ n \in Nat /\ n \notin openSockets /\ n \notin gatekeepers
      /\ appIdByConnectionId[n] = NoApplication /\ n # NoConnection
  BY Apart DEF NewConnection, LaunchInv, ConsoleInv, TablesInv, TablesAgree
<1>2. n \notin reconnections
  BY <1>1 DEF LaunchInv, ReconnectInv
<1>3. /\ connectionIdCount' = n + 1
      /\ openSockets' = openSockets \cup {n} /\ gatekeepers' = gatekeepers \cup {n}
      /\ presents' = [presents EXCEPT ![n] = <<k.code, k.program>>]
      /\ UNCHANGED appIdByConnectionId
  BY DEF NewConnection, NextConnectionId, registryVars
<1>4. /\ presents'[n] = <<k.code, k.program>>
      /\ \A m \in Connections : m # n => presents'[m] = presents[m]
  BY <1>1, <1>3 DEF LaunchInv, ConsoleInv, TablesInv
<1>5. ConnectionsPresent /\ LinkedToItsApplication
  BY DEF LaunchInv, ScreenInv
<1> HIDE DEF n
<1>6. ConnectionsPresent'
  <2> SUFFICES ASSUME NEW d \in Controllers, controllers'[d].connection # NoConnection
               PROVE  /\ controllers'[d].connection < n + 1
                      /\ presents'[controllers'[d].connection][2] = controllers'[d].program
    BY <1>3 DEF ConnectionsPresent, PresentsProgram
  <2>1. CASE d = c
    BY <1>1, <1>4, <2>1 DEF n
  <2>2. CASE d # c
    <3> DEFINE m == controllers[d].connection
    <3>1. controllers'[d] = controllers[d] /\ m # NoConnection
      BY <2>2 DEF OthersKept
    <3>2. m \in Connections
      BY <3>1 DEF LaunchInv, ConsoleInv, UIInv, ControllersOK, AnyController
    <3>3. m < n /\ presents[m][2] = controllers[d].program
      BY <1>5, <3>1 DEF ConnectionsPresent, PresentsProgram, n
    <3>4. m \in Nat
      BY <3>2, ConnectionsAssumption
    <3> HIDE DEF m
    <3>5. m # n /\ m < n + 1
      BY <1>1, <3>3, <3>4
    <3>6. presents'[m] = presents[m]
      BY <1>4, <3>2, <3>5
    <3> QED
      BY <3>1, <3>3, <3>5, <3>6 DEF m
  <2> QED
    BY <2>1, <2>2
<1>7. LinkedToItsApplication'
  BY <1>1, <1>3, <1>4, <1>5 DEF LinkedToItsApplication
<1> QED
  BY <1>1, <1>2, <1>3, <1>4, <1>6, <1>7 DEF n

LEMMA ProcessConnectsScreen ==
    ASSUME LaunchInv, NEW c \in Controllers, ProcessConnects(c)
    PROVE  ScreenInv'
<1> DEFINE k == controllers[c]
           n == connectionIdCount
           k1 == [k EXCEPT !.connection = n]
<1>1. /\ k \in AnyController
      /\ k.process = "Running" /\ k.connection = NoConnection /\ ~k.lost
      /\ controllers' = [controllers EXCEPT ![c] = k1]
      /\ NewConnection(k.code, k.program)
  BY DEF ProcessConnects, LaunchInv, ConsoleInv, UIInv, ControllersOK
<1>2. UNCHANGED <<uiState, appIdByCode, appIdByConnectionId, reconnections>>
  BY DEF ProcessConnects, NewConnection, registryVars, reconnectVars
<1>3. /\ k1.app = k.app /\ k1.process = k.process /\ k1.currentAction = k.currentAction
      /\ k1.waitRounds = k.waitRounds /\ k1.relaunchTimers = k.relaunchTimers
      /\ k1.program = k.program /\ k1.code = k.code /\ k1.connection = n /\ k1.lost = k.lost
  <2> HIDE DEF k
  <2> QED
    BY <1>1 DEF AnyController
<1> HIDE DEF k1
<1>4. controllers'[c] = k1 /\ OthersKept(controllers, controllers', c)
  BY <1>1 DEF OthersKept, LaunchInv, ConsoleInv, UIInv, ControllersOK
<1>5. /\ n # NoConnection /\ n \notin reconnections
      /\ openSockets' \cap gatekeepers' = (openSockets \cap gatekeepers) \cup {n}
      /\ presents'[n] = <<k.code, k.program>>
      /\ ConnectionsPresent' /\ LinkedToItsApplication'
  BY <1>1, <1>3, <1>4, NewConnectionPresents
<1>6. /\ ScreenOK(uiState, controllers, appIdByCode, Pending = {})
      /\ Fits(c, k) /\ LaunchesOnce(k, appIdByCode, Pending = {})
      /\ ~Awaits(uiState, c) => Rests(k)
      /\ InBackground(uiState, c) => Background(k)
      /\ \A d \in Controllers : Fits(d, controllers[d])
      /\ \A d \in Controllers : ~Awaits(uiState, d) => Rests(controllers[d])
      /\ \A d \in Controllers : InBackground(uiState, d) => Background(controllers[d])
  BY DEF LaunchInv, ScreenInv, ScreenOK
<1> HIDE DEF k, n
<1>7. ComesUp(k) /\ k.relaunchTimers = 0 /\ appIdByCode[k.code] = k.program /\ Pending = {}
  BY <1>1, <1>6 DEF ComesUp, LaunchesOnce
<1>8. Awaits(uiState, c) /\ k.program \in IdsOf(c)
  BY <1>1, <1>6, <1>7 DEF Rests, Fits
<1>9. Rests(k1) /\ Fits(c, k1) /\ (Background(k) => Background(k1))
  BY <1>1, <1>3, <1>5, <1>6, <1>7 DEF Rests, ComesUp, Fits, Background
<1>10. ScreenOK(uiState, controllers', appIdByCode, FALSE)
  <2> SUFFICES ASSUME NEW d \in Controllers
               PROVE  /\ Fits(d, controllers'[d]) /\ Rests(controllers'[d])
                      /\ InBackground(uiState, d) => Background(controllers'[d])
    BY RestsLaunchesOnce DEF ScreenOK
  <2>1. CASE d = c
    BY <1>4, <1>6, <1>9, <2>1
  <2>2. CASE d # c
    BY <1>4, <1>6, <1>8, <2>2, OneAwaited DEF OthersKept
  <2> QED
    BY <2>1, <2>2
<1>11. ScreenOK(uiState, controllers', appIdByCode, (Pending = {})')
  BY <1>10, LessPending
<1>12. PendingIsAwaited'
  <2>1. Pending' = {n}
    BY <1>2, <1>5, <1>7 DEF Pending
  <2>2. /\ appIdByCode[presents'[n][1]] = presents'[n][2]
        /\ presents'[n][2] \in IdsOf(c)
        /\ controllers'[c].connection = n
    BY <1>3, <1>4, <1>5, <1>7, <1>8
  <2> QED
    BY <1>2, <1>8, <2>1, <2>2 DEF PendingIsAwaited
<1>13. uiState' \in UIStates
  BY <1>2 DEF LaunchInv, ScreenInv
<1> QED
  BY <1>2, <1>5, <1>11, <1>12, <1>13 DEF ScreenInv

\* A process that has lost its connection still is no launch under way.
LEMMA ConnectionLostScreen ==
    ASSUME LaunchInv, NEW c \in Controllers, ConnectionLost(c)
    PROVE  ScreenInv' /\ LosesOnly(controllers, controllers')
<1> DEFINE k  == controllers[c]
           k1 == [k EXCEPT !.connection = NoConnection]
           k2 == [k1 EXCEPT !.lost = TRUE]
<1>1. TablesKept /\ UNCHANGED <<appIdByCode, uiState>>
  BY DEF ConnectionLost, Ignored, TablesKept, connectionVars, registryVars, reconnectVars
<1>2. /\ k \in AnyController /\ k.connection # NoConnection
      /\ controllers' = [controllers EXCEPT ![c] = k2]
  BY DEF ConnectionLost, LaunchInv, ConsoleInv, UIInv, ControllersOK
<1>3. k1 \in AnyController /\ k1.app = k.app /\ k1.process = k.process
      /\ k1.currentAction = k.currentAction
      /\ k1.waitRounds = k.waitRounds /\ k1.relaunchTimers = k.relaunchTimers
      /\ k1.program = k.program /\ k1.code = k.code /\ k1.connection = NoConnection
  <2> HIDE DEF k
  <2> QED
    BY <1>2 DEF AnyController
<1>4. k2.app = k1.app /\ k2.process = k1.process /\ k2.currentAction = k1.currentAction
      /\ k2.waitRounds = k1.waitRounds /\ k2.relaunchTimers = k1.relaunchTimers
      /\ k2.program = k1.program /\ k2.code = k1.code /\ k2.connection = NoConnection
      /\ k2.lost
  <2> HIDE DEF k1
  <2> QED
    BY <1>3 DEF AnyController
<1> HIDE DEF k1, k2
<1>5. controllers'[c] = k2 /\ OthersKept(controllers, controllers', c)
  BY <1>2 DEF OthersKept, LaunchInv, ConsoleInv, UIInv, ControllersOK
<1>6. /\ ScreenOK(uiState, controllers, appIdByCode, Pending = {})
      /\ Fits(c, k) /\ LaunchesOnce(k, appIdByCode, Pending = {})
      /\ ~Awaits(uiState, c) => Rests(k)
      /\ InBackground(uiState, c) => Background(k)
  BY DEF LaunchInv, ScreenInv, ScreenOK
<1> HIDE DEF k
<1>7. Fits(c, k2) /\ ~ComesUp(k2)
  BY <1>2, <1>3, <1>4, <1>6 DEF Fits, ComesUp
<1>8. /\ LaunchesOnce(k2, appIdByCode, Pending = {})
      /\ ~Awaits(uiState, c) => Rests(k2)
      /\ InBackground(uiState, c) => Background(k2)
  BY <1>3, <1>4, <1>6, <1>7 DEF LaunchesOnce, Rests, Background
<1>9. ScreenOK(uiState, controllers', appIdByCode, Pending = {})
  BY <1>5, <1>6, <1>7, <1>8, OneChanged
<1>10. /\ LinkedToItsApplication'
       /\ UNCHANGED <<connectionIdCount, presents, reconnections>>
       /\ Pending' = Pending
  BY <1>1, LinksKept DEF LaunchInv, ScreenInv
<1>11. ConnectionsPresent'
  BY <1>4, <1>5, <1>10
     DEF LaunchInv, ScreenInv, ConnectionsPresent, PresentsProgram, OthersKept
<1>12. PendingIsAwaited'
  <2> SUFFICES ASSUME NEW conn \in Pending
               PROVE  /\ \A other \in Pending : other = conn
                      /\ appIdByCode[presents[conn][1]] = presents[conn][2]
                      /\ \E d \in Controllers :
                          /\ Awaits(uiState, d)
                          /\ presents[conn][2] \in IdsOf(d)
                          /\ controllers'[d].connection
                                \in {conn, NoConnection} \cup reconnections
    BY <1>1, <1>10 DEF PendingIsAwaited
  <2> QED
    BY <1>4, <1>5 DEF LaunchInv, ScreenInv, PendingIsAwaited, OthersKept
<1>13. LosesOnly(controllers, controllers')
  BY <1>4, <1>5 DEF LosesOnly, OthersKept
<1> QED
  BY <1>1, <1>9, <1>10, <1>11, <1>12, <1>13 DEF LaunchInv, ScreenInv

\* What it connects next is pending for nobody.
LEMMA ProcessReconnectsScreen ==
    ASSUME LaunchInv, NEW c \in Controllers, ProcessReconnects(c)
    PROVE  ScreenInv'
<1> DEFINE k == controllers[c]
           n == connectionIdCount
           k1 == [k EXCEPT !.connection = n]
           k2 == [k1 EXCEPT !.lost = FALSE]
<1>1. /\ k \in AnyController /\ k.process = "Running" /\ k.lost
      /\ controllers' = [controllers EXCEPT ![c] = k2]
      /\ NewConnection(k.code, k.program) /\ n \in Connections
      /\ reconnections' = reconnections \cup {n}
  BY DEF ProcessReconnects, NewConnection, LaunchInv, ConsoleInv, UIInv, ControllersOK
<1>2. UNCHANGED <<uiState, appIdByCode>>
  BY DEF ProcessReconnects, NewConnection, registryVars
<1>3. /\ k1 \in AnyController
      /\ k1.app = k.app /\ k1.process = k.process /\ k1.currentAction = k.currentAction
      /\ k1.waitRounds = k.waitRounds /\ k1.relaunchTimers = k.relaunchTimers
      /\ k1.program = k.program /\ k1.code = k.code /\ k1.connection = n
  <2> HIDE DEF k
  <2> QED
    BY <1>1 DEF AnyController
<1>4. /\ k2.app = k1.app /\ k2.process = k1.process /\ k2.currentAction = k1.currentAction
      /\ k2.waitRounds = k1.waitRounds /\ k2.relaunchTimers = k1.relaunchTimers
      /\ k2.program = k1.program /\ k2.code = k1.code /\ k2.connection = n /\ ~k2.lost
  <2> HIDE DEF k1, n
  <2> QED
    BY <1>3 DEF AnyController
<1> HIDE DEF k1, k2
<1>5. controllers'[c] = k2 /\ OthersKept(controllers, controllers', c)
  BY <1>1 DEF OthersKept, LaunchInv, ConsoleInv, UIInv, ControllersOK
<1>6. /\ n # NoConnection /\ n \notin openSockets \cap gatekeepers
      /\ openSockets' \cap gatekeepers' = (openSockets \cap gatekeepers) \cup {n}
      /\ \A m \in Connections : m # n => presents'[m] = presents[m]
      /\ ConnectionsPresent' /\ LinkedToItsApplication'
  BY <1>1, <1>3, <1>4, <1>5, NewConnectionPresents
<1>7. /\ ScreenOK(uiState, controllers, appIdByCode, Pending = {})
      /\ Fits(c, k) /\ LaunchesOnce(k, appIdByCode, Pending = {})
      /\ ~Awaits(uiState, c) => Rests(k)
      /\ InBackground(uiState, c) => Background(k)
  BY DEF LaunchInv, ScreenInv, ScreenOK
<1>8. Pending \subseteq Connections
  BY DEF LaunchInv, ConsoleInv, TablesInv, Pending
<1> HIDE DEF k, n
<1>9. Fits(c, k2) /\ ~ComesUp(k2)
  BY <1>1, <1>3, <1>4, <1>6, <1>7 DEF Fits, ComesUp
<1>10. /\ LaunchesOnce(k2, appIdByCode, Pending = {})
       /\ ~Awaits(uiState, c) => Rests(k2)
       /\ InBackground(uiState, c) => Background(k2)
  BY <1>3, <1>4, <1>7, <1>9 DEF LaunchesOnce, Rests, Background
<1>11. ScreenOK(uiState, controllers', appIdByCode, Pending = {})
  BY <1>5, <1>7, <1>9, <1>10, OneChanged
<1>12. Pending' = Pending
  BY <1>1, <1>6 DEF Pending
<1>13. PendingIsAwaited'
  <2> SUFFICES ASSUME NEW conn \in Pending
               PROVE  /\ \A other \in Pending : other = conn
                      /\ appIdByCode[presents[conn][1]] = presents[conn][2]
                      /\ \E d \in Controllers :
                          /\ Awaits(uiState, d)
                          /\ presents[conn][2] \in IdsOf(d)
                          /\ controllers'[d].connection
                                \in {conn, NoConnection} \cup reconnections'
    <3>1. \A conn \in Pending : presents'[conn] = presents[conn]
      BY <1>6, <1>8 DEF Pending
    <3> QED
      BY <1>2, <1>12, <3>1 DEF PendingIsAwaited
  <2>1. PICK d \in Controllers :
            /\ Awaits(uiState, d)
            /\ presents[conn][2] \in IdsOf(d)
            /\ controllers[d].connection \in {conn, NoConnection} \cup reconnections
    BY DEF LaunchInv, ScreenInv, PendingIsAwaited
  <2>2. controllers'[d].connection \in {conn, NoConnection} \cup reconnections'
    BY <1>1, <1>4, <1>5, <2>1 DEF OthersKept
  <2> QED
    BY <2>1, <2>2 DEF LaunchInv, ScreenInv, PendingIsAwaited
<1> QED
  BY <1>2, <1>6, <1>11, <1>12, <1>13 DEF LaunchInv, ScreenInv

LEMMA ValidatedScreen ==
    ASSUME LaunchInv, NEW conn \in Connections, Validated(conn), conn \notin reconnections
    PROVE  /\ ScreenInv' /\ LosesOnly(controllers, controllers')
           /\ \E c \in Controllers :
                /\ Awaits(uiState, c) /\ MatchedApplication(conn) \in IdsOf(c)
                /\ controllers[c].connection \in {conn, NoConnection} \cup reconnections
                /\ Shown' = c /\ uiState' \notin {"off", "startup"}
<1> DEFINE id == MatchedApplication(conn)
<1>1. /\ conn \in Pending
      /\ gatekeepers' = gatekeepers \ {conn}
      /\ appIdByConnectionId' = [appIdByConnectionId EXCEPT ![conn] = id]
      /\ UNCHANGED <<connectionIdCount, openSockets, presents, reconnections>>
  BY DEF Validated, ReplyValidated, CanReply, Pending, tcpVars
<1>2. PICK c \in Controllers :
        /\ Awaits(uiState, c)
        /\ presents[conn][2] \in IdsOf(c)
        /\ controllers[c].connection \in {conn, NoConnection} \cup reconnections
  BY <1>1 DEF LaunchInv, ScreenInv, PendingIsAwaited
<1>3. id = presents[conn][2]
  BY <1>1 DEF LaunchInv, ScreenInv, PendingIsAwaited, MatchedApplication
<1>4. Pending' = {}
  BY <1>1 DEF LaunchInv, ScreenInv, PendingIsAwaited, Pending
<1>5. LinkedToItsApplication'
  BY <1>1, <1>3 DEF LaunchInv, ScreenInv, LinkedToItsApplication, ConsoleInv, TablesInv
<1>6. Calm(controllers)
  BY <1>1 DEF LaunchInv, ScreenInv, ScreenOK, LaunchesOnce, Rests, Calm
<1>7. /\ \A d \in Controllers : InBackground(uiState, d) => Background(controllers[d])
      /\ \A d \in Controllers : PresentsProgram(controllers[d])
  BY DEF LaunchInv, ScreenInv, ScreenOK, ConnectionsPresent
<1>8. CodeConsumed(conn) \in CodeMap /\ ControllersOK(controllers)
  BY CodeConsumedOK DEF LaunchInv, ConsoleInv, UIInv
<1>9. LosesOnly(controllers, controllers)
  BY DEF LosesOnly
<1>10. controllers[c].connection \in {conn, NoConnection} \cup reconnections
  BY <1>2
<1> HIDE DEF id
<1>11. id \in IdsOf(c)
  BY <1>2, <1>3
<1>12. CASE c = "waitapp"
  <2>1. uiState = "startup" /\ id = "waitapp"
    BY <1>2, <1>3, <1>12 DEF Awaits, IdsOf
  <2>2. EnterLaunchingMainUI(controllers, CodeConsumed(conn))
    BY <2>1 DEF Validated, id
  <2>3. Background(controllers["mainui"]) /\ Background(controllers["currentApp"])
    BY <1>7, <2>1 DEF InBackground, Controllers
  <2>4. /\ uiState' = "waitAppVisibleLaunchingMainUI"
        /\ ScreenOK(uiState', controllers', appIdByCode', TRUE)
        /\ Continues(controllers, controllers')
    BY <1>6, <1>8, <2>2, <2>3, EnterLaunchingMainUIFits
  <2>5. uiState' \in UIStates
    BY <2>4 DEF UIStates
  <2>6. Shown' = c /\ uiState' \notin {"off", "startup"}
    BY <1>12, <2>4 DEF Shown
  <2>7. ScreenInv' /\ LosesOnly(controllers, controllers')
    BY <1>1, <1>4, <1>5, <1>7, <1>9, <2>4, <2>5, Entered
  <2> QED
    BY <1>2, <1>10, <1>11, <2>6, <2>7 DEF id
<1>13. CASE c # "waitapp"
  <2>1. \/ uiState = "waitAppVisibleLaunchingMainUI" /\ id = "mainui"
        \/ uiState = "waitAppVisibleLaunchingApp" /\ id \in Applications
    BY <1>2, <1>3, <1>13 DEF Awaits, IdsOf
  <2>2. /\ \/ uiState = "waitAppVisibleLaunchingMainUI" /\ uiState' = "mainuiVisible"
           \/ uiState = "waitAppVisibleLaunchingApp" /\ uiState' = "appVisible"
        /\ UNCHANGED controllers
    BY <2>1 DEF Validated, id
  <2>3. /\ uiState' \in UIStates
        /\ \A d \in Controllers : InBackground(uiState', d) => InBackground(uiState, d)
    BY <2>2 DEF UIStates, InBackground
  <2>4. ScreenOK(uiState', controllers', appIdByCode', TRUE)
    BY <1>6, <1>7, <2>2, <2>3, RestsLaunchesOnce DEF ScreenOK, Calm
  <2>5. Continues(controllers, controllers')
    BY <2>2 DEF Continues, SameProcess
  <2>6. Shown' = c /\ uiState' \notin {"off", "startup"}
    BY <1>2, <2>2 DEF Shown, Awaits
  <2>7. ScreenInv' /\ LosesOnly(controllers, controllers')
    BY <1>1, <1>4, <1>5, <1>7, <1>9, <2>3, <2>4, <2>5, Entered
  <2> QED
    BY <1>2, <1>10, <1>11, <2>6, <2>7 DEF id
<1> QED
  BY <1>12, <1>13

\* Fewer connections are pending, and the screen does not change.
LEMMA FewerPending ==
    ASSUME ScreenInv, Pending' \subseteq Pending,
           UNCHANGED <<connectionIdCount, presents, appIdByCode, uiState, controllers,
                       reconnections>>,
           LinkedToItsApplication'
    PROVE  ScreenInv' /\ LosesOnly(controllers, controllers')
<1>1. ScreenOK(uiState, controllers, appIdByCode, (Pending = {})')
  <2>1. ScreenOK(uiState, controllers, appIdByCode, Pending = {})
    BY DEF ScreenInv
  <2>2. Pending = {} => (Pending = {})'
    OBVIOUS
  <2> QED
    BY <2>1, <2>2, LessPending
<1>2. PendingIsAwaited'
  BY DEF ScreenInv, PendingIsAwaited
<1>3. ConnectionsPresent'
  BY DEF ScreenInv, ConnectionsPresent, PresentsProgram
<1>4. LosesOnly(controllers, controllers')
  BY DEF LosesOnly
<1> QED
  BY <1>1, <1>2, <1>3, <1>4 DEF ScreenInv

LEMMA NotValidatedScreen ==
    ASSUME LaunchInv, NEW conn \in Connections, NotValidated(conn)
    PROVE  ScreenInv' /\ LosesOnly(controllers, controllers')
<1>1. Discard(conn) /\ UNCHANGED appIdByCode /\ UNCHANGED <<uiVars, reconnectVars>>
  BY DEF NotValidated, ReplyDiscarded, GateTimeout
<1>2. UNCHANGED <<connectionIdCount, presents, appIdByCode, uiState, controllers,
                  reconnections, appIdByConnectionId>>
  BY <1>1 DEF Discard, uiVars, reconnectVars
<1>3. Pending' \subseteq Pending
  BY <1>1, <1>2 DEF Discard, Pending
<1>4. LinkedToItsApplication'
  BY <1>2 DEF LaunchInv, ScreenInv, LinkedToItsApplication
<1> QED
  BY <1>2, <1>3, <1>4, FewerPending DEF LaunchInv

LEMMA DisconnectedScreen ==
    ASSUME LaunchInv, NEW conn \in Connections, Disconnected(conn)
    PROVE  ScreenInv' /\ LosesOnly(controllers, controllers')
<1>1. SocketDisconnects(conn) /\ UNCHANGED <<uiVars, reconnectVars>>
  BY DEF Disconnected
<1>2. UNCHANGED <<connectionIdCount, presents, appIdByCode, uiState, controllers, reconnections>>
  BY <1>1 DEF SocketDisconnects, uiVars, reconnectVars
<1>3. Pending' \subseteq Pending
  BY <1>1, <1>2 DEF SocketDisconnects, Pending
<1>4. LinkedToItsApplication'
  BY <1>1, <1>2 DEF LaunchInv, ScreenInv, LinkedToItsApplication, SocketDisconnects,
                    ConsoleInv, TablesInv
<1> QED
  BY <1>2, <1>3, <1>4, FewerPending DEF LaunchInv

LEMMA LaunchApplicationScreen ==
    ASSUME LaunchInv, NEW conn \in Connections,
           NEW id \in Applications \cup {NoApplication}, LaunchApplication(conn, id)
    PROVE  ScreenInv' /\ LosesOnly(controllers, controllers')
<1> DEFINE ks == AppTaken(controllers, id)
           k == controllers["currentApp"]
           l == ks["currentApp"]
<1> USE DEF Controllers
<1>1. TablesKept
  BY ResumesWaitAppKeepsChannels DEF LaunchApplication, Ignored, TablesKept, reconnectVars
<1>2. /\ LinkedToItsApplication' /\ UNCHANGED <<connectionIdCount, presents, reconnections>>
      /\ Pending' = Pending
  BY <1>1, LinksKept DEF LaunchInv, ScreenInv
<1>3. ControllersOK(controllers) /\ appIdByCode \in CodeMap /\ id \in AnyApplication
  BY ApplicationsAssumption DEF LaunchInv, ConsoleInv, UIInv, AnyApplication
<1>4. ControllersOK(ks)
  BY <1>3, AppTakenOK
<1>5. /\ OthersKept(controllers, ks, "currentApp") /\ SameProcess(k, l)
      /\ l.process = k.process /\ l.relaunchTimers = k.relaunchTimers
      /\ l.code = k.code /\ l.program = k.program /\ l.lost = k.lost
      /\ Fits("currentApp", k) => Fits("currentApp", l)
      /\ ~ComesUp(k) \/ (Background(k) /\ Fits("currentApp", k)) => Background(l)
  BY <1>3, AppTakenFits
<1>6. /\ ScreenOK(uiState, controllers, appIdByCode, Pending = {})
      /\ Fits("currentApp", k) /\ LaunchesOnce(k, appIdByCode, Pending = {})
      /\ ~Awaits(uiState, "currentApp") => Rests(k)
      /\ InBackground(uiState, "currentApp") => Background(k)
      /\ \A d \in Controllers : PresentsProgram(controllers[d])
  BY DEF LaunchInv, ScreenInv, ScreenOK, ConnectionsPresent
<1> HIDE DEF ks, k, l
<1>7. l.connection = k.connection /\ (ComesUp(l) <=> ComesUp(k))
  BY <1>5 DEF SameProcess, ComesUp
<1>8. /\ Fits("currentApp", l) /\ LaunchesOnce(l, appIdByCode, Pending = {})
      /\ ~Awaits(uiState, "currentApp") => Rests(l)
      /\ InBackground(uiState, "currentApp") => Background(l)
  BY <1>5, <1>6, <1>7 DEF LaunchesOnce, Rests
<1>9. ScreenOK(uiState, ks, appIdByCode, Pending = {})
  BY <1>5, <1>6, <1>8, OneChanged DEF l
<1>10. Continues(controllers, ks)
  BY <1>5 DEF Continues, OthersKept, SameProcess, k, l
<1>11. \A d \in Controllers : PresentsProgram(ks[d])
  BY <1>6, <1>10 DEF Continues, SameProcess, PresentsProgram
<1>12. LosesOnly(controllers, ks)
  BY <1>10 DEF LosesOnly, Continues, SameProcess
<1>13. CASE uiState = "mainuiVisible"
  <2>1. EnterLaunchingApp(ks)
    BY <1>13 DEF LaunchApplication, ks
  <2>2. \A d \in Controllers : ~Awaits(uiState, d)
    BY <1>13 DEF Awaits
  <2>3. Pending = {} /\ Calm(ks)
    BY <1>9, <2>2, NothingPending DEF Calm, ScreenOK, LaunchInv
  <2>4. Background(ks["currentApp"])
    BY <1>5, <1>6, <2>2 DEF Rests, l
  <2>5. /\ uiState' \in {"waitAppVisibleLaunchingMainUI", "waitAppVisibleLaunchingApp"}
        /\ ScreenOK(uiState', controllers', appIdByCode', TRUE)
        /\ Continues(ks, controllers')
    BY <1>3, <1>4, <2>1, <2>3, <2>4, EnterLaunchingAppFits
  <2>6. uiState' \in UIStates /\ Pending' = {}
    BY <1>2, <2>3, <2>5 DEF UIStates
  <2> QED
    BY <1>2, <1>11, <1>12, <2>5, <2>6, Entered
<1>14. CASE uiState # "mainuiVisible"
  <2>1. controllers' = ks /\ UNCHANGED <<uiState, appIdByCode>>
    BY <1>14 DEF LaunchApplication, ks
  <2>2. ASSUME NEW d \in Controllers
        PROVE  /\ ks[d].process = controllers[d].process
               /\ ks[d].connection = controllers[d].connection
    BY <1>5, <1>7 DEF OthersKept, k, l
  <2>3. PendingIsAwaited'
    <3> SUFFICES ASSUME NEW pending \in Pending
                 PROVE  /\ \A other \in Pending : other = pending
                        /\ appIdByCode[presents[pending][1]] = presents[pending][2]
                        /\ \E d \in Controllers :
                            /\ Awaits(uiState, d)
                            /\ presents[pending][2] \in IdsOf(d)
                            /\ ks[d].connection \in {pending, NoConnection} \cup reconnections
      BY <1>2, <2>1 DEF PendingIsAwaited
    <3> QED
      BY <2>2 DEF LaunchInv, ScreenInv, PendingIsAwaited
  <2>4. ConnectionsPresent'
    BY <1>2, <1>11, <2>1 DEF ConnectionsPresent, PresentsProgram
  <2> QED
    BY <1>2, <1>9, <1>12, <2>1, <2>3, <2>4 DEF LaunchInv, ScreenInv
<1> QED
  BY <1>13, <1>14

LEMMA UnchangedScreen ==
    ASSUME ScreenInv, TablesKept, UNCHANGED <<appIdByCode, uiState, controllers>>
    PROVE  ScreenInv' /\ LosesOnly(controllers, controllers')
<1>1. /\ LinkedToItsApplication' /\ UNCHANGED <<connectionIdCount, presents, reconnections>>
      /\ Pending' = Pending
  BY LinksKept DEF ScreenInv
<1> QED
  BY <1>1, FewerPending

LEMMA ExitApplicationScreen ==
    ASSUME LaunchInv, NEW conn \in Connections, ExitApplication(conn)
    PROVE  ScreenInv' /\ LosesOnly(controllers, controllers')
<1>1. TablesKept
  BY ResumesWaitAppKeepsChannels DEF ExitApplication, LeaveApp, Ignored, TablesKept, reconnectVars
<1>2. /\ LinkedToItsApplication' /\ UNCHANGED <<connectionIdCount, presents, reconnections>>
      /\ Pending' = Pending
  BY <1>1, LinksKept DEF LaunchInv, ScreenInv
<1>3. CASE uiState = "appVisible" /\ LeaveApp(controllers)
  <2>1. \A d \in Controllers : ~Awaits(uiState, d)
    BY <1>3 DEF Awaits
  <2>2. Pending = {} /\ Calm(controllers)
    BY <2>1, NothingPending DEF LaunchInv
  <2>3. Background(controllers["mainui"])
    BY <1>3 DEF LaunchInv, ScreenInv, ScreenOK, InBackground, Controllers
  <2>4. /\ uiState' = "waitAppVisibleLaunchingMainUI"
        /\ ScreenOK(uiState', controllers', appIdByCode', TRUE)
        /\ Continues(controllers, controllers')
    BY <1>3, <2>2, <2>3, LeaveAppFits DEF LaunchInv, ConsoleInv, UIInv
  <2>5. uiState' \in UIStates /\ Pending' = {}
    BY <1>2, <2>2, <2>4 DEF UIStates
  <2>6. \A d \in Controllers : PresentsProgram(controllers[d])
    BY DEF LaunchInv, ScreenInv, ConnectionsPresent
  <2>7. LosesOnly(controllers, controllers)
    BY DEF LosesOnly
  <2> QED
    BY <1>2, <2>4, <2>5, <2>6, <2>7, Entered
<1>4. CASE UNCHANGED <<uiState, controllers, appIdByCode>>
  BY <1>1, <1>4, UnchangedScreen DEF LaunchInv
<1> QED
  BY <1>3, <1>4 DEF ExitApplication

\* Until a reconnection is validated, what is validated is a first connection.
LEMMA FirstsValidated ==
    ASSUME NEW conn, Validated(conn), ~readmitted'
    PROVE  conn \notin reconnections
BY DEF Validated

\* Once one was, that is history.
LEMMA ReadmittedStays ==
    ASSUME [ConsoleNext]_consoleVars, ~readmitted'
    PROVE  ~readmitted
BY DEF ConsoleNext, Start, ProcessStarts, ProcessFailsToStart, ProcessFinishes,
       RelaunchTimerFires, ProcessConnects, ConnectionLost, ProcessReconnects, Validated,
       NotValidated, Disconnected, LaunchApplication, ExitApplication, reconnectVars,
       consoleVars

\* The connections made in place of lost ones.
LEMMA InitReconnect == ConsoleInit => ReconnectInv
BY DEF ConsoleInit, ReconnectInv

LEMMA KeptReconnect ==
    ASSUME ConsoleInv, ReconnectInv, readmitted' \in BOOLEAN, UNCHANGED reconnections,
           connectionIdCount' \in {connectionIdCount, connectionIdCount + 1},
           \A conn \in reconnections :
                controlChannels'[conn] = "OPEN" => controlChannels[conn] = "OPEN"
    PROVE  ReconnectInv'
<1>1. connectionIdCount \in Nat
  BY DEF ConsoleInv, TablesInv
<1>2. \A conn \in reconnections : conn \in Nat
  BY ConnectionsAssumption DEF ReconnectInv
<1>3. ASSUME NEW conn \in reconnections
      PROVE  conn < connectionIdCount' /\ controlChannels'[conn] # "OPEN"
  BY <1>1, <1>2 DEF ReconnectInv
<1> QED
  BY <1>3 DEF ReconnectInv

LEMMA ReconnectStep ==
    ASSUME ConsoleInv, ReconnectInv, [ConsoleNext]_consoleVars, ~readmitted'
    PROVE  ReconnectInv'
<1>1. CASE Start
  BY <1>1, KeptReconnect DEF Start, Ignored, tcpVars, reconnectVars, ReconnectInv
<1>2. ASSUME NEW c \in Controllers,
             \/ ProcessStarts(c) \/ ProcessFailsToStart(c) \/ RelaunchTimerFires(c)
             \/ ConnectionLost(c)
      PROVE  ReconnectInv'
  BY <1>2, KeptReconnect
     DEF ProcessStarts, ProcessFailsToStart, RelaunchTimerFires, ConnectionLost, Ignored,
         connectionVars, tcpVars, reconnectVars, ReconnectInv
<1>3. ASSUME NEW c \in Controllers, ProcessFinishes(c)
      PROVE  ReconnectInv'
  BY <1>3, KeptReconnect, ResumesWaitAppKeepsChannels
     DEF ProcessFinishes, LeaveApp, Ignored, tcpVars, reconnectVars, ReconnectInv
<1>4. ASSUME NEW c \in Controllers, ProcessConnects(c)
      PROVE  ReconnectInv'
  BY <1>4, KeptReconnect
     DEF ProcessConnects, NewConnection, NextConnectionId, Ignored, reconnectVars, ReconnectInv
<1>5. ASSUME NEW c \in Controllers, ProcessReconnects(c)
      PROVE  ReconnectInv'
  <2> DEFINE n == connectionIdCount
  <2>1. /\ n \in Connections /\ connectionIdCount' = n + 1
        /\ reconnections' = reconnections \cup {n}
        /\ UNCHANGED <<controlChannels, readmitted>>
    BY <1>5 DEF ProcessReconnects, NewConnection, NextConnectionId, Ignored
  <2>2. n \in Nat /\ controlChannels[n] = "NONE"
    BY <2>1 DEF ConsoleInv, TablesInv
  <2>3. \A conn \in reconnections : conn \in Nat
    BY ConnectionsAssumption DEF ReconnectInv
  <2>4. ASSUME NEW conn \in reconnections'
        PROVE  conn < n + 1 /\ controlChannels[conn] # "OPEN"
    <3> HIDE DEF n
    <3>1. CASE conn = n
      BY <2>2, <3>1
    <3>2. CASE conn \in reconnections
      BY <2>2, <2>3, <3>2 DEF ReconnectInv, n
    <3> QED
      BY <2>1, <2>4, <3>1, <3>2
  <2> QED
    BY <2>1, <2>4 DEF ReconnectInv
<1>6. ASSUME NEW conn \in Connections, Validated(conn)
      PROVE  ReconnectInv'
  <2>1. conn \notin reconnections
    BY <1>6, FirstsValidated
  <2>2. /\ controlChannels' = [controlChannels EXCEPT ![conn] = "OPEN"]
        /\ UNCHANGED <<connectionIdCount, reconnections>>
        /\ readmitted' \in BOOLEAN
    BY <1>6 DEF Validated, ReplyValidated, ConnectionValidated, tcpVars
  <2>3. \A m \in reconnections : controlChannels'[m] = controlChannels[m]
    BY <2>1, <2>2 DEF ReconnectInv, ConsoleInv, TablesInv
  <2> QED
    BY <2>2, <2>3, KeptReconnect
<1>7. ASSUME NEW conn \in Connections, NotValidated(conn)
      PROVE  ReconnectInv'
  BY <1>7, KeptReconnect
     DEF NotValidated, ReplyDiscarded, GateTimeout, Discard, Ignored, reconnectVars, ReconnectInv
<1>8. ASSUME NEW conn \in Connections, Disconnected(conn)
      PROVE  ReconnectInv'
  <2>1. SocketDisconnects(conn) /\ UNCHANGED <<connectionIdCount, reconnections, readmitted>>
    BY <1>8 DEF Disconnected, SocketDisconnects, reconnectVars
  <2>2. controlChannels' \in {controlChannels, [controlChannels EXCEPT ![conn] = "GONE"]}
    BY <2>1 DEF SocketDisconnects, ApplicationClosed, Ignored
  <2>3. \A m \in Connections : controlChannels'[m] = "OPEN" => controlChannels[m] = "OPEN"
    BY <2>2 DEF ConsoleInv, TablesInv
  <2> QED
    BY <2>1, <2>3, KeptReconnect DEF ReconnectInv
<1>9. ASSUME NEW conn \in Connections,
             \/ \E id \in Applications \cup {NoApplication} : LaunchApplication(conn, id)
             \/ ExitApplication(conn)
      PROVE  ReconnectInv'
  <2>1. TablesKept /\ UNCHANGED readmitted
    BY <1>9, ResumesWaitAppKeepsChannels
       DEF LaunchApplication, ExitApplication, LeaveApp, Ignored, TablesKept, reconnectVars
  <2> QED
    BY <2>1, KeptReconnect DEF TablesKept, tcpVars, ReconnectInv
<1>10. CASE UNCHANGED consoleVars
  BY <1>10, KeptReconnect
     DEF consoleVars, vars, connectionVars, tcpVars, reconnectVars, ReconnectInv
<1> QED
  BY <1>1, <1>2, <1>3, <1>4, <1>5, <1>6, <1>7, <1>8, <1>9, <1>10 DEF ConsoleNext

LEMMA ScreenStep ==
    ASSUME LaunchInv, [ConsoleNext]_consoleVars, ~readmitted'
    PROVE  ScreenInv'
<1>1. CASE Start
  BY <1>1, StartScreen
<1>2. ASSUME NEW c \in Controllers,
             \/ ProcessStarts(c) \/ ProcessFailsToStart(c) \/ ProcessFinishes(c)
             \/ RelaunchTimerFires(c) \/ ProcessConnects(c)
             \/ ConnectionLost(c) \/ ProcessReconnects(c)
      PROVE  ScreenInv'
  BY <1>2, ProcessStartsScreen, ProcessFailsToStartScreen, ProcessFinishesScreen,
     RelaunchTimerFiresScreen, ProcessConnectsScreen, ConnectionLostScreen,
     ProcessReconnectsScreen
<1>3. ASSUME NEW conn \in Connections,
             \/ Validated(conn) \/ NotValidated(conn) \/ Disconnected(conn)
             \/ \E id \in Applications \cup {NoApplication} : LaunchApplication(conn, id)
             \/ ExitApplication(conn)
      PROVE  ScreenInv'
  BY <1>3, FirstsValidated, ValidatedScreen, NotValidatedScreen, DisconnectedScreen,
     LaunchApplicationScreen, ExitApplicationScreen
<1>4. CASE UNCHANGED consoleVars
  <2>1. TablesKept /\ UNCHANGED <<appIdByCode, uiState, controllers>>
    BY <1>4 DEF consoleVars, vars, connectionVars, registryVars, TablesKept, uiVars, reconnectVars
  <2> QED
    BY <2>1, UnchangedScreen DEF LaunchInv
<1> QED
  BY <1>1, <1>2, <1>3, <1>4 DEF ConsoleNext

-----------------------------------------------------------------------------
(* The players' channels follow the screen.                                *)

\* The wait application is linked once, when the machine leaves startup, and by
\* the connection its process still has if it lives.  So resuming it activates
\* the connection of the process that is shown.
WaitAppLinkedOnce ==
    \A conn \in Connections : appIdByConnectionId[conn] = "waitapp" =>
        /\ uiState \notin {"off", "startup"}
        /\ controllers["waitapp"].connection \in {conn, NoConnection} \cup reconnections

\* What ScreenOwnsPlayers says of the time before a reconnection is validated.
ShownIsActive ==
    LET conn == controllers[Shown].connection
    IN  conn # NoConnection /\ controlChannels[conn] = "OPEN" => activeConnectionId = conn

PlayersInv ==
    /\ frozen \in BOOLEAN
    /\ crashed \in BOOLEAN
    /\ WaitAppLinkedOnce
    /\ ShownIsActive

LEMMA ShownIsController == Shown \in Controllers
BY DEF Shown, Controllers

\* A step that leaves what is shown, the channels and the links as they are.
LEMMA SameShown ==
    ASSUME LaunchInv, PlayersInv, LosesOnly(controllers, controllers'),
           UNCHANGED <<controlChannels, activeConnectionId, appIdByConnectionId, reconnections>>,
           Shown' = Shown,
           uiState' \in {"off", "startup"} => uiState \in {"off", "startup"}
    PROVE  WaitAppLinkedOnce' /\ ShownIsActive'
<1>1. "waitapp" \in Controllers /\ Shown \in Controllers
  BY ShownIsController DEF Controllers
<1>2. WaitAppLinkedOnce'
  BY <1>1 DEF PlayersInv, WaitAppLinkedOnce, LosesOnly
<1>3. ShownIsActive'
  <2> DEFINE m == controllers'[Shown].connection
  <2> SUFFICES ASSUME m # NoConnection, controlChannels[m] = "OPEN"
               PROVE  activeConnectionId = m
    BY DEF ShownIsActive
  <2>1. m = controllers[Shown].connection
    BY <1>1 DEF LosesOnly
  <2> QED
    BY <2>1 DEF PlayersInv, ShownIsActive
<1> QED
  BY <1>2, <1>3

\* A step that shows the wait application again.
LEMMA WaitAppShown ==
    ASSUME LaunchInv, PlayersInv, LosesOnly(controllers, controllers'),
           ResumesWaitApp, UNCHANGED <<appIdByConnectionId, reconnections>>,
           uiState \notin {"off", "startup"},
           Shown' = "waitapp", uiState' \notin {"off", "startup"}
    PROVE  WaitAppLinkedOnce' /\ ShownIsActive' /\ frozen' \in BOOLEAN
<1> DEFINE k == controllers["waitapp"]
           m == k.connection
<1>1. "waitapp" \in Controllers
  BY DEF Controllers
<1>2. WaitAppLinkedOnce'
  BY <1>1 DEF PlayersInv, WaitAppLinkedOnce, LosesOnly
<1>3. frozen' \in BOOLEAN
  BY DEF ResumesWaitApp, PlayersInv
<1>4. UNCHANGED controlChannels
  BY ResumesWaitAppKeepsChannels
<1>5. ASSUME m # NoConnection, controlChannels[m] = "OPEN"
      PROVE  activeConnectionId' = m
  <2>1. Fits("waitapp", k) /\ PresentsProgram(k) /\ LinkedToItsApplication
    BY <1>1 DEF LaunchInv, ScreenInv, ScreenOK, ConnectionsPresent
  <2>2. m \in Connections
    BY <1>1, <1>5 DEF LaunchInv, ConsoleInv, UIInv, ControllersOK, AnyController
  <2>3. k.process = "Running" /\ k.program = "waitapp"
    BY <1>5, <2>1 DEF Fits, IdsOf
  <2>4. appIdByConnectionId[m] # NoApplication
    BY <1>5, <2>2 DEF LaunchInv, ConsoleInv, TablesInv, TablesAgree
  <2>5. appIdByConnectionId[m] = "waitapp"
    BY <1>5, <2>1, <2>2, <2>3, <2>4 DEF LinkedToItsApplication, PresentsProgram
  <2>6. \A conn \in Connections : appIdByConnectionId[conn] = "waitapp" => conn = m
    BY <1>5 DEF PlayersInv, WaitAppLinkedOnce, LaunchInv, ReconnectInv
  <2>7. {conn \in Connections : appIdByConnectionId[conn] = "waitapp"} = {m}
    BY <2>2, <2>5, <2>6
  <2> HIDE DEF m
  <2>8. m <= m
    <3>1. m \in Nat
      BY <2>2, ConnectionsAssumption
    <3> QED
      BY <3>1
  <2>9. ConnectionIdByApplicationId("waitapp") = m
    BY <2>7, <2>8 DEF ConnectionIdByApplicationId
  <2>10. ActivateConnection(m)
    BY <1>5, <2>3, <2>9 DEF ResumesWaitApp, ActivatesWaitApp
  <2> QED
    BY <1>5, <2>10 DEF ActivateConnection, Activation
<1>6. ShownIsActive'
  <2>1. controllers'["waitapp"].connection \in {m, NoConnection}
    BY <1>1 DEF LosesOnly
  <2> HIDE DEF m
  <2> QED
    BY <1>4, <1>5, <2>1 DEF ShownIsActive
<1> QED
  BY <1>2, <1>3, <1>6

LEMMA InitPlayers == ConsoleInit => PlayersInv
<1> SUFFICES ASSUME ConsoleInit PROVE PlayersInv
  OBVIOUS
<1>1. \A conn \in Connections :
        appIdByConnectionId[conn] = NoApplication /\ controlChannels[conn] = "NONE"
  BY DEF ConsoleInit, ConnectionInit, Init
<1>2. WaitAppLinkedOnce
  BY <1>1, Apart DEF WaitAppLinkedOnce
<1>3. controllers[Shown].connection = NoConnection
  <2>1. Shown = "waitapp" /\ "waitapp" \in Controllers
    BY DEF ConsoleInit, Shown, Controllers
  <2>2. controllers["waitapp"] = ControllerOf("waitapp")
    BY DEF ConsoleInit, Controllers
  <2> QED
    BY <2>1, <2>2 DEF ControllerOf
<1> QED
  BY <1>2, <1>3 DEF PlayersInv, ShownIsActive, ConsoleInit

LEMMA StartPlayers == LaunchInv /\ PlayersInv /\ Start => PlayersInv'
<1> SUFFICES ASSUME LaunchInv, PlayersInv, Start PROVE PlayersInv'
  OBVIOUS
<1>1. UNCHANGED <<controlChannels, activeConnectionId, appIdByConnectionId, reconnections, frozen,
                  crashed>>
  BY DEF Start, Ignored, activeVars, reconnectVars
<1>2. Shown' = Shown /\ uiState = "off"
  BY DEF Start, Shown
<1> QED
  BY <1>1, <1>2, StartScreen, SameShown DEF PlayersInv

LEMMA ProcessStartsPlayers ==
    ASSUME LaunchInv, PlayersInv, NEW c \in Controllers, ProcessStarts(c)
    PROVE  PlayersInv'
<1>1. UNCHANGED <<controlChannels, activeConnectionId, appIdByConnectionId, reconnections, frozen,
                  uiState>>
  BY DEF ProcessStarts, Ignored, activeVars, connectionVars, registryVars, reconnectVars
<1>2. crashed' \in BOOLEAN
  BY DEF ProcessStarts
<1>3. Shown' = Shown
  BY <1>1 DEF Shown
<1> QED
  BY <1>1, <1>2, <1>3, ProcessStartsScreen, SameShown DEF PlayersInv

\* A launch that fails leads from one screen of the wait application to another.
LEMMA LaunchFailsShown ==
    ASSUME NEW ks, OnAppLaunchFailed(ks)
    PROVE  Shown' = Shown /\ (uiState' \in {"off", "startup"} => uiState' = uiState)
BY DEF OnAppLaunchFailed, EnterLaunchingMainUI, Shown

LEMMA ProcessFailsToStartPlayers ==
    ASSUME LaunchInv, PlayersInv, NEW c \in Controllers, ProcessFailsToStart(c)
    PROVE  PlayersInv'
<1>1. UNCHANGED <<controlChannels, activeConnectionId, appIdByConnectionId, reconnections, frozen>>
  BY DEF ProcessFailsToStart, Ignored, activeVars, reconnectVars
<1>2. crashed' \in BOOLEAN
  BY DEF ProcessFailsToStart
<1>3. Shown' = Shown /\ (uiState' \in {"off", "startup"} => uiState' = uiState)
  BY LaunchFailsShown DEF ProcessFailsToStart, Shown
<1> QED
  BY <1>1, <1>2, <1>3, ProcessFailsToStartScreen, SameShown DEF PlayersInv

LEMMA ProcessFinishesPlayers ==
    ASSUME LaunchInv, PlayersInv, NEW c \in Controllers, ProcessFinishes(c)
    PROVE  PlayersInv'
<1>1. LosesOnly(controllers, controllers')
  BY ProcessFinishesScreen
<1>2. crashed' \in BOOLEAN /\ UNCHANGED <<appIdByConnectionId, reconnections>>
  BY DEF ProcessFinishes, reconnectVars
<1>3. CASE uiState = "appVisible" /\ LeaveApp(Ended(controllers, c))
  <2>1. ResumesWaitApp /\ uiState' = "waitAppVisibleLaunchingMainUI"
    BY <1>3 DEF LeaveApp, EnterLaunchingMainUI
  <2>2. /\ uiState \notin {"off", "startup"} /\ uiState' \notin {"off", "startup"}
        /\ Shown' = "waitapp"
    BY <1>3, <2>1 DEF Shown
  <2> QED
    BY <1>1, <1>2, <2>1, <2>2, WaitAppShown DEF PlayersInv
<1>4. CASE /\ frozen' = (frozen /\ c # "waitapp")
           /\ Ignored
           /\ OnAppLaunchFailed(Ended(controllers, c)) \/ UNCHANGED uiState
  <2>1. UNCHANGED <<controlChannels, activeConnectionId>>
    BY <1>4 DEF Ignored, activeVars
  <2>2. Shown' = Shown /\ (uiState' \in {"off", "startup"} => uiState' = uiState)
    BY <1>4, LaunchFailsShown DEF Shown
  <2> QED
    BY <1>1, <1>2, <1>4, <2>1, <2>2, SameShown DEF PlayersInv
<1> QED
  BY <1>3, <1>4 DEF ProcessFinishes

LEMMA RelaunchTimerFiresPlayers ==
    ASSUME LaunchInv, PlayersInv, NEW c \in Controllers, RelaunchTimerFires(c)
    PROVE  PlayersInv'
<1>1. UNCHANGED <<controlChannels, activeConnectionId, appIdByConnectionId, reconnections, frozen,
                  crashed>>
  BY DEF RelaunchTimerFires, Ignored, activeVars, reconnectVars
<1>2. Shown' = Shown /\ (uiState' \in {"off", "startup"} => uiState' = uiState)
  BY LaunchFailsShown DEF RelaunchTimerFires, Shown
<1> QED
  BY <1>1, <1>2, RelaunchTimerFiresScreen, SameShown DEF PlayersInv

LEMMA ProcessConnectsPlayers ==
    ASSUME LaunchInv, PlayersInv, NEW c \in Controllers, ProcessConnects(c)
    PROVE  PlayersInv'
<1> DEFINE k == controllers[c]
           n == connectionIdCount
           k1 == [k EXCEPT !.connection = n]
<1>1. /\ UNCHANGED <<controlChannels, activeConnectionId, appIdByConnectionId, reconnections,
                     frozen, crashed, uiState>>
      /\ n \in Connections /\ controllers' = [controllers EXCEPT ![c] = k1]
  BY DEF ProcessConnects, NewConnection, Ignored, activeVars, registryVars, reconnectVars
<1>2. k \in AnyController /\ controllers \in [Controllers -> AnyController]
  BY DEF LaunchInv, ConsoleInv, UIInv, ControllersOK
<1>3. k1.connection = n
  <2> HIDE DEF k
  <2> QED
    BY <1>2 DEF AnyController
<1> HIDE DEF k1
<1>4. controllers'[c].connection = n /\ OthersKept(controllers, controllers', c)
  BY <1>1, <1>2, <1>3 DEF OthersKept
<1>5. n \in Nat /\ controlChannels[n] = "NONE"
  BY <1>1 DEF LaunchInv, ConsoleInv, TablesInv
<1> HIDE DEF n
<1>6. Awaits(uiState, c)
  <2>1. ComesUp(k)
    BY DEF ProcessConnects, ComesUp
  <2> QED
    BY <2>1, NothingPending DEF LaunchInv, Rests
<1>7. Shown' = Shown /\ Shown \in Controllers
  BY <1>1, ShownIsController DEF Shown
<1>8. WaitAppLinkedOnce'
  <2>1. CASE c = "waitapp"
    <3>1. uiState = "startup"
      BY <1>6, <2>1 DEF Awaits
    <3> QED
      BY <1>1, <3>1 DEF PlayersInv, WaitAppLinkedOnce
  <2>2. CASE c # "waitapp"
    <3>1. controllers'["waitapp"] = controllers["waitapp"]
      BY <1>4, <2>2 DEF OthersKept, Controllers
    <3> QED
      BY <1>1, <3>1 DEF PlayersInv, WaitAppLinkedOnce
  <2> QED
    BY <2>1, <2>2
<1>9. ShownIsActive'
  <2>1. CASE c = Shown
    BY <1>1, <1>4, <1>5, <1>7, <2>1 DEF ShownIsActive
  <2>2. CASE c # Shown
    <3>1. controllers'[Shown] = controllers[Shown]
      BY <1>4, <1>7, <2>2 DEF OthersKept
    <3> QED
      BY <1>1, <1>7, <3>1 DEF PlayersInv, ShownIsActive
  <2> QED
    BY <2>1, <2>2
<1> QED
  BY <1>1, <1>8, <1>9 DEF PlayersInv

\* A process loses its connection: it has none that might be open.
LEMMA ConnectionLostPlayers ==
    ASSUME LaunchInv, PlayersInv, NEW c \in Controllers, ConnectionLost(c)
    PROVE  PlayersInv'
<1>1. UNCHANGED <<controlChannels, activeConnectionId, appIdByConnectionId, reconnections, frozen,
                  crashed, uiState>>
  BY DEF ConnectionLost, Ignored, activeVars, connectionVars, registryVars, reconnectVars
<1>2. Shown' = Shown
  BY <1>1 DEF Shown
<1> QED
  BY <1>1, <1>2, ConnectionLostScreen, SameShown DEF PlayersInv

\* It makes another one, which is not open yet.
LEMMA ProcessReconnectsPlayers ==
    ASSUME LaunchInv, PlayersInv, NEW c \in Controllers, ProcessReconnects(c)
    PROVE  PlayersInv'
<1> DEFINE k == controllers[c]
           n == connectionIdCount
           k1 == [k EXCEPT !.connection = n, !.lost = FALSE]
<1>1. /\ UNCHANGED <<controlChannels, activeConnectionId, appIdByConnectionId, frozen, crashed,
                     uiState>>
      /\ n \in Connections /\ controllers' = [controllers EXCEPT ![c] = k1]
      /\ reconnections' = reconnections \cup {n}
  BY DEF ProcessReconnects, NewConnection, Ignored, activeVars, registryVars
<1>2. k \in AnyController /\ controllers \in [Controllers -> AnyController]
  BY DEF LaunchInv, ConsoleInv, UIInv, ControllersOK
<1>3. k1.connection = n
  <2> HIDE DEF k, n
  <2> QED
    BY <1>2 DEF AnyController
<1> HIDE DEF k1
<1>4. controllers'[c].connection = n /\ OthersKept(controllers, controllers', c)
  BY <1>1, <1>2, <1>3 DEF OthersKept
<1>5. controlChannels[n] = "NONE"
  BY <1>1, ConnectionsAssumption DEF LaunchInv, ConsoleInv, TablesInv
<1> HIDE DEF n
<1>6. Shown' = Shown /\ Shown \in Controllers
  BY <1>1, ShownIsController DEF Shown
<1>7. WaitAppLinkedOnce'
  <2> SUFFICES ASSUME NEW conn \in Connections, appIdByConnectionId[conn] = "waitapp"
               PROVE  /\ uiState \notin {"off", "startup"}
                      /\ controllers'["waitapp"].connection
                            \in {conn, NoConnection} \cup reconnections'
    BY <1>1 DEF WaitAppLinkedOnce
  <2>1. "waitapp" \in Controllers
    BY DEF Controllers
  <2> QED
    BY <1>1, <1>4, <2>1 DEF PlayersInv, WaitAppLinkedOnce, OthersKept
<1>8. ShownIsActive'
  <2>1. CASE c = Shown
    BY <1>1, <1>4, <1>5, <1>6, <2>1 DEF ShownIsActive
  <2>2. CASE c # Shown
    <3>1. controllers'[Shown] = controllers[Shown]
      BY <1>4, <1>6, <2>2 DEF OthersKept
    <3> QED
      BY <1>1, <1>6, <3>1 DEF PlayersInv, ShownIsActive
  <2> QED
    BY <2>1, <2>2
<1> QED
  BY <1>1, <1>7, <1>8 DEF PlayersInv

LEMMA ValidatedPlayers ==
    ASSUME LaunchInv, PlayersInv, NEW conn \in Connections, Validated(conn),
           conn \notin reconnections
    PROVE  PlayersInv'
<1> DEFINE id == MatchedApplication(conn)
<1>1. LosesOnly(controllers, controllers')
  BY ValidatedScreen
<1>2. PICK c \in Controllers :
        /\ Awaits(uiState, c) /\ id \in IdsOf(c)
        /\ controllers[c].connection \in {conn, NoConnection} \cup reconnections
        /\ Shown' = c /\ uiState' \notin {"off", "startup"}
  BY ValidatedScreen
<1>3. /\ activeConnectionId' = conn
      /\ appIdByConnectionId' = [appIdByConnectionId EXCEPT ![conn] = id]
      /\ controlChannels' = [controlChannels EXCEPT ![conn] = "OPEN"]
      /\ UNCHANGED <<crashed, reconnections>>
  BY DEF Validated, ReplyValidated, ConnectionValidated, Activation
<1>4. frozen' \in BOOLEAN
  BY DEF Validated, PausesWaitApp, PlayersInv
<1>5. "waitapp" \in Controllers
  BY DEF Controllers
<1> HIDE DEF id
<1>6. ShownIsActive'
  <2>1. controllers'[c].connection \in {conn, NoConnection} \cup reconnections
    BY <1>1, <1>2 DEF LosesOnly
  <2>2. \A m \in reconnections : controlChannels'[m] # "OPEN"
    BY <1>3 DEF LaunchInv, ReconnectInv, ConsoleInv, TablesInv
  <2> QED
    BY <1>2, <1>3, <2>1, <2>2 DEF ShownIsActive
<1>7. WaitAppLinkedOnce'
  <2> SUFFICES ASSUME NEW linked \in Connections, appIdByConnectionId'[linked] = "waitapp"
               PROVE  controllers'["waitapp"].connection
                            \in {linked, NoConnection} \cup reconnections
    BY <1>2, <1>3 DEF WaitAppLinkedOnce
  <2>1. appIdByConnectionId'[linked] = IF linked = conn THEN id ELSE appIdByConnectionId[linked]
    BY <1>3 DEF LaunchInv, ConsoleInv, TablesInv
  <2>2. CASE linked = conn
    <3>1. "waitapp" \in IdsOf(c)
      BY <1>2, <2>1, <2>2
    <3>2. c = "waitapp"
      BY <1>2, <3>1, Apart DEF IdsOf, Controllers
    <3> QED
      BY <1>1, <1>2, <1>5, <2>2, <3>2 DEF LosesOnly
  <2>3. CASE linked # conn
    BY <1>1, <1>5, <2>1, <2>3 DEF LosesOnly, PlayersInv, WaitAppLinkedOnce
  <2> QED
    BY <2>2, <2>3
<1> QED
  BY <1>3, <1>4, <1>6, <1>7 DEF PlayersInv

LEMMA NotValidatedPlayers ==
    ASSUME LaunchInv, PlayersInv, NEW conn \in Connections, NotValidated(conn)
    PROVE  PlayersInv'
<1>1. /\ UNCHANGED <<controlChannels, activeConnectionId, appIdByConnectionId, reconnections>>
      /\ UNCHANGED uiVars
  BY DEF NotValidated, ReplyDiscarded, GateTimeout, Discard, Ignored, activeVars, reconnectVars
<1>2. UNCHANGED <<uiState, frozen, crashed>> /\ Shown' = Shown
  BY <1>1 DEF uiVars, Shown
<1> QED
  BY <1>1, <1>2, NotValidatedScreen, SameShown DEF PlayersInv

\* The connection that goes is no process's any more, so not the shown one's.
LEMMA DisconnectedPlayers ==
    ASSUME LaunchInv, PlayersInv, NEW conn \in Connections, Disconnected(conn)
    PROVE  PlayersInv'
<1>1. UNCHANGED uiVars /\ \A c \in Controllers : controllers[c].connection # conn
  BY DEF Disconnected
<1>2. UNCHANGED <<uiState, controllers, frozen, crashed, reconnections>> /\ Shown' = Shown
  BY <1>1 DEF Disconnected, uiVars, reconnectVars, Shown
<1>3. /\ \A m \in Connections : m # conn => controlChannels'[m] = controlChannels[m]
      /\ activeConnectionId # conn => activeConnectionId' = activeConnectionId
  BY DEF Disconnected, SocketDisconnects, ApplicationClosed, Ignored, activeVars, LaunchInv,
         ConsoleInv, TablesInv
<1>4. \A m \in Connections :
        appIdByConnectionId'[m] \in {appIdByConnectionId[m], NoApplication}
  BY DEF Disconnected, SocketDisconnects, LaunchInv, ConsoleInv, TablesInv
<1>5. WaitAppLinkedOnce'
  BY <1>2, <1>4, Apart DEF PlayersInv, WaitAppLinkedOnce
<1>6. ShownIsActive'
  <2> DEFINE m == controllers[Shown].connection
  <2> SUFFICES ASSUME m # NoConnection, controlChannels'[m] = "OPEN"
               PROVE  activeConnectionId' = m
    BY <1>2 DEF ShownIsActive
  <2>1. m # conn /\ m \in Connections
    BY <1>1, ShownIsController DEF LaunchInv, ConsoleInv, UIInv, ControllersOK, AnyController
  <2>2. activeConnectionId = m
    BY <1>3, <2>1 DEF PlayersInv, ShownIsActive
  <2> QED
    BY <1>3, <2>1, <2>2
<1> QED
  BY <1>2, <1>5, <1>6 DEF PlayersInv

LEMMA LaunchApplicationPlayers ==
    ASSUME LaunchInv, PlayersInv, NEW conn \in Connections,
           NEW id \in Applications \cup {NoApplication}, LaunchApplication(conn, id)
    PROVE  PlayersInv'
<1>1. LosesOnly(controllers, controllers')
  BY LaunchApplicationScreen
<1>2. crashed' \in BOOLEAN /\ UNCHANGED <<appIdByConnectionId, reconnections>>
  BY DEF LaunchApplication, reconnectVars
<1>3. CASE /\ uiState = "mainuiVisible" /\ ResumesWaitApp
           /\ EnterLaunchingApp(AppTaken(controllers, id))
  <2>1. uiState' \in {"waitAppVisibleLaunchingMainUI", "waitAppVisibleLaunchingApp"}
    BY <1>3 DEF EnterLaunchingApp, EnterLaunchingMainUI
  <2>2. /\ uiState \notin {"off", "startup"} /\ uiState' \notin {"off", "startup"}
        /\ Shown' = "waitapp"
    BY <1>3, <2>1 DEF Shown
  <2> QED
    BY <1>1, <1>2, <1>3, <2>2, WaitAppShown DEF PlayersInv
<1>4. CASE Ignored /\ UNCHANGED <<uiState, frozen>>
  <2>1. UNCHANGED <<controlChannels, activeConnectionId>> /\ Shown' = Shown
    BY <1>4 DEF Ignored, activeVars, Shown
  <2> QED
    BY <1>1, <1>2, <1>4, <2>1, SameShown DEF PlayersInv
<1> QED
  BY <1>3, <1>4 DEF LaunchApplication

LEMMA ExitApplicationPlayers ==
    ASSUME LaunchInv, PlayersInv, NEW conn \in Connections, ExitApplication(conn)
    PROVE  PlayersInv'
<1>1. LosesOnly(controllers, controllers')
  BY ExitApplicationScreen
<1>2. crashed' \in BOOLEAN /\ UNCHANGED <<appIdByConnectionId, reconnections>>
  BY DEF ExitApplication, reconnectVars
<1>3. CASE uiState = "appVisible" /\ LeaveApp(controllers)
  <2>1. ResumesWaitApp /\ uiState' = "waitAppVisibleLaunchingMainUI"
    BY <1>3 DEF LeaveApp, EnterLaunchingMainUI
  <2>2. /\ uiState \notin {"off", "startup"} /\ uiState' \notin {"off", "startup"}
        /\ Shown' = "waitapp"
    BY <1>3, <2>1 DEF Shown
  <2> QED
    BY <1>1, <1>2, <2>1, <2>2, WaitAppShown DEF PlayersInv
<1>4. CASE Ignored /\ UNCHANGED <<uiState, frozen>>
  <2>1. UNCHANGED <<controlChannels, activeConnectionId>> /\ Shown' = Shown
    BY <1>4 DEF Ignored, activeVars, Shown
  <2> QED
    BY <1>1, <1>2, <1>4, <2>1, SameShown DEF PlayersInv
<1> QED
  BY <1>3, <1>4 DEF ExitApplication

LEMMA PlayersStep ==
    ASSUME LaunchInv, PlayersInv, [ConsoleNext]_consoleVars, ~readmitted'
    PROVE  PlayersInv'
<1>1. CASE Start
  BY <1>1, StartPlayers
<1>2. ASSUME NEW c \in Controllers,
             \/ ProcessStarts(c) \/ ProcessFailsToStart(c) \/ ProcessFinishes(c)
             \/ RelaunchTimerFires(c) \/ ProcessConnects(c)
             \/ ConnectionLost(c) \/ ProcessReconnects(c)
      PROVE  PlayersInv'
  BY <1>2, ProcessStartsPlayers, ProcessFailsToStartPlayers, ProcessFinishesPlayers,
     RelaunchTimerFiresPlayers, ProcessConnectsPlayers, ConnectionLostPlayers,
     ProcessReconnectsPlayers
<1>3. ASSUME NEW conn \in Connections,
             \/ Validated(conn) \/ NotValidated(conn) \/ Disconnected(conn)
             \/ \E id \in Applications \cup {NoApplication} : LaunchApplication(conn, id)
             \/ ExitApplication(conn)
      PROVE  PlayersInv'
  BY <1>3, FirstsValidated, ValidatedPlayers, NotValidatedPlayers, DisconnectedPlayers,
     LaunchApplicationPlayers, ExitApplicationPlayers
<1>4. CASE UNCHANGED consoleVars
  <2>1. UNCHANGED <<controlChannels, activeConnectionId, appIdByConnectionId, uiState,
                    controllers, frozen, crashed, reconnections>>
    BY <1>4 DEF consoleVars, vars, activeVars, connectionVars, registryVars, uiVars,
                reconnectVars
  <2>2. Shown' = Shown
    BY <2>1 DEF Shown
  <2>3. LosesOnly(controllers, controllers')
    BY <2>1 DEF LosesOnly
  <2> QED
    BY <2>1, <2>2, <2>3, SameShown DEF PlayersInv
<1> QED
  BY <1>1, <1>2, <1>3, <1>4 DEF ConsoleNext

-----------------------------------------------------------------------------
\* What holds until a reconnection is validated.
UntilReadmitted ==
    /\ ConsoleInv
    /\ readmitted \in BOOLEAN
    /\ ~readmitted => LaunchInv /\ PlayersInv

\* Whatever processes, sockets, timers and requests do, and in whatever order,
\* at most one launch is under way, and it is the one the state waits for: until
\* a process whose connection was lost gets another one validated.
THEOREM OneLaunchAtATime == ConsoleSpec => []UntilReadmitted
<1>1. ConsoleInit => UntilReadmitted
  BY InitInv, InitReconnect, InitScreen, InitPlayers
     DEF UntilReadmitted, LaunchInv, ConsoleInit
<1>2. UntilReadmitted /\ [ConsoleNext]_consoleVars => UntilReadmitted'
  <2> SUFFICES ASSUME UntilReadmitted, [ConsoleNext]_consoleVars PROVE UntilReadmitted'
    OBVIOUS
  <2>1. ConsoleInv'
    BY NextInv DEF UntilReadmitted
  <2>2. readmitted' \in BOOLEAN
    BY DEF UntilReadmitted, ConsoleNext, Start, ProcessStarts, ProcessFailsToStart,
           ProcessFinishes, RelaunchTimerFires, ProcessConnects, ConnectionLost,
           ProcessReconnects, Validated, NotValidated, Disconnected, LaunchApplication,
           ExitApplication, reconnectVars, consoleVars
  <2>3. ASSUME ~readmitted' PROVE LaunchInv' /\ PlayersInv'
    <3>1. LaunchInv /\ PlayersInv
      BY <2>3, ReadmittedStays DEF UntilReadmitted
    <3>2. ReconnectInv' /\ ScreenInv' /\ PlayersInv'
      BY <2>3, <3>1, ReconnectStep, ScreenStep, PlayersStep DEF LaunchInv
    <3> QED
      BY <2>1, <3>2 DEF LaunchInv
  <2> QED
    BY <2>1, <2>2, <2>3 DEF UntilReadmitted
<1> QED
  BY <1>1, <1>2, PTL DEF ConsoleSpec

\* The screen's type until then: among others, a controller that launches has a
\* process that starts, and no more than one timer to launch again.
THEOREM ConsoleTypeCorrect == ConsoleSpec => [](~readmitted => ConsoleTypeOK)
<1>1. UntilReadmitted => (~readmitted => ConsoleTypeOK)
  <2> SUFFICES ASSUME LaunchInv, PlayersInv PROVE ConsoleTypeOK
    BY DEF UntilReadmitted
  <2>1. ConnectionTypeOK
    BY DEF LaunchInv, ConsoleInv, TablesInv, UIInv, CodeMap, AnyApplication, ConnectionTypeOK
  <2>2. ASSUME NEW c \in Controllers
        PROVE  /\ controllers[c] \in Controller
               /\ controllers[c].connection # NoConnection => controllers[c].process = "Running"
               /\ controllers[c].currentAction = "STOPPING" => controllers[c].process = "Running"
               /\ controllers[c].lost =>
                    controllers[c].process = "Running" /\ controllers[c].connection = NoConnection
               /\ controllers[c].currentAction = "LAUNCHING" => controllers[c].process = "Starting"
    <3> DEFINE k == controllers[c]
    <3>1. k \in AnyController
      BY DEF LaunchInv, ConsoleInv, UIInv, ControllersOK
    <3>2. Fits(c, k) /\ LaunchesOnce(k, appIdByCode, Pending = {})
      BY DEF LaunchInv, ScreenInv, ScreenOK
    <3> HIDE DEF k
    <3>3. k.waitRounds \in 0..MaxWaitRounds /\ k.relaunchTimers \in 0..MaxWaitRounds
      <4>1. k.waitRounds \in Nat /\ k.relaunchTimers \in {0, 1}
        BY <3>1, <3>2 DEF AnyController, LaunchesOnce
      <4> QED
        BY <3>2, <4>1 DEF Fits, MaxWaitRounds
    <3>4. k \in Controller
      BY <3>1, <3>3 DEF AnyController, AnyApplication, Controller
    <3> QED
      BY <3>2, <3>4 DEF Fits, k
  <2>3. controllers \in [Controllers -> Controller]
    BY <2>2 DEF LaunchInv, ConsoleInv, UIInv, ControllersOK
  <2>4. reconnections \subseteq Connections /\ readmitted \in BOOLEAN
    BY DEF LaunchInv, ReconnectInv
  <2>5. uiState \in UIStates /\ frozen \in BOOLEAN /\ crashed \in BOOLEAN
    BY DEF LaunchInv, ScreenInv, PlayersInv
  <2> QED
    BY <2>1, <2>2, <2>3, <2>4, <2>5 DEF ConsoleTypeOK
<1> QED
  BY <1>1, OneLaunchAtATime, PTL

\* A connection is linked to the application at its other end, however few
\* codes there are, until a reconnection is validated: no code is made while the
\* reply of a first connection that presents it may still be accepted.
THEOREM LinksCorrect == ConsoleSpec => []LinkedUntilReadmitted
<1>1. UntilReadmitted => LinkedUntilReadmitted
  BY DEF UntilReadmitted, LaunchInv, ScreenInv, LinkedUntilReadmitted
<1> QED
  BY <1>1, OneLaunchAtATime, PTL

\* The main UI and the current application never run side by side unless one
\* of them was told to stop, until a reconnection is validated.
THEOREM ForegroundCorrect == ConsoleSpec => []OneInForeground
<1>1. UntilReadmitted => OneInForeground
  <2> SUFFICES ASSUME LaunchInv
               PROVE  Background(controllers["mainui"]) \/ Background(controllers["currentApp"])
    BY DEF UntilReadmitted, OneInForeground, Background
  <2>1. uiState \in UIStates /\ \A c \in Controllers :
            InBackground(uiState, c) => Background(controllers[c])
    BY DEF LaunchInv, ScreenInv, ScreenOK
  <2>2. InBackground(uiState, "mainui") \/ InBackground(uiState, "currentApp")
    BY <2>1 DEF UIStates, InBackground
  <2> QED
    BY <2>1, <2>2 DEF Controllers
<1> QED
  BY <1>1, OneLaunchAtATime, PTL

\* The players' channels belong to the process on the screen, until a
\* reconnection is validated.
THEOREM ScreenCorrect == ConsoleSpec => []ScreenOwnsPlayers
<1>1. UntilReadmitted => ScreenOwnsPlayers
  BY DEF UntilReadmitted, PlayersInv, ShownIsActive, ScreenOwnsPlayers
<1> QED
  BY <1>1, OneLaunchAtATime, PTL

=============================================================================
