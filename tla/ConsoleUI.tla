------------------------------ MODULE ConsoleUI ------------------------------
(***************************************************************************)
(* The console's screen (comms/src): UIAppStateMachine decides which of    *)
(* the wait application, the main UI and the current application is shown, *)
(* three ApplicationControllers launch, freeze and kill their processes,   *)
(* and comms.cpp ties them to the connections and channels of the          *)
(* applications: what is on the screen is validated by a connection, and   *)
(* freezing or resuming the wait application deactivates or activates its  *)
(* channel.                                                                *)
(*                                                                         *)
(* A process and its connection are noticed apart: its end, its socket's   *)
(* disconnect, a reply it sent before and a timer come in any order.  A    *)
(* connection may also be lost while its process lives; the client library *)
(* then makes another one, for which it presents the same code again.      *)
(* QStateMachine handles a signal to the end before the next one, so each  *)
(* callback with the transitions it causes is one action.                  *)
(***************************************************************************)
EXTENDS ConnectionManager, FiniteSets

CONSTANTS
    Applications,       \* application ids the main UI may launch
    MaxReconnections    \* bound: connections made in place of lost ones

ASSUME ApplicationsAssumption ==
    /\ {"waitapp", "mainui"} \cap Applications = {}
    /\ ApplicationIds = {"waitapp", "mainui"} \cup Applications

ASSUME MaxReconnectionsAssumption == MaxReconnections \in Nat

Controllers == {"waitapp", "mainui", "currentApp"}

VARIABLES
    uiState,        \* the state UIAppStateMachine is in
    controllers,    \* of a controller: see Controller
    frozen,         \* the wait application's process is stopped by SIGSTOP
    crashed,        \* the console server dereferenced a null application
    reconnections,  \* connections that a process made in place of a lost one
    readmitted      \* history: one of them was validated

uiVars == <<uiState, controllers, frozen, crashed>>
reconnectVars == <<reconnections, readmitted>>
consoleVars == <<vars, connectionVars, uiVars, reconnectVars>>

UIStates == {"off", "startup", "waitAppVisibleLaunchingMainUI", "mainuiVisible",
             "waitAppVisibleLaunchingApp", "appVisible"}

\* launch() waits at most this often for the previous process to die.
MaxWaitRounds == 3

Controller == [
    app           : ApplicationIds \cup {NoApplication},  \* application to launch
    process       : {"NotRunning", "Starting", "Running"},
    currentAction : {"NONE", "LAUNCHING", "STOPPING"},
    running       : BOOLEAN,
    waitRounds    : 0..MaxWaitRounds,   \* timerCalledCounterForWaiting...
    relaunchTimers: 0..MaxWaitRounds,   \* single shot timers that will launch again
    program       : ApplicationIds \cup {NoApplication},  \* what the process runs
    code          : Codes \cup {NoApplication},           \* its --application-code
    connection    : Connections \cup {NoConnection},      \* its TCP connection
    lost          : BOOLEAN]            \* its last connection was lost

ControllerOf(id) == [
    app |-> id, process |-> "NotRunning", currentAction |-> "NONE", running |-> FALSE,
    waitRounds |-> 0, relaunchTimers |-> 0, program |-> NoApplication,
    code |-> NoApplication, connection |-> NoConnection, lost |-> FALSE]

ConsoleInit ==
    /\ ConnectionInit
    /\ uiState = "off"
    /\ controllers = [c \in Controllers |->
            ControllerOf(IF c = "currentApp" THEN NoApplication ELSE c)]
    /\ frozen = FALSE
    /\ crashed = FALSE
    /\ reconnections = {}
    /\ readmitted = FALSE

-----------------------------------------------------------------------------
(* ApplicationController: operators on the controllers ks.                 *)

\* stop(): a process that has not started yet is not stopped.
Stopped_Never(ks, c) == ks
Stopped_Always(ks, c) == [ks EXCEPT ![c].currentAction = "STOPPING"]
Stopped(ks, c) ==
    IF ks[c].process = "Running"
    THEN [ks EXCEPT ![c].currentAction = "STOPPING"] ELSE ks

LaunchResult(ks, codes, failed) ==
    [controllers |-> ks, codes |-> codes, failed |-> failed]

\* launch(): what may come of it.  While the previous process is being killed
\* it is retried by a timer, three times.  Preparing the execution may fail;
\* its last step creates the identification code.
RoundsAfterDelay_Uncounted(k) == k.waitRounds
RoundsAfterDelay(k) == k.waitRounds + 1

Launches(ks, c, codes) ==
    LET k == ks[c]
        fails == LaunchResult(Stopped(ks, c), codes, TRUE)
        delayed == LaunchResult(
            [ks EXCEPT ![c].relaunchTimers = @ + 1, ![c].waitRounds = RoundsAfterDelay(k)], codes, FALSE)
        \* start() of a process that is not down changes nothing
        started(code) == LaunchResult(
            [ks EXCEPT ![c] = IF k.process = "NotRunning"
                THEN [@ EXCEPT !.currentAction = "LAUNCHING", !.process = "Starting",
                               !.program = k.app, !.code = code]
                ELSE [@ EXCEPT !.currentAction = "LAUNCHING"]],
            CodeCreated(codes, code, k.app), FALSE)
    IN  IF k.currentAction = "STOPPING"
        THEN IF k.waitRounds = MaxWaitRounds THEN {fails} ELSE {delayed}
        ELSE {LaunchResult(ks, codes, TRUE)} \cup
             {started(code) : code \in IF k.app = NoApplication THEN {} ELSE Codes}

\* The process of a controller has ended.
Ended(ks, c) == [ks EXCEPT ![c] = [ControllerOf(@.app) EXCEPT
    !.relaunchTimers = ks[c].relaunchTimers]]

-----------------------------------------------------------------------------
(* UIAppStateMachine: the states' entry and exit actions.                  *)

\* The wait application is shown while the main UI is launched.  Its
\* launchFailed() has no transition.
EnterLaunchingMainUI(ks, codes) ==
    /\ uiState' = "waitAppVisibleLaunchingMainUI"
    /\ \E result \in Launches(ks, "mainui", codes) :
        /\ controllers' = result.controllers
        /\ appIdByCode' = result.codes

\* The main UI is stopped and the current application launched; a launch that
\* fails at once leads back to the main UI.
EnterLaunchingApp(ks) ==
    \E result \in Launches(Stopped(ks, "mainui"), "currentApp", appIdByCode) :
        IF result.failed
        THEN EnterLaunchingMainUI(result.controllers, result.codes)
        ELSE /\ uiState' = "waitAppVisibleLaunchingApp"
             /\ controllers' = result.controllers
             /\ appIdByCode' = result.codes

\* resume() of the wait application, whose signal activates its connection.
ActivatesWaitApp ==
    LET conn == ConnectionIdByApplicationId("waitapp")
    IN  IF conn # NoConnection THEN ActivateConnection(conn) ELSE Ignored

ResumesWaitApp_WithoutActivating == frozen' = FALSE /\ Ignored
ResumesWaitApp ==
    IF controllers["waitapp"].process = "Running"
    THEN frozen' = FALSE /\ ActivatesWaitApp
    ELSE UNCHANGED frozen /\ Ignored

\* pause() of the wait application.  It follows the activation of the connection
\* that was validated, so deactivateConnection() finds the wait application not
\* active any more and returns.
PausesWaitApp == frozen' = (controllers["waitapp"].process = "Running" \/ frozen)

\* Leaving appVisible for the main UI.
LeaveApp(ks) ==
    /\ ResumesWaitApp
    /\ EnterLaunchingMainUI(Stopped(ks, "currentApp"), appIdByCode)

\* launchFailed() of the current application.
OnAppLaunchFailed(ks) ==
    IF uiState = "waitAppVisibleLaunchingApp"
    THEN EnterLaunchingMainUI(ks, appIdByCode)
    ELSE /\ controllers' = ks
         /\ UNCHANGED <<uiState, appIdByCode>>

UnlessCrashed == ~crashed

-----------------------------------------------------------------------------
\* start(): the wait application is launched.
Start ==
    /\ UnlessCrashed
    /\ uiState = "off"
    /\ uiState' = "startup"
    /\ \E result \in Launches(controllers, "waitapp", appIdByCode) :
        /\ controllers' = result.controllers
        /\ appIdByCode' = result.codes
    /\ Ignored
    /\ UNCHANGED <<tcpVars, gatekeepers, appIdByConnectionId, presents, frozen, crashed,
                   reconnectVars>>

\* onProcessStateChanged(): a starting process runs, or fails to.  It logs the id
\* of the application, which useApplication() may have set to null meanwhile.
ProcessStarts(c) ==
    /\ UnlessCrashed
    /\ controllers[c].process = "Starting"
    /\ controllers' = [controllers EXCEPT
            ![c].process = "Running", ![c].running = TRUE, ![c].currentAction = "NONE"]
    /\ crashed' = (controllers[c].app = NoApplication)
    /\ Ignored
    /\ UNCHANGED <<connectionVars, uiState, frozen, reconnectVars>>

ProcessFailsToStart(c) ==
    /\ UnlessCrashed
    /\ controllers[c].process = "Starting"
    /\ crashed' = (controllers[c].app = NoApplication)
    /\ IF c = "currentApp"
       THEN OnAppLaunchFailed(Ended(controllers, c))
       ELSE /\ controllers' = Ended(controllers, c)
            /\ UNCHANGED <<uiState, appIdByCode>>
    /\ Ignored
    /\ UNCHANGED <<tcpVars, gatekeepers, appIdByConnectionId, presents, frozen, reconnectVars>>

\* A process ended by itself or was killed.  onProcessStateChanged() takes the
\* end of a process that was launched once more while it ran for a failed launch;
\* onProcessFinished() reports died(), which is acted upon only for the current
\* application and only in appVisible.
ProcessFinishes(c) ==
    /\ UnlessCrashed
    /\ controllers[c].process = "Running"
    /\ crashed' = (controllers[c].app = NoApplication)
    /\ LET died == controllers[c].running /\ controllers[c].currentAction # "STOPPING"
           failed == c = "currentApp" /\ controllers[c].currentAction = "LAUNCHING"
       IN  IF c = "currentApp" /\ died /\ uiState = "appVisible"
           THEN LeaveApp(Ended(controllers, c))
           ELSE /\ IF failed
                   THEN OnAppLaunchFailed(Ended(controllers, c))
                   ELSE /\ controllers' = Ended(controllers, c)
                        /\ UNCHANGED <<uiState, appIdByCode>>
                /\ frozen' = (frozen /\ c # "waitapp")
                /\ Ignored
    /\ UNCHANGED <<tcpVars, gatekeepers, appIdByConnectionId, presents, reconnectVars>>

\* relaunchAfterDelay()
RelaunchTimerFires(c) ==
    /\ UnlessCrashed
    /\ controllers[c].relaunchTimers > 0
    /\ LET ks == [controllers EXCEPT ![c].relaunchTimers = @ - 1]
       IN  \E result \in Launches(ks, c, appIdByCode) :
            IF c = "currentApp" /\ result.failed
            THEN OnAppLaunchFailed(result.controllers)
            ELSE /\ controllers' = result.controllers
                 /\ appIdByCode' = result.codes
                 /\ UNCHANGED uiState
    /\ Ignored
    /\ UNCHANGED <<tcpVars, gatekeepers, appIdByConnectionId, presents, frozen, crashed,
                   reconnectVars>>

-----------------------------------------------------------------------------
\* The client library of a process connects to the server.
ProcessConnects(c) ==
    /\ UnlessCrashed
    /\ controllers[c].process = "Running"
    /\ controllers[c].connection = NoConnection
    /\ ~controllers[c].lost
    /\ NewConnection(controllers[c].code, controllers[c].program)
    /\ controllers' = [controllers EXCEPT ![c].connection = connectionIdCount]
    /\ UNCHANGED <<uiState, frozen, crashed, reconnectVars>>

\* The connection of a process that lives on is lost.
ConnectionLost(c) ==
    /\ UnlessCrashed
    /\ controllers[c].connection # NoConnection
    /\ Cardinality(reconnections) < MaxReconnections
    /\ controllers' = [controllers EXCEPT
            ![c].connection = NoConnection, ![c].lost = TRUE]
    /\ Ignored
    /\ UNCHANGED <<connectionVars, uiState, frozen, crashed, reconnectVars>>

\* socketDisconnected() opens another connection.  The application code stays
\* what it was, though the server has used it up and may have made the same code
\* for another application since.
ProcessReconnects(c) ==
    /\ UnlessCrashed
    /\ controllers[c].process = "Running"
    /\ controllers[c].lost
    /\ ~(c = "waitapp" /\ frozen)
    /\ NewConnection(controllers[c].code, controllers[c].program)
    /\ controllers' = [controllers EXCEPT
            ![c].connection = connectionIdCount, ![c].lost = FALSE]
    /\ reconnections' = reconnections \cup {connectionIdCount}
    /\ UNCHANGED <<uiState, frozen, crashed, readmitted>>

\* onConnectionValidationOK() and UIAppStateMachine::applicationConnection-
\* Validated(): any id other than waitapp's and mainui's validates the launch of
\* the current application.
Validated(conn) ==
    /\ UnlessCrashed
    /\ ReplyValidated(conn)
    /\ LET id == MatchedApplication(conn)
           shows(state) == /\ uiState' = state
                           /\ PausesWaitApp
                           /\ appIdByCode' = CodeConsumed(conn)
                           /\ UNCHANGED controllers
       IN  CASE id = "waitapp" /\ uiState = "startup" ->
                    EnterLaunchingMainUI(controllers, CodeConsumed(conn)) /\ UNCHANGED frozen
             [] id = "mainui" /\ uiState = "waitAppVisibleLaunchingMainUI" ->
                    shows("mainuiVisible")
             [] id \in Applications /\ uiState = "waitAppVisibleLaunchingApp" ->
                    shows("appVisible")
             [] OTHER ->
                    /\ appIdByCode' = CodeConsumed(conn)
                    /\ UNCHANGED <<uiState, controllers, frozen>>
    /\ readmitted' = (readmitted \/ conn \in reconnections)
    /\ UNCHANGED <<crashed, reconnections>>

\* A reply with an unknown code, or no reply in time.
NotValidated(conn) ==
    /\ UnlessCrashed
    /\ ReplyDiscarded(conn) \/ GateTimeout(conn)
    /\ UNCHANGED <<uiVars, reconnectVars>>

\* The server notices that the other end of the connection is gone.
Disconnected(conn) ==
    /\ UnlessCrashed
    /\ \A c \in Controllers : controllers[c].connection # conn
    /\ SocketDisconnects(conn)
    /\ UNCHANGED <<uiVars, reconnectVars>>

-----------------------------------------------------------------------------
\* LaunchApplication is sent by the main UI and registered only for a connection
\* linked to it, but may be
\* read from it at any time before the disconnect, also after the main UI was
\* told to stop.  useApplication() stops the current application in any state
\* and takes the new one, null if it is not known; only mainuiVisible launches.
AppTaken(ks, id) == [Stopped(ks, "currentApp") EXCEPT !["currentApp"].app = id]

LaunchApplication(conn, id) ==
    /\ UnlessCrashed
    /\ conn \in openSockets
    /\ appIdByConnectionId[conn] = "mainui" /\ presents[conn][2] = "mainui"
    /\ crashed' = (/\ controllers["currentApp"].process = "Running"
                   /\ controllers["currentApp"].app = NoApplication)
    /\ IF uiState = "mainuiVisible"
       THEN /\ ResumesWaitApp
            /\ EnterLaunchingApp(AppTaken(controllers, id))
       ELSE /\ controllers' = AppTaken(controllers, id)
            /\ Ignored
            /\ UNCHANGED <<uiState, appIdByCode, frozen>>
    /\ UNCHANGED <<tcpVars, gatekeepers, appIdByConnectionId, presents, reconnectVars>>

\* ExitApplication of an application compares the application id of its
\* connection with fullApplicationId(), which has the version appended.
ShortId(id) == <<id>>
FullId(id) == <<id, "version">>

IsCurrentApplication(id) == ShortId(id) = FullId(controllers["currentApp"].app)

ExitApplication(conn) ==
    /\ UnlessCrashed
    /\ conn \in openSockets
    /\ appIdByConnectionId[conn] \notin {NoApplication, "mainui"}
    /\ presents[conn][2] \in Applications
    /\ crashed' = (controllers["currentApp"].app = NoApplication)
    /\ IF uiState = "appVisible" /\ IsCurrentApplication(appIdByConnectionId[conn])
       THEN LeaveApp(controllers)
       ELSE /\ Ignored
            /\ UNCHANGED <<uiState, controllers, frozen, appIdByCode>>
    /\ UNCHANGED <<tcpVars, gatekeepers, appIdByConnectionId, presents, reconnectVars>>

-----------------------------------------------------------------------------
ConsoleNext ==
    \/ Start
    \/ \E c \in Controllers :
        \/ ProcessStarts(c)
        \/ ProcessFailsToStart(c)
        \/ ProcessFinishes(c)
        \/ RelaunchTimerFires(c)
        \/ ProcessConnects(c)
        \/ ConnectionLost(c)
        \/ ProcessReconnects(c)
    \/ \E conn \in Connections :
        \/ Validated(conn)
        \/ NotValidated(conn)
        \/ Disconnected(conn)
        \/ \E id \in Applications \cup {NoApplication} : LaunchApplication(conn, id)
        \/ ExitApplication(conn)

ConsoleSpec == ConsoleInit /\ [][ConsoleNext]_consoleVars

\* Timers fire.
TimedConsoleSpec == ConsoleSpec /\ \A c \in Controllers : WF_consoleVars(RelaunchTimerFires(c))

\* Besides, sockets report the end of the process at the other end, and a started
\* process comes up or fails; a killed process need not die soon.
ProcessFairness ==
    /\ \A c \in Controllers : WF_consoleVars(ProcessStarts(c) \/ ProcessFailsToStart(c))
    /\ \A conn \in Connections : WF_consoleVars(Disconnected(conn))

FairConsoleSpec == TimedConsoleSpec /\ ProcessFairness

-----------------------------------------------------------------------------
(* Properties.                                                             *)

ConsoleTypeOK ==
    /\ ConnectionTypeOK
    /\ uiState \in UIStates
    /\ controllers \in [Controllers -> Controller]
    /\ frozen \in BOOLEAN
    /\ crashed \in BOOLEAN
    /\ reconnections \subseteq Connections
    /\ readmitted \in BOOLEAN
    /\ \A c \in Controllers :
        /\ controllers[c].connection # NoConnection => controllers[c].process = "Running"
        /\ controllers[c].currentAction = "STOPPING" => controllers[c].process = "Running"
        /\ controllers[c].lost =>
                controllers[c].process = "Running" /\ controllers[c].connection = NoConnection
        /\ controllers[c].currentAction = "LAUNCHING" /\ ~readmitted =>
                controllers[c].process = "Starting"

\* The controller of what a state of the machine shows.
Shown ==
    IF uiState = "mainuiVisible" THEN "mainui"
    ELSE IF uiState = "appVisible" THEN "currentApp" ELSE "waitapp"

\* The screen and the server trust that a validated connection comes from the
\* process that was just launched.  They are right until a process whose
\* connection was lost answers with a code that has been made once more: the
\* following properties hold, and are stated, until the first such answer.

\* Codes repeat and old ones are never removed, and yet a connection is linked to
\* the application at its other end: no code is made while the reply of a first
\* connection that presents it may still be accepted.
LinkedUntilReadmitted == ~readmitted => LinkedToItsApplication

\* The players' channels belong to what is on the screen: while the process shown
\* has a control channel, its connection is the active one.  The state machine
\* and the channel manager are switched by different callbacks, and no code
\* compares the two.
ScreenOwnsPlayers ==
    LET conn == controllers[Shown].connection
    IN  ~readmitted /\ conn # NoConnection /\ controlChannels[conn] = "OPEN" =>
            activeConnectionId = conn

\* Only one of the main UI and the current application runs without having been
\* told to stop: the console never leaves one behind the other.
OneInForeground ==
    ~readmitted =>
        \E c \in {"mainui", "currentApp"} :
            controllers[c].process = "NotRunning" \/ controllers[c].currentAction = "STOPPING"

\* A launch that was delayed is started or given up, even if the previous
\* process never dies.
DelayedLaunchSettles ==
    \A c \in Controllers :
        controllers[c].relaunchTimers > 0 ~> (controllers[c].relaunchTimers = 0 \/ crashed)

\* "if application dies -> launch mainui (while showing wait screen)".
DeathShowsMainUI ==
    /\ Shown = "currentApp"
    /\ controllers["currentApp"].process = "NotRunning"
    ~> (Shown # "currentApp" \/ crashed)

=============================================================================
