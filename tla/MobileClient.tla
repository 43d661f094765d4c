----------------------------- MODULE MobileClient -----------------------------
(***************************************************************************)
(* The mobile application: its screens (gberry-mobile's main.qml and       *)
(* LoginWait.qml) drive LoginModel and ConsoleSession, whose answers and   *)
(* signals come back to them later.  Choosing another user logs the one    *)
(* before out, ends that one's session with the console, logs in and,      *)
(* when that has succeeded, connects again.                                *)
(***************************************************************************)
EXTENDS LoginModel, ConsoleSession

VARIABLES
    waitShown,          \* LoginWait covers the screen
    errorShown,         \* its error dialog, which appears only with it
    reconnectRequired,  \* of LoginWait
    dialogShown,        \* disconnectConsoleDialog covers the screen
    uiState,            \* of the start screen, with the button to connect
    unheard             \* history: it is connecting, but the answer to its session
                        \* request came and was not signalled

\* Sessions are opened under the name of a selected user.
Session == [user : Users, stale : BOOLEAN]

ASSUME SessionAssumption == NoSession \notin Session

waitVars == <<waitShown, errorShown, reconnectRequired>>
startVars == <<uiState, unheard>>
screenVars == <<waitVars, dialogShown, startVars>>
mobileVars == <<loginVars, sessionVars, screenVars>>

MobileInit ==
    /\ LoginInit
    /\ SessionInit
    /\ waitShown = FALSE
    /\ errorShown = FALSE
    /\ reconnectRequired = FALSE
    /\ dialogShown = FALSE
    /\ uiState = "DISCONNECTED"
    /\ unheard = FALSE

-----------------------------------------------------------------------------
\* Of the start screen; a session that is asked for again will be heard of.
Connecting == uiState' = "CONNECTING" /\ unheard' = FALSE
Disconnected == uiState' = "DISCONNECTED" /\ unheard' = FALSE
DisconnectedIf(disconnects) ==
    IF disconnects THEN Disconnected ELSE UNCHANGED startVars

\* What covers the screen takes what the user would do.
Uncovered == ~waitShown /\ ~dialogShown

\* onDisconnectRequested(), if the client is connected.
DisconnectIfConnected_Never == UNCHANGED socket
DisconnectIfConnected == IF connected THEN CloseSession ELSE UNCHANGED socket

\* The session when `user` is selected, overtaken if it was not open yet.
SessionWhile(user) == IF connected THEN session ELSE OvertakenBy(user, session)

\* The login view saves what was typed for a user, without selecting it.
EditUser(user, e) ==
    /\ Uncovered
    /\ SetUser(user, e)
    /\ logins' = LoginsWhile(EmailOf(current, email'))
    /\ UNCHANGED <<current, loggedIn, pendingLogin, sessionVars, screenVars>>

\* The button Login: saveCurrent() and onLogin().  setUser() and
\* selectCurrentUser() both log out, the second time to no effect.
LogsInAs(user, e) ==
    /\ email' = [email EXCEPT ![user] = e]
    /\ current' = user
    /\ CurrentUserChanged
    /\ DisconnectIfConnected
    /\ UnlessClosed(SessionWhile(user))
    /\ UNCHANGED <<loggedIn, errorShown, dialogShown>>

OnLogin(user, e) ==
    /\ Uncovered
    /\ Cardinality(UnderWay) + (IF pendingLogin THEN 1 ELSE 0) < Cardinality(Slots)
    /\ LogsInAs(user, e)
    /\ Login(e)
    /\ asked' = OvertakenBy(user, asked)
    /\ waitShown' = TRUE
    /\ reconnectRequired' = connected
    /\ DisconnectedIf(connected)

\* A guest keeps what is in the email field.
OnGuestLogin(user, e) ==
    /\ Uncovered
    /\ LogsInAs(user, e)
    /\ logins' = LoginsWhile(e)
    /\ IF connected
       THEN OpenSession(user) /\ Connecting
       ELSE asked' = OvertakenBy(user, asked) /\ UNCHANGED startVars
    /\ UNCHANGED <<pendingLogin, waitShown, reconnectRequired>>

\* onLogout(): logout() and, again, because the user is unselected.
OnLogout ==
    /\ Uncovered
    /\ current # NoUser
    /\ Logout
    /\ current' = NoUser
    /\ logins' = LoginsWhile(NoEmail)
    /\ DisconnectIfConnected
    /\ UnlessClosed(SessionWhile(NoUser))
    /\ asked' = OvertakenBy(NoUser, asked)
    /\ DisconnectedIf(connected)
    /\ UNCHANGED <<email, loggedIn, pendingLogin, waitVars, dialogShown>>

\* The button Connect: onConnectRequested().
OnConnectRequested ==
    /\ Uncovered
    /\ uiState = "DISCONNECTED"
    /\ current # NoUser
    /\ OpenSession(current)
    /\ Connecting
    /\ UNCHANGED <<loginVars, socket, session, connected, waitVars, dialogShown>>

\* The menu's Console asks "You are logged in. Disconnect?", which may be answered
\* when the client no longer is.
ConsoleSelected ==
    /\ Uncovered
    /\ connected
    /\ dialogShown' = TRUE
    /\ UNCHANGED <<loginVars, sessionVars, waitVars, startVars>>

OnDisconnectRequested ==
    /\ dialogShown
    /\ dialogShown' = FALSE
    /\ CloseSession
    /\ UnlessClosed(session)
    /\ Disconnected
    /\ UNCHANGED <<loginVars, asked, waitVars>>

OnDisconnectDeclined ==
    /\ dialogShown
    /\ dialogShown' = FALSE
    /\ UNCHANGED <<loginVars, sessionVars, waitVars, startVars>>

\* LoginWait is closed by its user, or with its error dialog.
CloseWait ==
    /\ waitShown
    /\ waitShown' = FALSE
    /\ errorShown' \in {errorShown, FALSE}
    /\ UNCHANGED <<loginVars, sessionVars, reconnectRequired, dialogShown, startVars>>

-----------------------------------------------------------------------------
\* onLoginOk()
OnLoginOk(s) ==
    /\ LoginOk(s)
    /\ waitShown' = FALSE
    /\ IF reconnectRequired /\ current # NoUser
       THEN OpenSession(current) /\ Connecting
       ELSE UNCHANGED <<asked, startVars>>
    /\ UNCHANGED <<socket, session, connected, errorShown, reconnectRequired, dialogShown>>

\* onLoginFailed()
OnLoginFailed(s) ==
    /\ LoginFailed(s)
    /\ errorShown' = TRUE
    /\ UNCHANGED <<sessionVars, waitShown, reconnectRequired, dialogShown, startVars>>

\* A logout that fails is reported as a login that failed.
OnLogoutAnswered ==
    /\ LogoutAnswered
    /\ errorShown' \in {errorShown, TRUE}
    /\ UNCHANGED <<sessionVars, waitShown, reconnectRequired, dialogShown, startVars>>

OnSessionGranted ==
    /\ SessionGranted
    /\ UNCHANGED <<loginVars, screenVars>>

\* onConnectFailed()
OnSessionRefused ==
    /\ SessionRefused
    /\ Disconnected
    /\ UNCHANGED <<loginVars, waitVars, dialogShown>>

OnSessionUnheard ==
    /\ SessionUnheard
    /\ unheard' = (uiState = "CONNECTING")
    /\ UNCHANGED <<loginVars, waitVars, dialogShown, uiState>>

OnSocketConnects ==
    /\ SocketConnects
    /\ UNCHANGED <<loginVars, screenVars>>

\* consoleConnectionClosed calls onDisconnectRequested().
OnSocketCloses ==
    /\ SocketCloses
    /\ Disconnected
    /\ UNCHANGED <<loginVars, waitVars, dialogShown>>

\* The application ends, or is killed, at any time and is started again.
Restart ==
    /\ LoginRestarts
    /\ asked' = NoSession
    /\ socket' = "closed"
    /\ session' = NoSession
    /\ connected' = FALSE
    /\ waitShown' = FALSE
    /\ errorShown' = FALSE
    /\ reconnectRequired' = FALSE
    /\ dialogShown' = FALSE
    /\ Disconnected

-----------------------------------------------------------------------------
MobileNext ==
    \/ \E user \in Users, e \in AnyEmail :
        \/ EditUser(user, e)
        \/ OnLogin(user, e)
        \/ OnGuestLogin(user, e)
    \/ OnLogout
    \/ OnConnectRequested
    \/ ConsoleSelected
    \/ OnDisconnectRequested
    \/ OnDisconnectDeclined
    \/ CloseWait
    \/ \E s \in Slots : OnLoginOk(s) \/ OnLoginFailed(s)
    \/ OnLogoutAnswered
    \/ OnSessionGranted
    \/ OnSessionRefused
    \/ OnSessionUnheard
    \/ OnSocketConnects
    \/ OnSocketCloses
    \/ Restart

MobileSpec == MobileInit /\ [][MobileNext]_mobileVars

-----------------------------------------------------------------------------
(* Properties.                                                             *)

SessionTypeOK ==
    /\ asked \in Session \cup {NoSession}
    /\ socket \in SocketStates
    /\ session \in Session \cup {NoSession}
    /\ connected \in BOOLEAN
    /\ socket = "closed" <=> session = NoSession
    /\ socket = "open" => connected
    /\ connected => socket # "closed"

\* The shape of the state; a websocket has a session, and the client is shown
\* as connected whenever the websocket is open and never when it is closed.
MobileTypeOK ==
    /\ LoginTypeOK
    /\ SessionTypeOK
    /\ waitShown \in BOOLEAN
    /\ errorShown \in BOOLEAN
    /\ reconnectRequired \in BOOLEAN
    /\ dialogShown \in BOOLEAN
    /\ uiState \in {"DISCONNECTED", "CONNECTING"}
    /\ unheard \in BOOLEAN

\* Nobody plays under the name of a user who was deselected: an open websocket
\* is that of the selected user, unless the selection changed while the session
\* was being opened, which nothing cancels.
PlaysAsCurrentUser == socket = "open" => session.user = current \/ session.stale

\* The screen does not wait for nothing: while it says "Logging in" a login is
\* under way or will follow the logout, and while the start screen offers no
\* Connect a session is being opened or a websocket is there.  The one exception
\* is an answer to the session request that is no console's.
ConnectingIsUnderWay == uiState = "CONNECTING" => asked # NoSession \/ socket # "closed"

WaitsForSomething ==
    /\ waitShown /\ ~errorShown => pendingLogin \/ UnderWay # {}
    /\ unheard \/ ConnectingIsUnderWay

\* "if opening fails then signal is emitted": an opening that has failed does not
\* leave the start screen connecting, without its button to connect.
FailedOpeningIsSignalled == ConnectingIsUnderWay

===============================================================================
