---------------------------- MODULE ConsoleSession ----------------------------
(***************************************************************************)
(* The mobile client's session with a console: ConsoleSessionManager asks  *)
(* the console for a session by a REST invocation and opens a websocket    *)
(* with the token it gets; QmlApplication tells the screens whether the    *)
(* client is connected (all in gberry-lib's client).  The console's side   *)
(* of it is module PlayerSessions.                                         *)
(***************************************************************************)
CONSTANTS
    NoSession

VARIABLES
    asked,      \* the session request that is not answered yet, or NoSession
    socket,     \* state of the websocket
    session,    \* the session whose token the websocket carries, unless it is closed
    connected   \* QmlApplication::_loggedIn

sessionVars == <<asked, socket, session, connected>>

SocketStates == {"closed", "connecting", "open", "closing"}

SessionInit ==
    /\ asked = NoSession
    /\ socket = "closed"
    /\ session = NoSession
    /\ connected = FALSE

-----------------------------------------------------------------------------
\* ConsoleSessionManager::open() under a user's name: a request made before is
\* dropped with the factory that made it.  `stale` is the session's user being
\* deselected before the websocket opened.
SessionFor(user) == [user |-> user, stale |-> FALSE]
OpenSession(user) == asked' = SessionFor(user)

\* close(): an open or connecting websocket is closed, now or when its last
\* frame is written.  A request for a session goes on.
CloseSession ==
    socket' \in IF socket \in {"open", "connecting"} THEN {"closing", "closed"} ELSE {socket}

\* onWebsocketClosed(), if that happens now; `s` is the session otherwise.
UnlessClosed_Unheard(s) ==
    /\ UNCHANGED connected
    /\ session' = IF socket' = "closed" THEN NoSession ELSE s
UnlessClosed(s) ==
    /\ connected' = (connected /\ socket' # "closed")
    /\ session' = IF socket' = "closed" THEN NoSession ELSE s

\* onOpenConsoleSessionFinished(): the websocket is opened, which drops the
\* connection it may still have without a signal.
SessionGranted ==
    /\ asked # NoSession
    /\ asked' = NoSession
    /\ socket' = "connecting"
    /\ session' = asked
    /\ UNCHANGED connected

\* The console refused, or the request failed, which is signalled; or an answer of
\* status 200 was neither "ok" nor "error", of which nobody hears: it is not from
\* a console, or not complete.
SessionRefused ==
    /\ asked # NoSession
    /\ asked' = NoSession
    /\ UNCHANGED <<socket, session, connected>>
SessionUnheard == SessionRefused

\* onConnected() and onConsoleSessionOpened()
SocketConnects ==
    /\ socket = "connecting"
    /\ socket' = "open"
    /\ connected' = TRUE
    /\ UNCHANGED <<asked, session>>

\* QWebSocket::disconnected: closed by either side, lost, or never opened.
SocketCloses ==
    /\ socket # "closed"
    /\ socket' = "closed"
    /\ session' = NoSession
    /\ connected' = FALSE
    /\ UNCHANGED asked

\* The sessions not yet open, when another user may be selected.
OvertakenBy(user, s) ==
    IF s # NoSession /\ s.user # user THEN [s EXCEPT !.stale = TRUE] ELSE s

===============================================================================
