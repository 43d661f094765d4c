-------------------------- MODULE MobileClientProofs --------------------------
(***************************************************************************)
(* Proofs about the mobile client, for any number of users, emails and     *)
(* logins under way.  The properties are not inductive: what a late answer *)
(* brings depends on what its request recorded, so the invariant also says *)
(* of every login and every session under way that it is the current       *)
(* user's or was overtaken, and of the ini file that it may be restored.   *)
(***************************************************************************)
EXTENDS MobileClient, TLAPS

\* Logins under way that are not overtaken are for the current email e.
RequestsFollow(requests, e) ==
    \A s \in Slots : requests[s] # NoRequest =>
        requests[s].overtaken \/ requests[s].email = e

SavedMayBeRestored == saved.email # NoEmail => Serves(saved.token, saved.email)

LoginInv ==
    /\ LoginTypeOK
    /\ LoggedInAsCurrentUser
    /\ LogoutUnderWay
    /\ RequestsFollow(logins, CurrentEmail)
    /\ SavedMayBeRestored

IsOf(s, user) == s.user = user \/ s.stale

\* A session that is open, or may still be opened, is the selected user's.
SessionsFollow ==
    /\ asked # NoSession => IsOf(asked, current)
    /\ socket \in {"connecting", "open"} => IsOf(session, current)

MobileInv ==
    /\ MobileTypeOK
    /\ LoginInv
    /\ SessionsFollow
    /\ WaitsForSomething

-----------------------------------------------------------------------------
(* What the operations of LoginModel do, whichever screen calls them.        *)

LEMMA EmailOfType ==
    ASSUME NEW user \in Users \cup {NoUser}, NEW emails \in [Users -> AnyEmail]
    PROVE  EmailOf(user, emails) \in AnyEmail
  BY DEF EmailOf, AnyEmail

LEMMA LoginsWhileFollow ==
    ASSUME NEW e \in AnyEmail,
           logins \in [Slots -> Request \cup {NoRequest}]
    PROVE  /\ LoginsWhile(e) \in [Slots -> Request \cup {NoRequest}]
           /\ RequestsFollow(LoginsWhile(e), e)
           /\ \A s \in Slots : LoginsWhile(e)[s] = NoRequest <=> logins[s] = NoRequest
  <1> USE LoginAssumption
  <1>1. ASSUME NEW s \in Slots
        PROVE  /\ LoginsWhile(e)[s] \in Request \cup {NoRequest}
               /\ LoginsWhile(e)[s] # NoRequest =>
                    LoginsWhile(e)[s].overtaken \/ LoginsWhile(e)[s].email = e
               /\ LoginsWhile(e)[s] = NoRequest <=> logins[s] = NoRequest
    <2>1. CASE logins[s] = NoRequest
      BY <2>1 DEF LoginsWhile, UnderWay
    <2>2. CASE logins[s] # NoRequest /\ logins[s].email = e
      BY <2>2 DEF LoginsWhile, UnderWay
    <2>3. CASE logins[s] # NoRequest /\ logins[s].email # e
      <3>1. LoginsWhile(e)[s] = [logins[s] EXCEPT !.overtaken = TRUE]
        BY <2>3 DEF LoginsWhile, UnderWay
      <3>2. logins[s] \in Request
        BY <2>3
      <3>3. [logins[s] EXCEPT !.overtaken = TRUE] \in Request
        BY <3>2 DEF Request
      <3>4. [logins[s] EXCEPT !.overtaken = TRUE].overtaken
        BY <3>2 DEF Request
      <3> QED
        BY <2>3, <3>1, <3>3, <3>4
    <2> QED
      BY <2>1, <2>2, <2>3
  <1>2. LoginsWhile(e) \in [Slots -> Request \cup {NoRequest}]
    BY <1>1 DEF LoginsWhile
  <1> QED
    BY <1>1, <1>2 DEF RequestsFollow

LEMMA DoLoginFollows ==
    ASSUME NEW e \in AnyEmail,
           logins \in [Slots -> Request \cup {NoRequest}],
           DoLogin(e)
    PROVE  /\ logins' \in [Slots -> Request \cup {NoRequest}]
           /\ RequestsFollow(logins', e)
           /\ UnderWay' # {}
  <1> DEFINE asks == [email |-> e, overtaken |-> FALSE]
  <1>1. PICK s \in Slots : logins' = [LoginsWhile(e) EXCEPT ![s] = asks]
    BY DEF DoLogin
  <1>2. asks \in Request /\ asks # NoRequest /\ asks.email = e
    <2>1. asks \in Request
      BY DEF Request
    <2> QED
      BY <2>1, LoginAssumption
  <1>3. LoginsWhile(e) \in [Slots -> Request \cup {NoRequest}]
    BY LoginsWhileFollow
  <1> HIDE DEF asks
  <1>4. logins' \in [Slots -> Request \cup {NoRequest}]
    BY <1>1, <1>2, <1>3
  <1>5. logins'[s] = asks /\ \A t \in Slots \ {s} : logins'[t] = LoginsWhile(e)[t]
    BY <1>1, <1>3
  <1>6. RequestsFollow(logins', e)
    BY <1>2, <1>5, LoginsWhileFollow DEF RequestsFollow
  <1> QED
    BY <1>2, <1>4, <1>5, <1>6 DEF UnderWay

\* After a logout whoever is current is not signed in as somebody else.
LEMMA LogoutKeeps ==
    ASSUME LoginTypeOK, LoggedInAsCurrentUser, LogoutUnderWay, SavedMayBeRestored,
           Logout
    PROVE  /\ token' \in Token /\ keptEmail' \in AnyEmail
           /\ saved' \in [email : AnyEmail, token : Token]
           /\ pendingLogout' \in BOOLEAN /\ logouts' \in Nat
           /\ logouts' = IF pendingLogout' THEN 1 ELSE 0
           /\ pendingLogout => pendingLogout'
           /\ loggedIn => pendingLogout'
           /\ SavedMayBeRestored'
  <1>1. CASE loggedIn /\ ~pendingLogout
    <2>1. Serves(token, CurrentEmail) /\ logouts = 0
      BY <1>1 DEF LoggedInAsCurrentUser, LogoutUnderWay
    <2>2. /\ keptEmail' = NoEmail /\ token' = NoToken
          /\ saved' = [email |-> NoEmail, token |-> NoToken]
          /\ pendingLogout' = TRUE /\ logouts' = 1
      BY <1>1, <2>1 DEF Logout, Keeps, Serves
    <2> QED
      BY <2>2 DEF SavedMayBeRestored, Token, AnyEmail
  <1>2. CASE ~(loggedIn /\ ~pendingLogout)
    <2>1. UNCHANGED <<tokenVars, pendingLogout, logouts>>
      BY <1>2 DEF Logout
    <2> QED
      BY <1>2, <2>1 DEF tokenVars, LoginTypeOK, LogoutUnderWay, SavedMayBeRestored, Serves
  <1> QED
    BY <1>1, <1>2

\* login() asks for the new current user, now or after the logout.
LEMMA LoginFollows ==
    ASSUME NEW e \in AnyEmail, LoginTypeOK, Login(e)
    PROVE  /\ logins' \in [Slots -> Request \cup {NoRequest}]
           /\ RequestsFollow(logins', e)
           /\ pendingLogin' \in BOOLEAN
           /\ pendingLogin' => loggedIn
           /\ pendingLogin' \/ UnderWay' # {}
  <1>1. CASE loggedIn
    BY <1>1, LoginsWhileFollow DEF Login, LoginTypeOK
  <1>2. CASE ~loggedIn
    BY <1>2, DoLoginFollows DEF Login, LoginTypeOK
  <1> QED
    BY <1>1, <1>2

LEMMA CurrentEmailType == LoginTypeOK => CurrentEmail \in AnyEmail
  BY EmailOfType DEF LoginTypeOK, CurrentEmail

-----------------------------------------------------------------------------
(* LoginInv is kept by each kind of step.                                    *)

LEMMA LoginInit_Inv == LoginInit => LoginInv
  <1> SUFFICES ASSUME LoginInit PROVE LoginInv
    OBVIOUS
  <1>1. LoginTypeOK
    BY DEF LoginInit, LoginTypeOK, Token, AnyEmail
  <1> QED
    BY <1>1 DEF LoginInit, LoginInv, LoggedInAsCurrentUser, LogoutUnderWay,
        RequestsFollow, SavedMayBeRestored

LEMMA Unchanged_LoginInv == LoginInv /\ UNCHANGED loginVars => LoginInv'
  BY DEF LoginInv, loginVars, userVars, tokenVars, LoginTypeOK, LoggedInAsCurrentUser,
      LogoutUnderWay, RequestsFollow, SavedMayBeRestored, CurrentEmail, Serves

LEMMA SetUser_LoginInv ==
    ASSUME LoginInv, NEW user \in Users, NEW e \in AnyEmail,
           SetUser(user, e),
           logins' = LoginsWhile(EmailOf(current, email')),
           UNCHANGED <<current, loggedIn, pendingLogin>>
    PROVE  LoginInv'
  <1> USE DEF LoginInv
  <1>1. email' \in [Users -> AnyEmail]
    BY DEF SetUser, LoginTypeOK
  <1>2. CurrentEmail' = EmailOf(current, email') /\ CurrentEmail' \in AnyEmail
    BY <1>1, EmailOfType DEF CurrentEmail, LoginTypeOK
  <1>3. /\ logins' \in [Slots -> Request \cup {NoRequest}]
        /\ RequestsFollow(logins', CurrentEmail')
    BY <1>2, LoginsWhileFollow DEF LoginTypeOK
  <1>4. CASE user = current
    <2>1. Logout
      BY <1>4 DEF SetUser, CurrentUserChanged
    <2>2. LoginTypeOK'
      BY <1>1, <1>3, <2>1, LogoutKeeps DEF LoginTypeOK
    <2>3. LoggedInAsCurrentUser' /\ LogoutUnderWay' /\ SavedMayBeRestored'
      BY <2>1, LogoutKeeps DEF LoggedInAsCurrentUser, LogoutUnderWay
    <2> QED
      BY <1>3, <2>2, <2>3
  <1>5. CASE user # current
    <2>1. UNCHANGED <<token, keptEmail, saved, pendingLogout, logouts>>
      BY <1>5 DEF SetUser, tokenVars
    <2>2. LoginTypeOK'
      BY <1>1, <1>3, <2>1 DEF LoginTypeOK
    <2>3. CurrentEmail' = CurrentEmail
      BY <1>2, <1>5 DEF SetUser, CurrentEmail, EmailOf, LoginTypeOK
    <2>4. LoggedInAsCurrentUser' /\ LogoutUnderWay' /\ SavedMayBeRestored'
      BY <2>1, <2>3 DEF LoggedInAsCurrentUser, LogoutUnderWay, SavedMayBeRestored, Serves
    <2> QED
      BY <1>3, <2>2, <2>4
  <1> QED
    BY <1>4, <1>5

\* Another user is selected, or none, and whoever was signed in is logged out.
LEMMA Select_LoginInv ==
    ASSUME LoginInv, NEW e \in AnyEmail, Logout,
           current' \in Users \cup {NoUser},
           email' \in [Users -> AnyEmail],
           EmailOf(current', email') = e,
           \/ Login(e)
           \/ logins' = LoginsWhile(e) /\ UNCHANGED pendingLogin,
           UNCHANGED loggedIn
    PROVE  LoginInv'
  <1> USE DEF LoginInv
  <1>1. CurrentEmail' = e
    BY DEF CurrentEmail
  <1>2. /\ logins' \in [Slots -> Request \cup {NoRequest}]
        /\ RequestsFollow(logins', e)
        /\ pendingLogin' \in BOOLEAN
        /\ pendingLogin' => loggedIn \/ pendingLogin
    BY LoginFollows, LoginsWhileFollow DEF LoginTypeOK
  <1>3. LoginTypeOK'
    BY <1>2, LogoutKeeps DEF LoginTypeOK
  <1>4. LogoutUnderWay'
    BY <1>2, LogoutKeeps DEF LogoutUnderWay
  <1>5. LoggedInAsCurrentUser' /\ SavedMayBeRestored'
    BY LogoutKeeps DEF LoggedInAsCurrentUser
  <1> QED
    BY <1>1, <1>2, <1>3, <1>4, <1>5

LEMMA LoginOk_LoginInv ==
    ASSUME LoginInv, NEW s \in Slots, LoginOk(s)
    PROVE  LoginInv'
  <1> USE DEF LoginInv
  <1> DEFINE new == [owner |-> logins[s].email, overtaken |-> logins[s].overtaken]
  <1>1. logins[s] \in Request /\ logins[s] # NoRequest
    BY DEF LoginOk, UnderWay, LoginTypeOK
  <1>2. logins[s].email \in Emails /\ logins[s].overtaken \in BOOLEAN
    BY <1>1 DEF LoginOk, Request, AnyEmail
  <1>3. new \in TokenOfUser
    BY <1>2 DEF TokenOfUser
  <1>4. new # NoToken
    BY <1>3, LoginAssumption
  <1>5. logins[s].overtaken \/ logins[s].email = CurrentEmail
    BY <1>1 DEF RequestsFollow
  <1>6. Serves(new, CurrentEmail)
    BY <1>4, <1>5 DEF Serves
  <1>7. /\ token' = new /\ keptEmail' = CurrentEmail
        /\ saved' = [email |-> CurrentEmail, token |-> new]
        /\ CurrentEmail' = CurrentEmail
    BY DEF LoginOk, Keeps, CurrentEmail, userVars
  <1> HIDE DEF new
  <1>8. LoginTypeOK'
    BY <1>3, <1>7, CurrentEmailType DEF LoginTypeOK, LoginOk, userVars, Token
  <1>9. LoggedInAsCurrentUser' /\ SavedMayBeRestored'
    BY <1>6, <1>7 DEF LoggedInAsCurrentUser, SavedMayBeRestored, Serves
  <1>10. RequestsFollow(logins', CurrentEmail')
    BY <1>7 DEF RequestsFollow, LoginOk, LoginTypeOK
  <1>11. LogoutUnderWay'
    BY DEF LogoutUnderWay, LoginOk
  <1> QED
    BY <1>8, <1>9, <1>10, <1>11

LEMMA LoginFailed_LoginInv ==
    ASSUME LoginInv, NEW s \in Slots, LoginFailed(s)
    PROVE  LoginInv'
  <1> USE DEF LoginInv
  <1>1. LoginTypeOK'
    BY DEF LoginFailed, LoginTypeOK, userVars, tokenVars
  <1>2. CurrentEmail' = CurrentEmail
    BY DEF LoginFailed, CurrentEmail, userVars
  <1>3. RequestsFollow(logins', CurrentEmail')
    BY <1>2 DEF RequestsFollow, LoginFailed, LoginTypeOK
  <1> QED
    BY <1>1, <1>3 DEF LoginFailed, tokenVars, LoggedInAsCurrentUser, LogoutUnderWay,
        SavedMayBeRestored, Serves

LEMMA LogoutAnswered_LoginInv ==
    ASSUME LoginInv, LogoutAnswered
    PROVE  /\ LoginInv'
           /\ pendingLogin => UnderWay' # {}
           /\ ~pendingLogin => UNCHANGED logins
  <1> USE DEF LoginInv
  <1>1. CurrentEmail' = CurrentEmail /\ CurrentEmail \in AnyEmail
    BY CurrentEmailType DEF LogoutAnswered, CurrentEmail, userVars
  <1>2. /\ logins' \in [Slots -> Request \cup {NoRequest}]
        /\ RequestsFollow(logins', CurrentEmail)
        /\ pendingLogin' = FALSE
        /\ pendingLogin => UnderWay' # {}
        /\ ~pendingLogin => UNCHANGED logins
    BY <1>1, DoLoginFollows DEF LogoutAnswered, AfterLogout, LoginTypeOK
  <1>3. logouts' = 0 /\ pendingLogout' = FALSE /\ loggedIn' = FALSE
    BY DEF LogoutAnswered, LogoutUnderWay, LoginTypeOK
  <1>4. UNCHANGED <<current, email, token, keptEmail, saved>>
    BY DEF LogoutAnswered, userVars, tokenVars
  <1> HIDE DEF LoginInv
  <1>5. LoginTypeOK
    BY DEF LoginInv
  <1>6. LoginTypeOK'
    BY <1>2, <1>3, <1>4, <1>5 DEF LoginTypeOK
  <1>7. SavedMayBeRestored'
    BY <1>4 DEF LoginInv, SavedMayBeRestored, Serves
  <1> QED
    BY <1>1, <1>2, <1>3, <1>6, <1>7 DEF LoginInv, LoggedInAsCurrentUser, LogoutUnderWay

LEMMA LoginRestarts_LoginInv ==
    ASSUME LoginInv, LoginRestarts
    PROVE  LoginInv'
  <1> USE DEF LoginInv
  <1>1. LoginTypeOK'
    BY DEF LoginRestarts, LoginTypeOK, Token, AnyEmail, MayRestore, userVars
  <1>2. CurrentEmail' = CurrentEmail
    BY DEF LoginRestarts, CurrentEmail, userVars
  <1>3. LoggedInAsCurrentUser'
    BY <1>2 DEF LoginRestarts, LoggedInAsCurrentUser, MayRestore, SavedMayBeRestored
  <1> QED
    BY <1>1, <1>3 DEF LoginRestarts, LogoutUnderWay, RequestsFollow, SavedMayBeRestored,
        Serves

-----------------------------------------------------------------------------
(* The session with the console.                                             *)

LEMMA OvertakenIsOf ==
    ASSUME NEW user, NEW s \in Session \cup {NoSession}
    PROVE  /\ OvertakenBy(user, s) \in Session \cup {NoSession}
           /\ OvertakenBy(user, s) = NoSession <=> s = NoSession
           /\ s # NoSession => IsOf(OvertakenBy(user, s), user)
  <1> USE SessionAssumption
  <1>1. CASE s = NoSession \/ s.user = user
    BY <1>1 DEF OvertakenBy, IsOf
  <1>2. CASE s # NoSession /\ s.user # user
    <2>1. OvertakenBy(user, s) = [s EXCEPT !.stale = TRUE] /\ s \in Session
      BY <1>2 DEF OvertakenBy
    <2>2. [s EXCEPT !.stale = TRUE] \in Session /\ [s EXCEPT !.stale = TRUE].stale
      BY <2>1 DEF Session
    <2> QED
      BY <1>2, <2>1, <2>2 DEF IsOf
  <1> QED
    BY <1>1, <1>2

LEMMA SessionForType ==
    ASSUME NEW user \in Users
    PROVE  /\ SessionFor(user) \in Session
           /\ SessionFor(user) # NoSession
           /\ IsOf(SessionFor(user), user)
  <1>1. SessionFor(user) \in Session
    BY DEF SessionFor, Session
  <1> QED
    BY <1>1, SessionAssumption DEF IsOf, SessionFor

\* Selecting another user ends a session that is open, and overtakes one that
\* is being opened.
LEMMA SelectSession ==
    ASSUME SessionTypeOK, NEW user, DisconnectIfConnected, UnlessClosed(SessionWhile(user))
    PROVE  /\ socket' \in SocketStates
           /\ session' \in Session \cup {NoSession}
           /\ connected' \in BOOLEAN
           /\ socket' = "closed" <=> session' = NoSession
           /\ socket' = "open" => connected'
           /\ connected' => socket' # "closed"
           /\ socket' \in {"connecting", "open"} => IsOf(session', user)
           /\ ~connected => UNCHANGED socket
  <1>1. CASE connected
    <2>1. socket' \in SocketStates \ {"connecting", "open"}
      BY <1>1 DEF DisconnectIfConnected, CloseSession, SessionTypeOK, SocketStates
    <2> QED
      BY <1>1, <2>1 DEF UnlessClosed, SessionWhile, SessionTypeOK, SocketStates
  <1>2. CASE ~connected
    <2>1. socket' = socket /\ connected' = FALSE
      BY <1>2 DEF DisconnectIfConnected, UnlessClosed
    <2>2. session' = IF socket = "closed" THEN NoSession ELSE OvertakenBy(user, session)
      BY <1>2, <2>1 DEF UnlessClosed, SessionWhile
    <2> QED
      BY <1>2, <2>1, <2>2, OvertakenIsOf DEF SessionTypeOK
  <1> QED
    BY <1>1, <1>2 DEF SessionTypeOK

-----------------------------------------------------------------------------
(* MobileInv is inductive.                                                   *)

LEMMA MobileInit_Inv == MobileInit => MobileInv
  <1> SUFFICES ASSUME MobileInit PROVE MobileInv
    OBVIOUS
  <1>1. LoginInv
    BY LoginInit_Inv DEF MobileInit
  <1>2. MobileTypeOK
    BY <1>1 DEF MobileInit, SessionInit, MobileTypeOK, SessionTypeOK, SocketStates, LoginInv
  <1> QED
    BY <1>1, <1>2
        DEF MobileInit, SessionInit, MobileInv, SessionsFollow, WaitsForSomething,
            ConnectingIsUnderWay

\* The three buttons that select a user, or none.
LEMMA Selecting_Inv ==
    ASSUME MobileInv, NEW user \in Users \cup {NoUser}, NEW e \in AnyEmail,
           current' = user,
           email' \in [Users -> AnyEmail],
           EmailOf(user, email') = e,
           Logout,
           DisconnectIfConnected,
           UnlessClosed(SessionWhile(user)),
           UNCHANGED loggedIn,
           \/ Login(e) /\ waitShown' = TRUE
           \/ logins' = LoginsWhile(e) /\ UNCHANGED pendingLogin /\ waitShown' = FALSE,
           \/ asked' = OvertakenBy(user, asked) /\ DisconnectedIf(connected)
           \/ connected /\ asked' \in Session /\ IsOf(asked', user) /\ Connecting,
           UNCHANGED <<errorShown, dialogShown>>,
           reconnectRequired' \in BOOLEAN
    PROVE  MobileInv'
  <1>1. LoginInv /\ LoginTypeOK /\ SessionTypeOK
    BY DEF MobileInv, MobileTypeOK
  <1>2. LoginInv'
    <2>1. \/ Login(e)
          \/ logins' = LoginsWhile(e) /\ UNCHANGED pendingLogin
      OBVIOUS
    <2>2. current' \in Users \cup {NoUser} /\ EmailOf(current', email') = e
      OBVIOUS
    <2> QED
      BY <1>1, <2>1, <2>2, Select_LoginInv
  <1>3. /\ asked' \in Session \cup {NoSession}
        /\ asked' # NoSession => IsOf(asked', user)
        /\ asked # NoSession => asked' # NoSession
    BY <1>1, OvertakenIsOf, SessionAssumption DEF SessionTypeOK
  <1>4. SessionTypeOK'
    BY <1>1, <1>3, SelectSession DEF SessionTypeOK
  <1>5. SessionsFollow'
    BY <1>1, <1>3, SelectSession DEF SessionsFollow
  <1>6. MobileTypeOK'
    BY <1>2, <1>4
    DEF MobileTypeOK, LoginInv, MobileInv, Connecting, Disconnected, DisconnectedIf, startVars
  <1>7. waitShown' => pendingLogin' \/ UnderWay' # {}
    BY <1>1, LoginFollows
  <1>8. unheard' \/ ConnectingIsUnderWay'
    <2>1. CASE asked' \in Session
      BY <2>1, SessionAssumption DEF ConnectingIsUnderWay
    <2>2. CASE UNCHANGED startVars /\ ~connected
      <3>1. socket' = socket
        BY <1>1, <2>2, SelectSession
      <3> QED
        BY <1>3, <2>2, <3>1 DEF MobileInv, WaitsForSomething, ConnectingIsUnderWay, startVars
    <2> QED
      BY <2>1, <2>2 DEF DisconnectedIf, Disconnected, ConnectingIsUnderWay
  <1> QED
    BY <1>2, <1>5, <1>6, <1>7, <1>8 DEF MobileInv, WaitsForSomething

LEMMA SessionSteps_Inv ==
    ASSUME MobileInv,
           \/ OnConnectRequested \/ ConsoleSelected \/ OnDisconnectRequested
           \/ OnDisconnectDeclined \/ CloseWait
           \/ OnSessionGranted \/ OnSessionRefused \/ OnSessionUnheard
           \/ OnSocketConnects \/ OnSocketCloses
    PROVE  MobileInv'
  <1> USE DEF MobileInv, waitVars, startVars, Connecting, Disconnected, ConnectingIsUnderWay
  <1>1. UNCHANGED loginVars
    BY DEF OnConnectRequested, ConsoleSelected, OnDisconnectRequested, OnDisconnectDeclined,
        CloseWait, OnSessionGranted, OnSessionRefused, OnSessionUnheard, OnSocketConnects,
        OnSocketCloses
  <1>2. LoginInv'
    BY <1>1, Unchanged_LoginInv
  <1>3. UNCHANGED <<current, pendingLogin, logins>> /\ LoginTypeOK'
    BY <1>1, <1>2 DEF loginVars, userVars, LoginInv
  <1>4. UNCHANGED UnderWay
    BY <1>3 DEF UnderWay
  <1>5. SessionTypeOK
    BY DEF MobileTypeOK
  <1>6. CASE OnConnectRequested
    <2>1. SessionFor(current) \in Session /\ SessionFor(current) # NoSession
          /\ IsOf(SessionFor(current), current)
      BY <1>6, SessionForType DEF OnConnectRequested, LoginInv, LoginTypeOK
    <2>2. asked' = SessionFor(current) /\ UNCHANGED <<socket, session, connected>>
      BY <1>6 DEF OnConnectRequested, OpenSession
    <2>3. SessionTypeOK'
      BY <1>5, <2>1, <2>2 DEF SessionTypeOK
    <2>4. SessionsFollow'
      BY <1>3, <2>1, <2>2 DEF SessionsFollow, IsOf
    <2> QED
      BY <1>2, <1>3, <1>4, <1>6, <2>1, <2>2, <2>3, <2>4
          DEF OnConnectRequested, MobileTypeOK, WaitsForSomething
  <1>7. CASE OnDisconnectRequested
    <2>1. socket' \in SocketStates \ {"connecting", "open"}
      BY <1>5, <1>7 DEF OnDisconnectRequested, CloseSession, SessionTypeOK, SocketStates
    <2>4. UNCHANGED asked /\ UnlessClosed(session)
      BY <1>7 DEF OnDisconnectRequested
    <2>2. SessionTypeOK'
      <3>1. session' = IF socket' = "closed" THEN NoSession ELSE session
        BY <2>4 DEF UnlessClosed
      <3>2. connected' \in BOOLEAN /\ (connected' => socket' # "closed")
        BY <1>5, <2>4 DEF UnlessClosed, SessionTypeOK
      <3>3. socket' # "closed" => socket # "closed"
        BY <1>7 DEF OnDisconnectRequested, CloseSession
      <3> QED
        BY <1>5, <2>1, <2>4, <3>1, <3>2, <3>3 DEF SessionTypeOK
    <2>3. SessionsFollow'
      BY <1>3, <1>7, <2>1 DEF OnDisconnectRequested, SessionsFollow, IsOf
    <2> QED
      BY <1>2, <1>3, <1>4, <1>7, <2>2, <2>3
          DEF OnDisconnectRequested, MobileTypeOK, WaitsForSomething
  <1>8. CASE CloseWait \/ ConsoleSelected \/ OnDisconnectDeclined
    <2>1. UNCHANGED sessionVars
      BY <1>8 DEF CloseWait, ConsoleSelected, OnDisconnectDeclined
    <2>2. SessionTypeOK' /\ SessionsFollow'
      BY <1>3, <1>5, <2>1 DEF sessionVars, SessionTypeOK, SessionsFollow, IsOf
    <2>3. /\ waitShown' \in BOOLEAN /\ errorShown' \in BOOLEAN /\ dialogShown' \in BOOLEAN
          /\ UNCHANGED <<reconnectRequired, uiState, unheard>>
          /\ waitShown' /\ ~errorShown' => waitShown /\ ~errorShown
      <3> USE DEF MobileTypeOK
      <3>1. CASE CloseWait
        BY <3>1 DEF CloseWait
      <3>2. CASE ConsoleSelected
        BY <3>2 DEF ConsoleSelected
      <3>3. CASE OnDisconnectDeclined
        BY <3>3 DEF OnDisconnectDeclined
      <3> QED
        BY <1>8, <3>1, <3>2, <3>3
    <2>4. MobileTypeOK' /\ WaitsForSomething'
      BY <1>3, <1>4, <2>1, <2>2, <2>3 DEF sessionVars, MobileTypeOK, WaitsForSomething
    <2> QED
      BY <1>2, <2>2, <2>4
  <1>9. CASE OnSessionGranted
    <2>1. SessionTypeOK'
      BY <1>5, <1>9 DEF OnSessionGranted, SessionGranted, SessionTypeOK, SocketStates
    <2>2. SessionsFollow'
      BY <1>3, <1>9 DEF OnSessionGranted, SessionGranted, SessionsFollow, IsOf
    <2> QED
      BY <1>2, <1>3, <1>4, <1>9, <2>1, <2>2
          DEF OnSessionGranted, SessionGranted, screenVars, MobileTypeOK, WaitsForSomething
  <1>10. CASE OnSessionRefused
    <2>1. SessionTypeOK' /\ SessionsFollow'
      BY <1>3, <1>5, <1>10
          DEF OnSessionRefused, SessionRefused, SessionTypeOK, SessionsFollow, IsOf
    <2> QED
      BY <1>2, <1>3, <1>4, <1>10, <2>1
          DEF OnSessionRefused, MobileTypeOK, WaitsForSomething
  <1>13. CASE OnSessionUnheard
    <2>1. SessionTypeOK' /\ SessionsFollow'
      BY <1>3, <1>5, <1>13
          DEF OnSessionUnheard, SessionUnheard, SessionRefused, SessionTypeOK, SessionsFollow, IsOf
    <2> QED
      BY <1>2, <1>3, <1>4, <1>13, <2>1
          DEF OnSessionUnheard, SessionUnheard, SessionRefused, MobileTypeOK, WaitsForSomething
  <1>11. CASE OnSocketConnects
    <2>1. SessionTypeOK' /\ SessionsFollow'
      BY <1>3, <1>5, <1>11
          DEF OnSocketConnects, SocketConnects, SessionTypeOK, SocketStates, SessionsFollow, IsOf
    <2> QED
      BY <1>2, <1>3, <1>4, <1>11, <2>1
          DEF OnSocketConnects, SocketConnects, screenVars, MobileTypeOK, WaitsForSomething
  <1>12. CASE OnSocketCloses
    <2>1. SessionTypeOK' /\ SessionsFollow'
      BY <1>3, <1>5, <1>12
          DEF OnSocketCloses, SocketCloses, SessionTypeOK, SocketStates, SessionsFollow, IsOf
    <2> QED
      BY <1>2, <1>3, <1>4, <1>12, <2>1
          DEF OnSocketCloses, MobileTypeOK, WaitsForSomething
  <1> QED
    BY <1>6, <1>7, <1>8, <1>9, <1>10, <1>11, <1>12, <1>13

LEMMA LoginAnswers_Inv ==
    ASSUME MobileInv, NEW s \in Slots, OnLoginOk(s) \/ OnLoginFailed(s)
    PROVE  MobileInv'
  <1> USE DEF MobileInv, startVars, Connecting, ConnectingIsUnderWay
  <1>1. SessionTypeOK /\ LoginTypeOK /\ UNCHANGED <<current, socket, session, connected>>
    BY DEF OnLoginOk, OnLoginFailed, LoginOk, LoginFailed, userVars, sessionVars, MobileTypeOK
  <1>2. CASE OnLoginOk(s)
    <2>1. LoginInv' /\ LoginTypeOK'
      BY <1>2, LoginOk_LoginInv DEF OnLoginOk, LoginInv
    <2>2. CASE reconnectRequired /\ current # NoUser
      <3>1. asked' = SessionFor(current) /\ Connecting
        BY <1>2, <2>2 DEF OnLoginOk, OpenSession
      <3>2. asked' \in Session /\ asked' # NoSession /\ IsOf(asked', current)
        BY <1>1, <2>2, <3>1, SessionForType DEF LoginTypeOK
      <3>3. SessionTypeOK'
        BY <1>1, <3>2 DEF SessionTypeOK
      <3>4. SessionsFollow'
        BY <1>1, <3>2 DEF SessionsFollow, IsOf
      <3> QED
        BY <1>2, <2>1, <3>1, <3>2, <3>3, <3>4 DEF OnLoginOk, MobileTypeOK, WaitsForSomething
    <2>3. CASE ~(reconnectRequired /\ current # NoUser)
      <3>1. UNCHANGED <<asked, startVars>>
        BY <1>2, <2>3 DEF OnLoginOk
      <3>2. SessionTypeOK' /\ SessionsFollow'
        BY <1>1, <3>1 DEF SessionTypeOK, SessionsFollow, IsOf
      <3> QED
        BY <1>1, <1>2, <2>1, <3>1, <3>2 DEF OnLoginOk, MobileTypeOK, WaitsForSomething
    <2> QED
      BY <2>2, <2>3
  <1>3. CASE OnLoginFailed(s)
    <2>1. LoginInv' /\ LoginTypeOK'
      BY <1>3, LoginFailed_LoginInv DEF OnLoginFailed, LoginInv
    <2>2. UNCHANGED asked
      BY <1>3 DEF OnLoginFailed, sessionVars
    <2>3. SessionTypeOK' /\ SessionsFollow'
      BY <1>1, <2>2 DEF SessionTypeOK, SessionsFollow, IsOf
    <2> QED
      BY <1>1, <1>3, <2>1, <2>2, <2>3 DEF OnLoginFailed, MobileTypeOK, WaitsForSomething
  <1> QED
    BY <1>2, <1>3

LEMMA MobileNext_Inv == MobileInv /\ [MobileNext]_mobileVars => MobileInv'
  <1> SUFFICES ASSUME MobileInv, [MobileNext]_mobileVars
               PROVE  MobileInv'
    OBVIOUS
  <1> USE DEF waitVars, startVars, ConnectingIsUnderWay
  <1>1. LoginInv /\ LoginTypeOK /\ SessionTypeOK
    BY DEF MobileInv, MobileTypeOK
  <1>2. ASSUME NEW user \in Users, NEW e \in AnyEmail, EditUser(user, e)
        PROVE  MobileInv'
    <2>1. LoginInv' /\ LoginTypeOK'
      BY <1>1, <1>2, SetUser_LoginInv DEF EditUser, LoginInv
    <2>2. SessionTypeOK' /\ SessionsFollow'
      BY <1>1, <1>2 DEF EditUser, sessionVars, MobileInv, SessionTypeOK, SessionsFollow, IsOf
    <2> QED
      BY <1>2, <2>1, <2>2
          DEF EditUser, Uncovered, sessionVars, screenVars, MobileInv, MobileTypeOK, WaitsForSomething
  <1>3. ASSUME NEW user \in Users, NEW e \in AnyEmail, OnLogin(user, e)
        PROVE  MobileInv'
    <2>1. email' \in [Users -> AnyEmail] /\ EmailOf(user, email') = e
      BY <1>1, <1>3, LoginAssumption DEF OnLogin, LogsInAs, LoginTypeOK, EmailOf
    <2>2. /\ current' = user /\ Logout /\ DisconnectIfConnected
          /\ UnlessClosed(SessionWhile(user)) /\ UNCHANGED <<loggedIn, errorShown, dialogShown>>
      BY <1>3 DEF OnLogin, LogsInAs, CurrentUserChanged
    <2>3. /\ Login(e) /\ waitShown' = TRUE /\ asked' = OvertakenBy(user, asked)
          /\ DisconnectedIf(connected)
          /\ reconnectRequired' \in BOOLEAN
      BY <1>1, <1>3 DEF OnLogin, SessionTypeOK
    <2> QED
      BY <2>1, <2>2, <2>3, Selecting_Inv
  <1>4. ASSUME NEW user \in Users, NEW e \in AnyEmail, OnGuestLogin(user, e)
        PROVE  MobileInv'
    <2>1. email' \in [Users -> AnyEmail] /\ EmailOf(user, email') = e
      BY <1>1, <1>4, LoginAssumption DEF OnGuestLogin, LogsInAs, LoginTypeOK, EmailOf
    <2>2. /\ current' = user /\ Logout /\ DisconnectIfConnected
          /\ UnlessClosed(SessionWhile(user)) /\ UNCHANGED <<loggedIn, errorShown, dialogShown>>
      BY <1>4 DEF OnGuestLogin, LogsInAs, CurrentUserChanged
    <2>3. /\ logins' = LoginsWhile(e) /\ UNCHANGED pendingLogin
          /\ waitShown' = FALSE /\ reconnectRequired' \in BOOLEAN
      BY <1>4 DEF OnGuestLogin, Uncovered, MobileInv, MobileTypeOK
    <2>4. \/ asked' = OvertakenBy(user, asked) /\ DisconnectedIf(connected)
          \/ connected /\ asked' \in Session /\ IsOf(asked', user) /\ Connecting
      BY <1>4, SessionForType DEF OnGuestLogin, OpenSession, DisconnectedIf
    <2> QED
      BY <2>1, <2>2, <2>3, <2>4, Selecting_Inv
  <1>5. CASE OnLogout
    <2>1. /\ NoEmail \in AnyEmail
          /\ email' \in [Users -> AnyEmail] /\ EmailOf(NoUser, email') = NoEmail
      BY <1>1, <1>5 DEF OnLogout, LoginTypeOK, EmailOf, AnyEmail
    <2>2. /\ current' = NoUser /\ Logout /\ DisconnectIfConnected
          /\ UnlessClosed(SessionWhile(NoUser)) /\ UNCHANGED <<loggedIn, errorShown, dialogShown>>
      BY <1>5 DEF OnLogout
    <2>3. /\ logins' = LoginsWhile(NoEmail) /\ UNCHANGED pendingLogin
          /\ waitShown' = FALSE /\ reconnectRequired' \in BOOLEAN
          /\ asked' = OvertakenBy(NoUser, asked)
          /\ DisconnectedIf(connected)
      BY <1>5 DEF OnLogout, Uncovered, MobileInv, MobileTypeOK
    <2> QED
      BY <2>1, <2>2, <2>3, Selecting_Inv
  <1>6. CASE OnLogoutAnswered
    <2>1. /\ LoginInv' /\ LoginTypeOK'
          /\ pendingLogin => UnderWay' # {}
          /\ ~pendingLogin => UNCHANGED logins
      BY <1>1, <1>6, LogoutAnswered_LoginInv DEF OnLogoutAnswered, LoginInv
    <2>2. UNCHANGED current
      BY <1>6 DEF OnLogoutAnswered, LogoutAnswered, userVars
    <2>3. SessionTypeOK' /\ SessionsFollow'
      BY <1>1, <1>6, <2>2
          DEF OnLogoutAnswered, sessionVars, MobileInv, SessionTypeOK, SessionsFollow, IsOf
    <2>4. MobileTypeOK'
      BY <1>6, <2>1, <2>3 DEF OnLogoutAnswered, MobileInv, MobileTypeOK
    <2>5. UNCHANGED logins => UNCHANGED UnderWay
      BY DEF UnderWay
    <2>6. UNCHANGED <<asked, socket, waitShown, uiState, unheard>>
      BY <1>6 DEF OnLogoutAnswered, sessionVars
    <2>7. ~errorShown' => ~errorShown
      BY <1>6 DEF OnLogoutAnswered
    <2>8. waitShown' /\ ~errorShown' => UnderWay' # {}
      <3>1. CASE pendingLogin
        BY <2>1, <3>1
      <3>2. CASE ~pendingLogin
        BY <2>1, <2>5, <2>6, <2>7, <3>2 DEF MobileInv, WaitsForSomething
      <3> QED
        BY <3>1, <3>2
    <2> QED
      BY <2>1, <2>3, <2>4, <2>6, <2>8 DEF MobileInv, WaitsForSomething
  <1>7. CASE Restart
    <2>1. LoginInv' /\ LoginTypeOK'
      BY <1>1, <1>7, LoginRestarts_LoginInv DEF Restart, LoginInv
    <2> QED
      BY <1>7, <2>1
          DEF Restart, Disconnected, MobileInv, MobileTypeOK, SessionTypeOK, SocketStates, SessionsFollow,
              WaitsForSomething
  <1>8. CASE UNCHANGED mobileVars
    <2>1. LoginInv' /\ LoginTypeOK'
      BY <1>1, <1>8, Unchanged_LoginInv DEF mobileVars, LoginInv
    <2> QED
      BY <1>1, <1>8, <2>1
          DEF mobileVars, loginVars, userVars, sessionVars, screenVars, MobileInv, MobileTypeOK,
              SessionTypeOK, SessionsFollow, IsOf, WaitsForSomething, UnderWay
  <1> QED
    BY <1>2, <1>3, <1>4, <1>5, <1>6, <1>7, <1>8, SessionSteps_Inv, LoginAnswers_Inv
        DEF MobileNext

-----------------------------------------------------------------------------
(* Theorems.                                                                 *)

THEOREM MobileInvariant == MobileSpec => []MobileInv
  BY MobileInit_Inv, MobileNext_Inv, PTL DEF MobileSpec

\* The state keeps its shape, and the websocket agrees with what the screens
\* are told of it.
THEOREM MobileTypeCorrect == MobileSpec => []MobileTypeOK
  <1>1. MobileInv => MobileTypeOK
    BY DEF MobileInv
  <1> QED
    BY <1>1, MobileInvariant, PTL

\* However logins, logouts, changes of user, late answers and restarts follow
\* each other, a client that says it is logged in is so as the selected user.
THEOREM LoggedInCorrect == MobileSpec => []LoggedInAsCurrentUser
  <1>1. MobileInv => LoggedInAsCurrentUser
    BY DEF MobileInv, LoginInv
  <1> QED
    BY <1>1, MobileInvariant, PTL

\* A client that logs out has exactly one logout under way, and a login waits
\* for no other.
THEOREM LogoutIsUnderWay == MobileSpec => []LogoutUnderWay
  <1>1. MobileInv => LogoutUnderWay
    BY DEF MobileInv, LoginInv
  <1> QED
    BY <1>1, MobileInvariant, PTL

\* An open websocket is the selected user's, or was overtaken while the session
\* was being opened.
THEOREM PlaysCorrectly == MobileSpec => []PlaysAsCurrentUser
  <1>1. MobileInv => PlaysAsCurrentUser
    BY DEF MobileInv, SessionsFollow, IsOf, PlaysAsCurrentUser
  <1> QED
    BY <1>1, MobileInvariant, PTL

\* The screens wait only while what they wait for is still to come, save for a
\* session request whose answer is not a console's.
THEOREM NoIdleWait == MobileSpec => []WaitsForSomething
  <1>1. MobileInv => WaitsForSomething
    BY DEF MobileInv
  <1> QED
    BY <1>1, MobileInvariant, PTL
===============================================================================
