------------------------------ MODULE LoginModel ------------------------------
(***************************************************************************)
(* Whom the mobile client plays as and whether that user is signed in at   *)
(* the head server: UserModel, the users of the device and the selected    *)
(* one, and LoginModel, the token of the signed-in user (gberry-lib's      *)
(* client/qml).                                                            *)
(*                                                                         *)
(* Logins and logouts are REST invocations: they are answered later, in    *)
(* any order, and each answer is applied to the state it finds.  Both      *)
(* models keep their state in ini files, which a restart reads back.       *)
(***************************************************************************)
EXTENDS Naturals, FiniteSets

CONSTANTS
    Users,      \* users stored on the device
    Emails,     \* emails of users that are not guests
    NoEmail,    \* a guest's email, and that of no user
    NoUser,     \* _activeUserIndex of -1
    Slots,      \* bound on the logins under way at once
    NoRequest,
    NoToken

VARIABLES
    current,        \* the selected user
    email,          \* of a user
    loggedIn,
    token,          \* currentUserToken and currentPrivateToken
    keptEmail,      \* currentUserEmail
    pendingLogin,
    pendingLogout,
    saved,          \* loginmodel.ini
    logins,         \* login invocations that are not answered yet
    logouts         \* number of logout invocations that are not answered yet

userVars == <<current, email>>
tokenVars == <<token, keptEmail, saved>>
loginVars == <<userVars, loggedIn, tokenVars, pendingLogin, pendingLogout, logins, logouts>>

AnyEmail == Emails \cup {NoEmail}

\* Of a request, and of the token it brings: whose credentials it carries, and
\* whether another email was current at some time before the answer came.
Request == [email : AnyEmail, overtaken : BOOLEAN]
TokenOfUser == [owner : Emails, overtaken : BOOLEAN]
Token == TokenOfUser \cup {NoToken}

ASSUME LoginAssumption ==
    /\ NoEmail \notin Emails
    /\ NoUser \notin Users
    /\ NoRequest \notin Request
    /\ NoToken \notin TokenOfUser

EmailOf(user, emails) == IF user = NoUser THEN NoEmail ELSE emails[user]
CurrentEmail == EmailOf(current, email)

UnderWay == {s \in Slots : logins[s] # NoRequest}

LoginInit ==
    /\ current \in Users \cup {NoUser}
    /\ email \in [Users -> AnyEmail]
    /\ loggedIn = FALSE
    /\ token = NoToken
    /\ keptEmail = NoEmail
    /\ pendingLogin = FALSE
    /\ pendingLogout = FALSE
    /\ saved = [email |-> NoEmail, token |-> NoToken]
    /\ logins = [s \in Slots |-> NoRequest]
    /\ logouts = 0

-----------------------------------------------------------------------------
(* Operations, called by the screens in the course of their own handlers.    *)

Keeps(e, t) ==
    /\ keptEmail' = e
    /\ token' = t
    /\ saved' = [email |-> e, token |-> t]

\* logout(): the token is forgotten at once, loggedIn remains until the answer.
Logout_Again ==
    IF loggedIn
    THEN /\ Keeps(NoEmail, NoToken)
         /\ pendingLogout' = TRUE
         /\ logouts' = logouts + 1
    ELSE UNCHANGED <<tokenVars, pendingLogout, logouts>>
Logout ==
    IF loggedIn /\ ~pendingLogout
    THEN /\ Keeps(NoEmail, NoToken)
         /\ pendingLogout' = TRUE
         /\ logouts' = IF token = NoToken THEN logouts ELSE logouts + 1
    ELSE UNCHANGED <<tokenVars, pendingLogout, logouts>>

\* The requests under way, when e is the current email from now on.
LoginsWhile(e) ==
    [s \in Slots |-> IF s \in UnderWay /\ logins[s].email # e
                     THEN [logins[s] EXCEPT !.overtaken = TRUE]
                     ELSE logins[s]]

\* doLogin()
DoLogin(e) ==
    \E s \in Slots \ UnderWay :
        logins' = [LoginsWhile(e) EXCEPT ![s] = [email |-> e, overtaken |-> FALSE]]

\* login() of the user with email e: a login waits for the logout it needs.
Login(e) ==
    IF loggedIn
    THEN pendingLogin' = TRUE /\ logins' = LoginsWhile(e)
    ELSE pendingLogin' = FALSE /\ DoLogin(e)

\* currentUserNameChanged of UserModel makes LoginModel log out.
CurrentUserChanged == Logout

\* setUser(): the signal is emitted when the selected user is the one changed.
SetUser(user, e) ==
    /\ email' = [email EXCEPT ![user] = e]
    /\ IF user = current
       THEN CurrentUserChanged
       ELSE UNCHANGED <<tokenVars, pendingLogout, logouts>>

-----------------------------------------------------------------------------
(* Answers.                                                                  *)

\* loginInvocationFinishedOk(): the token is kept under the email that is current
\* now.  The head server knows no user without an email.
LoginOk(s) ==
    /\ s \in UnderWay
    /\ logins[s].email # NoEmail
    /\ Keeps(CurrentEmail,
             [owner |-> logins[s].email, overtaken |-> logins[s].overtaken])
    /\ loggedIn' = TRUE
    /\ logins' = [logins EXCEPT ![s] = NoRequest]
    /\ UNCHANGED <<userVars, pendingLogin, pendingLogout, logouts>>

\* loginInvocationFinishedError()
LoginFailed(s) ==
    /\ s \in UnderWay
    /\ loggedIn' = FALSE
    /\ logins' = [logins EXCEPT ![s] = NoRequest]
    /\ UNCHANGED <<userVars, tokenVars, pendingLogin, pendingLogout, logouts>>

\* What both answers to a logout go on with.
AfterLogout_Forgets == pendingLogin' = FALSE /\ UNCHANGED logins
AfterLogout ==
    IF pendingLogin
    THEN pendingLogin' = FALSE /\ DoLogin(CurrentEmail)
    ELSE UNCHANGED <<pendingLogin, logins>>

\* logoutInvocationFinishedOk() and logoutInvocationFinishedError()
LogoutAnswered ==
    /\ logouts > 0
    /\ logouts' = logouts - 1
    /\ pendingLogout' = FALSE
    /\ loggedIn' = FALSE
    /\ AfterLogout
    /\ UNCHANGED <<userVars, tokenVars>>

\* The client is started again: the tokens are used if the current user's email
\* is the saved one.
MayRestore_Always == saved.email # NoEmail
MayRestore == CurrentEmail # NoEmail /\ CurrentEmail = saved.email

LoginRestarts ==
    /\ loggedIn' = MayRestore
    /\ token' = IF MayRestore THEN saved.token ELSE NoToken
    /\ keptEmail' = IF MayRestore THEN saved.email ELSE NoEmail
    /\ pendingLogin' = FALSE
    /\ pendingLogout' = FALSE
    /\ logins' = [s \in Slots |-> NoRequest]
    /\ logouts' = 0
    /\ UNCHANGED <<userVars, saved>>

-----------------------------------------------------------------------------
(* Properties.                                                             *)

LoginTypeOK ==
    /\ current \in Users \cup {NoUser}
    /\ email \in [Users -> AnyEmail]
    /\ loggedIn \in BOOLEAN
    /\ token \in Token
    /\ keptEmail \in AnyEmail
    /\ pendingLogin \in BOOLEAN
    /\ pendingLogout \in BOOLEAN
    /\ saved \in [email : AnyEmail, token : Token]
    /\ logins \in [Slots -> Request \cup {NoRequest}]
    /\ logouts \in Nat

\* A token serves the user it is kept for.  It may be another's only if that
\* user was deselected, or had the email changed, while the login was under way.
Serves(t, e) == t # NoToken /\ (t.owner = e \/ t.overtaken)

\* Signed in means as the selected user: whatever is selected or edited, however
\* late the answers come and after any restart, a client that says it is logged
\* in (and is not logging out) holds a token, kept for the current email.
LoggedInAsCurrentUser ==
    loggedIn /\ ~pendingLogout => keptEmail = CurrentEmail /\ Serves(token, CurrentEmail)

\* The flags agree with what is under way: one logout while logging out and
\* none otherwise, so no client is left logging out for ever; and a login waits
\* only for a logout that will be answered.
LogoutUnderWay ==
    /\ logouts = IF pendingLogout THEN 1 ELSE 0
    /\ pendingLogin => pendingLogout

===============================================================================
