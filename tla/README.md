# A formal model of the GBerry console

GBerry makes a small computer a game console that is played with mobile
devices. The console server (`comms`) is the hub: players' devices connect to it
over REST and websockets (the *north* side), the local applications - the wait
application, the main UI, the games - over TCP (the *south* side), and it asks a
head server on the Internet for applications to download.

This directory holds TLA+ modules of the console's core logic, TLC
configurations that check them on small instances, and proofs that TLAPS checks.
Every definition is read from the code; `PROJECT.json` names the lines of each
(`map`), the runs, the hazards and the properties aimed at them.

Paths below: `console-lib` and `comms` are under `gberry-console/`, `gberry-lib`
is beside it.

## 1. The system

The console server is one Qt event loop: a slot, a timer's callback or a handler
of a message runs to its end before another starts. So an *action* of the models is
one callback with everything it calls by direct signals, and what interleaves
is callbacks, processes and messages. Nothing is multi-threaded.

| Component | State | Operations | Hard behaviour | Correct if |
| --- | --- | --- | --- | --- |
| `ServerChannelManager` and channels (`console-lib/src/server`) | control channels, player channels with their `_state`, active connection, stack of active connections | control channel opened, activate, deactivate, application closed, player channel opened and closed, messages both ways | switches that change the active connection half way; messages of an application that has lost its turn | one application has the players; no acceptance outlives its turn; everyone is told |
| Client library (`console-lib/src/client`) | the application's channels, `activated` | messages received and sent, connection lost and made again | acts on a server state that is past | both ends agree once everything is read |
| `CommTcpServer`, `ConnectionManager`, `ConnectionGateKeeper`, `ApplicationRegistry` | list of connections, gatekeepers, links, identification codes | new connection, PingReply, timeout, disconnect | timers that fire late, codes that repeat and are presented again after a lost connection, sockets that outlive their listing | the four tables describe the same connections |
| `UIAppStateMachine`, `ApplicationController`, `LaunchController` (`comms/src`) | state of the screen, three controllers with their processes | launch, stop, pause, resume, died, validated | a process' end, its socket's, its reply and timers in any order; a socket that is lost and replaced | what is shown owns the players and nothing else is in front |
| `HeadServerConnection`, `Request` (`comms/src`) | connection and ping state, queue, ongoing invocations | ping, interval timer, make, answer, fail, cancel, free | overlapping pings; answers after the command has gone | no request lost or answered twice; none left waiting while the loop of pings runs |
| `DownloadApplicationCommand`, `LocalApplicationsStorage`, `ApplicationConfigReaderWriter` | list of applications, their directories, downloads under way | add, request, unzip, refresh, update, delete, read at start | any step fails or loses what it wrote; the command dies; the console stops within a step and restarts | memory and disk agree; valid means complete |
| `ConsoleRESTServer`, `PlayerSessionManager`, `WebsocketServer`, `PlayerConnectionManager` | sessions, websockets, channels of players | open session, websocket comes, goes, messages | four tables changed by chains of signals | names unique, messages personal, no ghosts |
| Mobile client (`gberry-lib/lib/src/client`, `gberry-mobile`) | users and the selected one, token, ini files, session with the console, what the screens wait for | edit, log in, log in as a guest, log out, connect, disconnect, every answer, restart | answers that arrive after another user was selected; logins that wait for a logout | signed in and playing as the selected user; no screen waits for what will not come |
| REST invocations (`gberry-lib/lib/src`: `invocation*`, `restinvocation*`, `downloadstreaminvocation*`) with the `Request` that owns one | the request's flags, the reply, the output file | execute, headers, parts of the body, redirect, end, error, cancel | `abort()` reports the error inside its caller; a command that goes at any moment | freed once and after its call; success means the whole file; a command that is gone is not called |
| `MessageReader` | bytes of the message being read | data arrived | chunked input | whole messages in order; not modelled |
| `ApplicationVersionNumber` | - | compare | numbers of different length | not modelled |
| QML models and screens, games | presentation | - | - | left out |
| `qt5rpi`, `qhttpserver`, test libraries | - | - | - | vendored |

How they interact: `PlayerConnectionManager` and `ConnectionManager` call the
channel manager from the two sides; the channel manager writes to connections
through partners. `ConnectionManager` emits the validation of a connection, which
drives `UIAppStateMachine`; the state machine drives the controllers; a
controller's pause and resume of the wait application deactivate and activate its
connection again in the channel manager (the wiring is in `comms/src/comms.cpp`).
Control channels own the commands, so a closed main UI destroys its commands and
cancels their requests at the head server connection, which holds one REST invocation
for each request it executes. The mobile client reaches the console by the same kind of
invocation and then by a websocket; it signs users in at the head server.

## 2. Modules

| Module | Models | Uses |
| --- | --- | --- |
| `ChannelManager` | the channel manager and its channels | |
| `ExclusiveApp` | *abstract*: one owner at a time, acceptances void when it changes | |
| `ChannelManagerRefinement` | the mapping from the first to the second | `ChannelManager`, `ExclusiveApp` |
| `AppChannels` | channel manager, streams and client library composed | `ChannelManager` |
| `ConnectionManager` | TCP connections, gatekeepers, registry | `ChannelManager` |
| `ConsoleUI` | screen, controllers, processes, wiring | `ConnectionManager` |
| `PlayerSessions` | REST sessions, websockets, player channels | `ChannelManager` |
| `HeadServerConnection` | connection to the head server, requests | |
| `RequestService` | *abstract*: at most one answer to a request, none after it is given up | |
| `RestInvocation` | one request and its REST invocation, from the queue to the deletion | |
| `DownloadApplication` | downloads and local storage | |
| `LoginModel` | users of a device, tokens, logins and logouts | |
| `ConsoleSession` | a device's session with a console | |
| `MobileClient` | the two composed with the screens that drive them | `LoginModel`, `ConsoleSession` |
| `ChannelManagerProofs`, `AppChannelsProofs`, `HeadServerConnectionProofs`, `ConsoleUIProofs`, `PlayerSessionsProofs`, `DownloadApplicationProofs`, `MobileClientProofs`, `RestInvocationProofs` | theorems | the module each is named after; `ChannelManagerProofs` holds the refinement of `ExclusiveApp` too, and `AppChannelsProofs` extends it |
| `MC...` | constants of the runs | |

### How state and actions correspond to the code

**ChannelManager.** A variable for each member of `ServerChannelManagerPrivate`;
`playerChannels[ch]` is `ABSENT` or the channel's `_state`. `outgoing` is the set of
messages the last operation sent south: the code always emits Deactivate, then
Activate, then the player channels in `QMap` order, so the order is recovered
from the set where it matters. `acceptedBy` is a history variable. The
constructor of `ServerSidePlayerChannel` never sets `_state`, and `open()` reads it:
`OpenPlayerChannel` chooses among `GarbageStates` (what such a read may give, among
the values `open()` acts upon) and the ordinary value, and `indeterminate` marks
the channels it happened to, until something writes them. `closeControlChannel()`
has no caller and is not modelled.

**AppChannels.** Adds the streams of every connection (FIFO, no loss before an exit;
what an application wrote before it went may be lost) and the client library's
two tables. The server's part of each action is the action of `ChannelManager`;
`Transmit` appends what it sent, in the emission order. A connection may break
while its application lives on (`ConnectionBreaks`): the library closes its player
channels, keeps `activated`, and comes back as a *new* connection, on which the server
opens a control channel of its own. `AppConnects` is the arrival of a connection that the
server validates. A reconnection presents the code that the first connection used up,
so it is validated only if that code has been made again meanwhile; otherwise
`ReconnectDiscarded`: the server forgets the connection and leaves its socket open, so the
application keeps what it knew, `activated` included, and hears nothing more.

**ConnectionManager.** `connections` is the server's list, `openSockets` the
sockets that still exist: a discarded connection leaves the first and not the second.
`presents` records what the client at the other end will say and who it is.
`appIdByCode` may have few codes because the code in
`createIdentificationCode()` comes from the elapsed time of a clock started just
before it; a set of one code is the worst case.

**ConsoleUI.** `uiState` is the `QStateMachine`'s state. A controller's record holds
the members of `ApplicationController`, its process, how many relaunch timers are
pending, and the connection of its process. A callback and the transitions it
causes are one action, as for a `QStateMachine` driven by signals. `ConnectionLost` takes the
connection of a process that runs, and `ProcessReconnects` opens another with the code
the process was launched with, as `CommTcpClient` does. `reconnections` and `readmitted` are
history variables: the connections made in place of lost ones, and whether one of
them was validated. `crashed` is reached where the code dereferences a null application (a log line after
`useApplication()` took an unknown id).

**HeadServerConnection.** `pings`, `timers` and `running` are the outstanding
calls. `doomed` and `deleted` follow `deleteLater()` and the zero timers by which
requests are freed; using a freed request is undefined, so the model stops there.
`FailureStatuses` are in every run the two that the invocations set, `ERROR` and
`INVALID_INVOCATION`; nothing in the repository reports `CONNECTION_FAILED` or
`TIMEOUT_OCCURRED`, the only ones after which `requestFailed()` pings again. An answer
that is no JSON is a failure for the command that asked (`AnswerOutcomes`), whose request
is then not deleted.

**RestInvocation.** One call; the calls of a command do not share state. `deletions` counts
how often `deleteLater()` was reached, so that "not yet", "once" and "twice" are
different states. `abort()` emits `finished()` before it returns: `Cancel` and
`CannotSave` therefore contain the whole end of the reply. `misused`, `inVain`,
`unwritable` and `full` are history variables of the four things that go wrong:
a destroyed command was called, a cancelled request goes on nevertheless, the output file
could not be opened, a part could not be written. Calling a destroyed command is
undefined; the model goes on as if it had done no harm, and the properties claim
nothing of a behaviour after that. When a request is executed or failed in the queue is
`HeadServerConnection`'s; here it happens at any time (`Execute`, `NotExecuted`).

**DownloadApplication.** `apps` is the storage's list, `dirs` what its directory
holds of each application: whether it exists, the configuration, the state file,
the content. `downloads` says how far each has come and whether anyone still
waits; it tells a request that is queued from one that is executed (`requested`,
`executing`). A failing step leaves any subset of what it may leave, and a write whose
failure the code does not notice leaves less than it should (`Written`): an empty state file is
read as `invalid`, an empty configuration is `unreadable`. `Restart` may happen
at any time and reads the directories as `readApplications()` does. `StopsInHandler` ends
the console within an add, an update or a deletion, after any of the steps it writes in.
`littered` is a history variable: applications of which an add or a
deletion, failed or cut short, left files. An unreadable configuration is used without a check after
the unzip and at every start: `crashed`.

**PlayerSessions.** A variable for each of the counters and tables of the four
classes; `delivered` is what the last step passed north. It calls the actions of
`ChannelManager` where the code calls the manager.

**LoginModel, ConsoleSession, MobileClient.** `LoginModel` and `ConsoleSession` hold the
C++ classes' members and operations; `MobileClient` has one action for each QML handler
(`main.qml`, `LoginWait.qml`) and each answer, with all that the handler calls: choosing
a user emits `currentUserNameChanged`, which logs out, before `login()` runs. A
login is a record in one of `Slots`, answered in any order. `overtaken` (of a login or a
token) and `stale` (of a session) are history fields: another email, or another user,
was current at some time before the answer came. A session request has three outcomes:
`SessionGranted`, `SessionRefused`, and `SessionUnheard` for a 200 answer that says neither "ok"
nor "error", of which no signal is emitted; `unheard` remembers it while the screen still waits.
`saved` is `loginmodel.ini`;
`Restart` may happen between any two events and reads it as the constructor does.

## 3. Runs

All runs finish within three minutes. "violation" runs check one statement that a
comment, header or test makes and the code does not keep (section 6).

| Run | Instance | Shows |
| --- | --- | --- |
| `cm_safety` | 3 connections, 2 player channels, both garbage values | `TypeOK` (ids handed out once), `StackFollowsActive`, `OpenMeansAccepted`, `HandoverAnnouncesAll`, and the refinement `ExclusiveAppSpec` |
| `app_channels` | 2 connections, one of them of the wait application, 1 player, streams up to 3; an unwritten `_state` may read as "being opened" | the two ends agree: `SettledActivation`, `NoOrphanPlayerMessage`; `ActivationArrives` and `OfferIsAccepted` under fairness; exits and reconnections, validated or discarded, included |
| `app_channels_reopen` | the same, streams up to 2 | violation of `ReopenSucceeds` |
| `head_server` | a download's and two queries' requests; failures are `ERROR` or `INVALID_INVOCATION` | `TypeOK`, `BoundedLoops`, `StallsOnlyWhenConnected` (the loop of pings never ends without a connection), the refinement `ServiceSpec`, `EveryRequestSettles` (a request settles or the loop ends: a queued request may wait for ever, and this is the only way) |
| `head_server_pings` | the same | violation of `RegularPings` |
| `rest_invocation` | either command, 2 redirects, 3 parts of a body | `InvocationTypeOK`, `FreedOnceAtTheEnd`, `OkMeansWholeFile`, `GoneCommandIsLeftAlone`, `CancelledIsFreed` |
| `console_ui` | 1 application, 4 connections, 1 of them made in place of a lost one, 1 code (463121 states) | `ConsoleTypeOK`, `TablesAgree`, `LinkedUntilReadmitted`, `ScreenOwnsPlayers`, `OneInForeground`, `DelayedLaunchSettles` |
| `console_ui_codes` | the same | violation of `LinkedToItsApplication` |
| `console_ui_death` | the same, with connections that last | violation of `DeathShowsMainUI` |
| `player_sessions` | 3 sessions, 2 names, 3 websockets, 1 application | `NorthTypeOK`, `EveryChannelHasItsPlayer`, `EveryWebsocketIsHeard`, `NamesAreUnique`, `DeliveredToOwner` |
| `download` | 2 applications | `DownloadTypeOK`, `WaitingIsListed`, `ValidIsComplete`, `RestartFindsTheSame`, `AcceptedDownloadEnds` |
| `mobile_client` | 2 users who have 1 email or none, 2 logins at once, symmetric (504774 states) | `MobileTypeOK`, `LoggedInAsCurrentUser`, `PlaysAsCurrentUser`, `LogoutUnderWay`, `WaitsForSomething` |

Each property of a passing run has a mutant in `PROJECT.json`: a plausible bug in
one definition with which TLC finds the property violated.

### Bounds, and why they are enough

- *Three connections, two channels* (`cm_safety`): a switch concerns the old and
  the new active connection; the third is one that neither gains nor loses its
  turn (its exit is the case of `app_channels_reopen`). A second channel
  distinguishes what is done to one channel from what is done to all.
- *Streams up to 3* (`MaxInFlight` in `AppChannels`): a switch puts at most
  Deactivate, Activate and one OpenChannel per player into a stream; the server
  starts no operation while a stream is that long, so what is bounded is how far
  an application may lag behind, not what it receives. The proofs hold for every bound.
- *Three requests* (`head_server`): one under way, one queued and one of the other
  command, which deletes its requests differently; more only lengthen the queue.
- *Four connections* (`console_ui`): the wait application's, the main UI's, an
  application's, and one more: the main UI's after the application has gone, or one made in
  place of any that was lost. `MaxReconnections` guards `ConnectionLost`. `MaxWaitRounds`
  is the code's own. The proofs hold for any number of applications, connections,
  reconnections and codes.
- *Three sessions, two names*: a name that is used, freed and used again while
  another is there; guests (ids from -2 downwards) and signed-in players (from 1).
- *Two applications* (`download`): downloads do not share files; the second shows
  that a step for one leaves the other alone.
- *Two redirects, three parts* (`rest_invocation`): a redirect's state is a fresh
  reply, so the second only shows that the first left nothing behind; three parts give a
  first, a middle and a last. `MaxRedirects` guards `HeadersArrive`, `MaxParts` guards
  `PartArrives`; the proofs hold for every value.
- *Two users, one email or none, two logins* (`mobile_client`): the selected user and
  another, an email that is given, taken away and moves between them, and a late answer that
  meets a newer request. `Slots` guards `OnLogin`. The configuration is symmetric in users and
  logins, and checks invariants only; the proofs hold for any number of all three.

`CHECK_DEADLOCK FALSE` is set where the system may stop: when no more connections,
sessions or requests are left of the bounded supply (`app_channels`, `player_sessions`,
`head_server`, and the runs of `MCConsoleUI`), the one call has ended
(`rest_invocation`), or the server has crashed.

### Fairness

- `AppChannels`: both event loops keep reading their sockets, and a socket reports
  a disconnect. No fairness for what people and applications decide to do.
- `HeadServerConnection`: a call to the network ends in an answer or a failure
  (`QNetworkAccessManager` reports one, and an interval timer fires). Fairness is on
  "succeeds or fails", so success is never assumed. Nothing makes a loop that has ended
  start again: that takes another request.
- `ConsoleUI`: `DelayedLaunchSettles` needs only that timers fire (`TimedConsoleSpec`). The
  violation of `DeathShowsMainUI` is shown also if a started process comes up or fails and a
  disconnect is noticed (`FairConsoleSpec`). A killed process is *not* assumed to die.
- `DownloadApplication`: a request that the head server connection *executes* is answered or
  fails; a started `unzip` ends. Nothing is assumed of a queued request, so
  `AcceptedDownloadEnds` speaks of downloads whose request is executed.
  That `unzip` is installed is assumed: `QProcess` emits no `finished` for a program that
  cannot be started, and the command waits for nothing else.
- `RestInvocation`: the network ends every reply, with an error if need be. The code sets no
  timeout of its own ("TODO: impl timeout"), so this rests on the network library. Nothing is
  assumed of a request in the queue: `CancelledIsFreed` speaks of those executed.
- `MobileClient` has no fairness and no liveness property: a login has no timeout either,
  and all else is up to the player. `WaitsForSomething` is the safety part of "no
  screen waits for ever".

## 4. What is proved

TLAPS checks the theorems for every value of the constants under the assumptions
the modules name (`ConnectionsAssumption`, `MaxChannelIdAssumption`,
`GarbageStatesAssumption`, `ApplicationIdsAssumption`, `CodesAssumption`,
`ApplicationsAssumption`, `MaxReconnectionsAssumption`, `MaxSessionsAssumption`, `SocketsAssumption`,
`RequestsAssumption`, `BoundsAssumption`, `LoginAssumption`, `SessionAssumption`,
`WaitAppsAssumption`, `MaxInFlightAssumption`).

- **ChannelManagerProofs.** The inductive invariant is `TypeOK /\
  StackFollowsActive /\ OpenMeansAccepted`. The three need each other: an
  acceptance is void at every switch because the switch closes all channels, and
  that it does so follows from the stack never holding more than the active
  connection. It gives `TypeCorrect`, `StackCorrect`, `AcceptanceCorrect`, and with
  one step lemma per action the action properties `HeardCorrect` (of
  `OnlyActiveHears`), `ToldCorrect` (of `ToldOfSwitch`) and `HandoverCorrect` (of
  `HandoverAnnouncesAll`). The stack result says more than it seems: although the code
  is written for a stack of suspended applications, none ever builds up.
  `ImplementsExclusiveApp`: each action is an abstract step or a stutter under the mapping
  of `ChannelManagerRefinement`.
- **AppChannelsProofs.** What an application knows is what it has read, so the
  invariants are about the streams. `StreamsTell`: of every stream, the last Activate or
  Deactivate still in it (or, if there is none, what the application was told last) says
  what the server holds. It needs the order in which one operation's messages are
  written (`EmissionOrder`, by counting the messages of smaller rank), and that an
  operation tells a connection of its turn exactly if the turn changed (`SentTells`, one step
  lemma for each action of the manager). `StreamsLeadToTheServer` is the invariant,
  `SettledCorrect` proves `SettledActivation` from it: with an empty stream both ends agree.
  `NoOrphanCorrect` (of `NoOrphanPlayerMessage`) follows from `AcceptedIsKnown`: a connection
  that accepted a channel, or whose acceptance is on its way, knows the channel until a
  CloseChannel reaches it, and no PlayerMessage is written behind that CloseChannel. Its
  hypothesis is that an uninitialised `_state` never reads as `CHANNEL_OPEN`. It cannot be
  dropped: with `GarbageStates = {"CHANNEL_OPEN"}` TLC finds a channel that counts as open
  though it was never offered, and a message sent on it (section 6). The other garbage
  value is allowed, by the theorem and by the run.
- **HeadServerConnectionProofs.** `PingCorrect`, `NoRequestLost`: the invariant is `TypeOK /\ WaitsForRealPing /\
  NothingLost`; that nothing is lost rests on the queue holding a request once and
  none that is being executed. `StallsHarmlessly` (of `StallsOnlyWhenConnected`) holds whatever
  statuses the invocations report: the loop never ends while the connection waits for a
  ping or has none. `head_server_pings` shows that it does end. `LoopsAreBounded` proves `BoundedLoops`
  by counting finite sets: the main state loop begins one call at most, each callback that
  runs it ends one, and `MakeRequest`, which ends none, adds a request. `ImplementsRequestService` proves
  the refinement.
- **ConsoleUIProofs.** `TablesAlwaysAgree` (of `TablesAgree`). That a validated connection is
  listed needs `GatekeptIsListed`, that a connection whose gatekeeper still waits is
  listed for as long as its socket is open; that it is linked to *some* application
  needs what the controllers give their processes (`ControllersOK`): a process that runs
  presents a code. The screen rests on something no line of the code states: there is
  one launch at a time (`OneLaunchAtATime`). Only the controller whose launch the
  machine's state waits for (`Awaits`) has a process that comes up, a timer that will launch
  again, or a first connection that may still be validated, and only one of the three; a state
  that launches is entered when no controller has any of them (`Calm`). A connection made
  in place of a lost one breaks this when it is validated: its process is not the one that was
  launched (`console_ui_codes`). So the invariant (`UntilReadmitted`), and all that
  follows from it, is stated until then, for any number of connections lost and made
  again; `ReconnectInv` tells first connections from others. With it,
    - a timer never outlives its launch and `launch()` never finds a process it has not
      stopped: `ConsoleTypeCorrect` (of `ConsoleTypeOK`);
    - no code is made while the reply of a first connection that presents one may still be
      accepted, so codes need not be unique: `LinksCorrect` (of `LinkedUntilReadmitted`);
    - each state leaves the main UI or the current application in the background
      (`InBackground`): `ForegroundCorrect` (of `OneInForeground`);
    - the wait application is linked once, so that resuming it activates the connection of
      the process that is shown (`WaitAppLinkedOnce`): `ScreenCorrect` (of
      `ScreenOwnsPlayers`).

  `TablesAlwaysAgree` needs none of it and holds without the restriction.

  The lemmas go from what `launch()` makes of one controller (`LaunchFits`), to the states
  that launch (`AfterLaunch`, `EnterLaunchingMainUIFits`, ...), to one lemma for each action.
- **PlayerSessionsProofs.** The four tables are tied by `TablesLink` (a websocket that is
  served has its token's player, and that player's channel leads to it) and sessions kept
  distinct by `SessionsApart` (ids lie between the two counters and repeat nowhere, nor
  do names). On top of the channel manager's invariant, these give `NorthTypeCorrect`,
  `ChannelsHavePlayers`, `WebsocketsAreHeard`, `NamesStayUnique` and `DeliveredCorrectly` (of
  `DeliveredToOwner`).
- **DownloadApplicationProofs.** `ValidIsComplete` and `RestartFindsTheSame` are not
  inductive alone: they need `UnderWay`, that a download under way, *attended to or
  not*, has its application listed as downloading and its directory as
  `addApplication()` made it. It holds because `addApplication()` refuses what is
  listed. `ValidComplete` covers every failing request, unzip and update, every lost write
  and every stop, but not the applications of which an add or a deletion left files: those may
  be read as valid with nothing in them (section 6). The theorems are `TypeCorrect`, `WaitingListed`, `ValidComplete`,
  `RestartSame`.
- **RestInvocationProofs.** The invariant adds `Stages` (queued, under way, ended: one at a
  time, and a request is freed only in the last), `Waiting` (a request its command still
  wants is active; a call that goes on after its command is `inVain`) and `Saved` (the file holds
  what the reply handed over). No property is inductive without the stages,
  because what the end of a reply frees depends on whether it was freed before. The
  theorems are `InvocationTypeCorrect`, `FreedOnce`, `WholeFile`, `GoneIsLeftAlone`.
- **MobileClientProofs.** What a late answer brings depends on what its request
  recorded, so the invariant adds that every login under way is the current email's or
  was overtaken (`RequestsFollow`), that every session asked for or opening is the
  selected user's or stale (`SessionsFollow`), and that what the ini file holds may be
  restored. `NoIdleWait` (of `WaitsForSomething`) has one exception, a session request whose
  answer nobody is told of (`unheard`, section 6). Lemmas state what `Logout`, `Login` and `DoLogin` do
  once, for every handler that calls them. The theorems are `MobileTypeCorrect`,
  `LoggedInCorrect`, `LogoutIsUnderWay`, `PlaysCorrectly`, `NoIdleWait`.

`OnlyActiveHears`, `ToldOfSwitch`, `WaitsForRealPing` and `NothingLost` are proved and in no
run's list: the refinements and the proofs say more of them than a small instance.

Only model-checked are the liveness properties (liveness under fairness and `ENABLED` are
beyond the prover): `CancelledIsFreed`, `AcceptedDownloadEnds`, `EveryRequestSettles`,
`DelayedLaunchSettles`, `ActivationArrives`, `OfferIsAccepted`. Every invariant, action
property and refinement that a passing run checks is proved (`NoOrphanPlayerMessage` under the
hypothesis named above, `ConsoleTypeOK` until a reconnection is validated). No module declares a
`RECURSIVE` operator; induction over data is not needed by any theorem.

## 5. What is not modelled, and why

- Message texts, REST formats, logs: data no property distinguishes. Messages are
  their command, names are values.
- Connections without an identification code, fixed codes, `DISABLE_MAINUI` and
  `DISABLE_WAITAPP`: development modes.
- A second websocket for a token in use: the mobile client opens one for each token
  it is given. (`onNewConnection()` would overwrite the player's entries.)
- The choice among several `*appcfg.json` files, `pruneApplication()`, and a package whose
  configuration has another id than the one asked for; progress replies.
- Of the mobile client: `ServerConnection`'s pings, the users `fail` and `login` that
  debug it, `cancelLogin` (no handler calls it), auto login, and the messages of a
  session: `WebsocketClient` connects its message signal at every connect
  (`websocketclient.cpp:64`), so after a reconnect a message would be handled more than once.
- `UserModel`'s lookups: one runs to `<=` the length of its list (`usermodel.cpp:99`), and a
  cached user may be stale. `MobileClient` selects users by identity.
- `MessageReader`: a parser of a length and its bytes; `AppChannels` assumes that the
  streams deliver whole messages in order. `ApplicationVersionNumber`: used by one QML model
  only; it does not hold "1.0.1" for greater than "1".
- Of a REST invocation: headers, authentication and what an answer's text says.
- QML, games, vendored code: not the console's own core logic. By far the most lines of
  the repository are vendored: the Qt headers in `qt5rpi` and the copies of gtest and gmock.

## 6. Disagreements found

| Run | Statement | What the code does |
| --- | --- | --- |
| `app_channels_reopen` | closing at an application's exit "is like pausing ... they can be reopened" (`serverchannelmanager.cpp`) | channels of the active application are closed by another's exit and not reopened; after a pause the client ignores the second OpenChannel |
| `head_server_pings` | "regular ping REST calls" (`headserverconnection.h`) | after an ordinary failure no ping or timer is left |
| `console_ui_codes` | "This way `comms` knows that connected application was the one that was just launched" (`RunDevelopmentPlatform.rst`) | codes repeat, and a process whose connection was lost presents its code again: it is taken for the application that is being launched |
| `console_ui_death` | "if application dies -> launch mainui" (`uiappstatemachine.cpp`) | not if it dies before its reply is handled |

Three more statements are written as invariants of the modules that no run lists. TLC finds
each violated when it is listed in the configuration of the module's run; a property of that
run excepts the case.

| Invariant | Statement | What the code does |
| --- | --- | --- |
| `NoOrphanedDownload` (`DownloadApplication`) | "if we fail after this point we need to delete our application dir" (`downloadapplicationcommand.cpp:167`) | not when the main UI goes: the application is listed as downloading for ever, and refused ever after. `AcceptedDownloadEnds` excepts a main UI that goes |
| `LitterIsNotValid` (`DownloadApplication`) | "folder might still exist but it is not valid application" (`localapplicationsstorage.cpp:229`) | a configuration without a state file, which an add or a deletion that fails or is cut short leaves, is read as a valid application. `ValidIsComplete` excepts what is `littered` |
| `FailedOpeningIsSignalled` (`MobileClient`) | "if opening fails then signal is emitted" (`main.qml:630`) | not for a 200 answer that is neither "ok" nor "error" (`consolesessionmanager.cpp:91`): the screen connects for ever. `WaitsForSomething` excepts what is `unheard` |

Other defects are in the models as the code has them, without a property that singles
them out:

- `_state` of a new `ServerSidePlayerChannel` is read uninitialised
  (`serversideplayerchannel.cpp:31`; `GarbageStates`): the channel may start open, and pass
  messages to an application that does not know the player, or never be offered.
- An application that connects again after its code was used up is discarded, and its socket
  is left open: it stays activated and hears nothing (`ReconnectDiscarded`).
- A request queued behind one that ends in an ordinary error waits until another request is
  made: nothing else looks at the queue (`Stalled`).
- `requestQueue.empty()` (`headserverconnection.cpp:119`) asks whether the queue is empty and
  does not empty it: requests that were failed are executed later.
- An output file that cannot be opened schedules the request's deletion twice
  (`downloadstreaminvocationimpl.cpp:197`; `unwritable`), and what `write()` returns is not
  looked at (`full`).
- A request cancelled in the queue is executed later; if it is a download, its progress
  calls the command that is gone. The same follows a redirect that is aborted: the new call
  goes on (`inVain`, `misused`).
- The token of a login is kept under the email that is current when the answer comes: if
  another user has been selected since, it is the wrong one's (`overtaken`). A session
  that is being opened is cancelled neither by a disconnect nor by the choice of another
  user (`stale`). A logout that fails is shown as a login that failed.

And these the models leave out or hold no property against, with their lines: a main UI
that dies or cannot be launched has no transition (`uiappstatemachine.cpp:64`); the
request to exit compares an id with one that has its version appended
(`uiappstatemachine.cpp:121`); a log line reads the id of a null application
(`applicationcontroller.cpp:86`; `crashed`); a connection without a code is accepted
(`connectionmanager.cpp:110`); the configuration a package brings is used unchecked
(`applicationconfigreaderwriter.cpp:191`; `crashed`); `unzip` that is not installed is waited
for (`downloadapplicationcommand.cpp:424`); the name of a session whose websocket never comes
stays reserved (`consolerestserver.cpp:160`).

## 7. Plan

Done, in this order: channel manager and its abstract service; its composition with
the client library, reconnects included; head server connection; connections and
screen; player sessions; downloads; the mobile client; REST invocations; proofs of all
their invariants, action properties and refinements.

Next, modules:

1. `MessageReader` as a recursive function over chunks, checked against whole messages.
2. `ApplicationVersionNumber`: a total order, checked against a reference definition.
3. The ping loop of `ServerConnection`, and the messages of a device's session
   composed with `PlayerSessions`, delivered once for each time it connected.
4. CloseChannel for a channel that is being reopened (`serverchannelmanager.cpp:225`).
5. A second websocket for a token in use (`websocketserver.cpp:86`), which now is left out.

Next, theorems, in order of worth: an abstract specification of the screen (one launch at a
time, then its end) that `ConsoleUI` refines, from `OneLaunchAtATime`; a converse of
`AcceptedIsKnown` for connections that never broke (a channel the application knows was
offered to it); an abstract directory of players that `PlayerSessions` refines; bounds on
`DownloadApplication`'s litter.

## 8. Running

    tlasany ConsoleUI.tla
    tlc -workers 2 -config console_ui.cfg MCConsoleUI
    tlapm DownloadApplicationProofs.tla
