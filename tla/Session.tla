------------------------------ MODULE Session ------------------------------
(***************************************************************************)
(* The client's relay session (packages/client/src/client.ts, relay.ts and *)
(* the token refresh of discovery.ts) and the app around it (App.tsx, the  *)
(* onboarding and settings screens, the wake push).                        *)
(*                                                                         *)
(* JavaScript runs one callback at a time, up to the next await that waits *)
(* for the outside: a token refresh, the opening of a socket, a timer.     *)
(* Each action is such a run.  connectRelay is called by the launch, by    *)
(* the onboarding screen, by the reconnect timer and by a wake push, and   *)
(* several of its calls may wait at the same time.                         *)
(***************************************************************************)
EXTENDS Naturals, FiniteSets

CONSTANTS
    Calls,     \* bound: the calls of connectRelay that may wait at a time
    Socks,     \* bound: the WebSockets that may exist at a time
    NoSock     \* null

ASSUME SessionAssumption == NoSock \notin Socks

VARIABLES
    userId,            \* whether HwfaClient.userId is set
    token,             \* the access token: "none", "fresh" or "stale" (under 60s left)
    relay,             \* HwfaClient.relay
    timer,             \* whether reconnectTimer is set
    intentionalClose,  \* HwfaClient.intentionalClose
    connState,         \* HwfaClient.connState
    call,              \* call -> what it waits for ("access", or "connect" via a
                       \* socket) and who made it; or Idle
    sock,              \* socket -> its life; "free" before and after
    saved,             \* whether the native store holds the account
    started,           \* ConversationStore.started: onText is subscribed
    screen,            \* what App shows
    unheard,           \* whether a message arrived that no handler took
    push,              \* the wake push: its set-up runs ("asking"), it is subscribed
                       \* ("on"), or the screen that set it up was left first
                       \* ("abandoned"), and it stays ("stuck")
    signedOut,         \* history: the user signed out, and nobody signed in since
    former             \* history: relay was opened for the identity signed out

clientVars == <<userId, token, relay, timer, intentionalClose, connState, former>>
appVars == <<saved, started, screen, unheard, push, signedOut>>
vars == <<userId, token, relay, timer, intentionalClose, connState,
          call, sock, saved, started, screen, unheard, push, signedOut, former>>

Idle == [phase |-> "idle", origin |-> "none", via |-> NoSock]

Init ==
    /\ userId = FALSE
    /\ token = "none"
    /\ relay = NoSock
    /\ timer = FALSE
    /\ intentionalClose = FALSE
    /\ connState = "offline"
    /\ call = [c \in Calls |-> Idle]
    /\ sock = [k \in Socks |-> "free"]
    /\ saved = FALSE
    /\ started = FALSE
    /\ screen = "boot"
    /\ unheard = FALSE
    /\ push = "none"
    /\ signedOut = FALSE
    /\ former = FALSE

-----------------------------------------------------------------------------
(* Pieces of connectRelay.                                                 *)

Waiting(p) == {c \in Calls : call[c].phase = p}

\* The calls of C are over.
Done(C) == [c \in Calls |-> IF c \in C THEN Idle ELSE call[c]]

MadeBy(C, o) == \E c \in C : call[c].origin = o

\* The calls of C end, well or with an exception: the launch goes on to the home
\* screen or falls back to the welcome screen, the onboarding screen goes on or
\* shows the error; the timer and the wake push ignore the outcome.
Settle(C, ok) ==
    screen' = IF MadeBy(C, "launch") THEN IF ok THEN "resumed" ELSE "welcome"
              ELSE IF ok /\ MadeBy(C, "user") THEN "joined"
              ELSE screen

\* After ensureAccess, for a call that finds no relay: the socket is made.
OpenSocket(k) ==
    /\ relay = NoSock
    /\ sock[k] = "free"
    /\ relay' = k
    /\ sock' = [sock EXCEPT ![k] = "connecting"]
    /\ intentionalClose' = FALSE
    /\ connState' = "connecting"
    /\ former' = signedOut'

\* scheduleReconnect, given intentionalClose.
Scheduled == timer \/ (userId /\ ~intentionalClose)

\* Mutant of HandleSocketClosed: no reconnect is scheduled.
HandleSocketClosedQuietly ==
    /\ relay' = NoSock
    /\ former' = FALSE
    /\ UNCHANGED timer

\* handleSocketClosed: it does not ask whose socket closed.
HandleSocketClosed ==
    /\ relay' = NoSock
    /\ former' = FALSE
    /\ timer' = Scheduled

-----------------------------------------------------------------------------
(* The callers of connectRelay.                                            *)

\* A call that needs a refresh waits for it; one with a fresh token opens the
\* socket, or returns when there is one.
ConnectRelay(c, o, tok, scr) ==
    /\ call[c] = Idle
    /\ \/ /\ tok # "fresh"
          /\ call' = [call EXCEPT ![c] = [phase |-> "access", origin |-> o, via |-> NoSock]]
          /\ screen' = scr
          /\ UNCHANGED <<relay, intentionalClose, connState, sock, former>>
       \/ \E k \in Socks :
             /\ tok = "fresh"
             /\ OpenSocket(k)
             /\ call' = [call EXCEPT ![c] = [phase |-> "connect", origin |-> o, via |-> k]]
             /\ screen' = scr
       \/ /\ tok = "fresh"
          /\ relay # NoSock
          /\ screen' = IF o = "user" THEN "joined" ELSE scr
          /\ UNCHANGED <<relay, intentionalClose, connState, call, sock, former>>

\* App's first effect and tryResume: the saved tokens are those of the onboarding,
\* so the access token is stale.
Launch(c) ==
    /\ screen = "boot"
    /\ UNCHANGED signedOut
    /\ \/ /\ saved
          /\ userId' = TRUE
          /\ token' = "stale"
          /\ ConnectRelay(c, "launch", "stale", "splash")
       \/ /\ ~saved
          /\ screen' = "welcome"
          /\ UNCHANGED <<userId, token, relay, intentionalClose, connState, call, sock, former>>
    /\ UNCHANGED <<timer, saved, started, unheard, push>>

\* confirmOtp or linkWithCode, once the server has accepted the code.
Login(c) ==
    /\ screen = "welcome"
    /\ ~MadeBy(Calls, "user")
    /\ userId' = TRUE
    /\ token' = "fresh"
    /\ signedOut' = FALSE
    /\ ConnectRelay(c, "user", "fresh", screen)
    /\ UNCHANGED <<timer, saved, started, unheard, push>>

TimerFires(c) ==
    /\ timer
    /\ userId
    /\ timer' = FALSE
    /\ UNCHANGED <<userId, token, saved, started, unheard, push, signedOut>>
    /\ ConnectRelay(c, "timer", token, screen)

\* A wake push, on whatever screen.
Wake(c) ==
    /\ push \in {"on", "stuck"}
    /\ userId
    /\ UNCHANGED <<userId, token, timer, saved, started, unheard, push, signedOut>>
    /\ ConnectRelay(c, "wake", token, screen)

-----------------------------------------------------------------------------
(* What the calls wait for.                                                *)

\* Mutant of RefreshOK: the token is kept but the callers are not resumed.
RefreshForgotten ==
    /\ Waiting("access") # {}
    /\ token' = "fresh"
    /\ UNCHANGED <<userId, relay, timer, intentionalClose, connState, call, sock, appVars, former>>

\* The one refresh in flight answers: all its callers go on, the first of them
\* opens the socket, the others find it.
RefreshOK ==
    LET C == Waiting("access")
    IN  /\ C # {}
        /\ token' = "fresh"
        /\ UNCHANGED <<userId, timer, saved, started, unheard, push, signedOut>>
        /\ \/ \E c \in C, k \in Socks :
                 /\ OpenSocket(k)
                 /\ call' = [Done(C) EXCEPT ![c] =
                                [phase |-> "connect", origin |-> call[c].origin, via |-> k]]
                 /\ Settle(C \ {c}, TRUE)
           \/ /\ relay # NoSock
              /\ call' = Done(C)
              /\ Settle(C, TRUE)
              /\ UNCHANGED <<relay, intentionalClose, connState, sock, former>>

\* ensureAccess throws, no network or no valid refresh token: connectRelay leaves
\* by the exception, before its try block.
RefreshFails ==
    LET C == Waiting("access")
    IN  /\ C # {}
        /\ call' = Done(C)
        /\ Settle(C, FALSE)
        /\ UNCHANGED <<clientVars, sock, saved, started, unheard, push, signedOut>>

WaitingFor(k) == {c \in Waiting("connect") : call[c].via = k}

SocketOpens(k) ==
    /\ sock[k] = "connecting"
    /\ sock' = [sock EXCEPT ![k] = "open"]
    /\ connState' = "connected"
    /\ call' = Done(WaitingFor(k))
    /\ Settle(WaitingFor(k), TRUE)
    /\ UNCHANGED <<userId, token, relay, timer, intentionalClose, former,
                   saved, started, unheard, push, signedOut>>

\* The events "error" and "close", then the catch block of the waiting call.
SocketFails(k) ==
    /\ sock[k] = "connecting"
    /\ sock' = [sock EXCEPT ![k] = "free"]
    /\ HandleSocketClosed
    /\ connState' = "offline"
    /\ call' = Done(WaitingFor(k))
    /\ Settle(WaitingFor(k), FALSE)
    /\ UNCHANGED <<userId, token, intentionalClose, saved, started, unheard,
                   push, signedOut>>

\* The event "close": of an open socket that dropped (the network, the relay, or
\* the token's expiry), or at last of one that the client closed.  A call that
\* still waits for the latter to open waits forever.
SocketCloses(k) ==
    /\ sock[k] \in {"open", "closing"}
    /\ sock' = [sock EXCEPT ![k] = "free"]
    /\ HandleSocketClosed
    /\ connState' = IF intentionalClose THEN connState ELSE "offline"
    /\ call' = Done(WaitingFor(k))
    /\ UNCHANGED <<userId, token, intentionalClose, appVars>>

\* A "deliver" frame: decrypted, then given to the handlers there are.  The
\* "delivered" receipt is sent in any case.
Deliver(k) ==
    /\ sock[k] = "open"
    /\ unheard' = (unheard \/ ~started)
    /\ UNCHANGED <<clientVars, call, sock, saved, started, screen, push, signedOut>>

TokenExpires ==
    /\ token = "fresh"
    /\ token' = "stale"
    /\ UNCHANGED <<userId, relay, timer, intentionalClose, connState, former,
                   call, sock, appVars>>

-----------------------------------------------------------------------------
(* The app.                                                                *)

\* The splash has been held long enough, or the onboarded account is saved: the
\* home screen is shown, ConversationStore.start subscribes and the push is set up,
\* unless an earlier initPush has not been cleaned up.
ShowHome ==
    /\ screen \in {"resumed", "joined"}
    /\ saved' = (saved \/ screen = "joined")
    /\ started' = TRUE
    /\ screen' = "home"
    /\ push' = IF push = "none" THEN "asking" ELSE push
    /\ UNCHANGED <<clientVars, call, sock, unheard, signedOut>>

\* initPush has its permission and its FCM token: it subscribes, also when App has
\* run its clean-up meanwhile, which then removes nothing.
SetUpPush ==
    /\ push \in {"asking", "abandoned"}
    /\ push' = IF push = "asking" THEN "on" ELSE "stuck"
    /\ UNCHANGED <<clientVars, call, sock, saved, started, screen, unheard, signedOut>>

\* Mutant of Close: the timer survives.
CloseKeepsTimer ==
    /\ intentionalClose' = TRUE
    /\ sock' = [k \in Socks |-> IF k = relay THEN "closing" ELSE sock[k]]
    /\ relay' = NoSock
    /\ former' = FALSE
    /\ connState' = "offline"
    /\ UNCHANGED timer

\* HwfaClient.close.
Close ==
    /\ intentionalClose' = TRUE
    /\ timer' = FALSE
    /\ sock' = [k \in Socks |-> IF k = relay THEN "closing" ELSE sock[k]]
    /\ relay' = NoSock
    /\ former' = FALSE
    /\ connState' = "offline"

\* Settings: signOut keeps the user id and the tokens in memory; deleteAccount drops
\* them once the server has accepted the token, which it does up to its expiry (the
\* request is made without ensureAccess).
SignOut ==
    /\ screen = "home"
    /\ screen' = "leaving"
    /\ signedOut' = TRUE
    /\ Close
    /\ UNCHANGED <<userId, token, call, saved, started, unheard, push>>

DeleteAccount ==
    /\ screen = "home"
    /\ token # "none"
    /\ userId' = FALSE
    /\ token' = "none"
    /\ screen' = "leaving"
    /\ signedOut' = TRUE
    /\ Close
    /\ UNCHANGED <<call, saved, started, unheard, push>>

\* The stores have been wiped; App runs the clean-up of the push if it has one.
Left ==
    /\ screen = "leaving"
    /\ screen' = "welcome"
    /\ saved' = FALSE
    /\ \/ push = "asking" /\ push' = "abandoned"
       \/ push = "on" /\ push' = "none"
       \/ push \notin {"asking", "on"} /\ UNCHANGED push
    /\ UNCHANGED <<clientVars, call, sock, started, unheard, signedOut>>

\* The process is killed; only the native store survives, with the identity when
\* the stores had not been wiped yet.
Kill ==
    /\ screen # "boot"
    /\ userId' = FALSE
    /\ token' = "none"
    /\ relay' = NoSock
    /\ timer' = FALSE
    /\ intentionalClose' = FALSE
    /\ connState' = "offline"
    /\ call' = [c \in Calls |-> Idle]
    /\ sock' = [k \in Socks |-> "free"]
    /\ started' = FALSE
    /\ screen' = "boot"
    /\ push' = "none"
    /\ signedOut' = FALSE
    /\ former' = FALSE
    /\ UNCHANGED <<saved, unheard>>

-----------------------------------------------------------------------------
Next ==
    \/ \E c \in Calls : Launch(c) \/ Login(c) \/ TimerFires(c) \/ Wake(c)
    \/ RefreshOK
    \/ RefreshFails
    \/ \E k \in Socks : SocketOpens(k) \/ SocketFails(k) \/ SocketCloses(k) \/ Deliver(k)
    \/ TokenExpires
    \/ ShowHome
    \/ SetUpPush
    \/ SignOut
    \/ DeleteAccount
    \/ Left
    \/ Kill

Spec == Init /\ [][Next]_vars

\* Timers fire, a refresh is answered or fails, and a socket that is being opened
\* opens or fails, by the timeouts of the platform.  Nothing is assumed of their
\* outcome, of the user or of the peers.  Fairness of the timer is strong because
\* the bound on Calls, and nothing in the code, can keep it from firing for a while.
FairSpec ==
    /\ Spec
    /\ SF_vars(\E c \in Calls : TimerFires(c))
    /\ WF_vars(RefreshOK \/ RefreshFails)
    /\ \A k \in Socks : WF_vars(SocketOpens(k) \/ SocketFails(k))

-----------------------------------------------------------------------------
(* Properties.                                                             *)

\* The user has an identity and has not closed the session: it ought to be up.
Wanted == userId /\ ~intentionalClose

\* Something is there that leads to a connection or back to another attempt: the
\* close event of a socket, whichever it is, schedules one.
Trying ==
    \/ timer
    \/ \E c \in Calls : call[c] # Idle
    \/ \E k \in Socks : sock[k] # "free"

\* The only thing that makes the client stop trying is a failed token refresh:
\* no order of socket events, late close events of old sockets, timers, pushes
\* and sign-ins leaves a session that is wanted without a socket, an attempt or
\* a timer.
OnlyRefreshGivesUp ==
    [][(Wanted => Trying) /\ Wanted' /\ ~Trying' =>
          token' # "fresh" /\ Waiting("access") # {}]_vars

\* The session is closed: nothing is open and nothing is due.
Closed == intentionalClose /\ ~timer /\ relay = NoSock

\* A call of connectRelay that got past its refresh after the sign-out and opens a
\* socket, and with it resets intentionalClose: one that was waiting when the user
\* signed out, or that of a wake push, for which the stores must be about to be
\* wiped or the clean-up of the push lost.
Reopens(c) ==
    /\ call'[c].phase = "connect"
    /\ \/ call[c].phase = "access"
       \/ call'[c].origin = "wake" /\ (screen = "leaving" \/ push = "stuck")

\* Signing out and deleting the account close the session, and until somebody signs
\* in only such a call reopens it: no pending reconnect, no late close event of an
\* old socket, no end of another call.  (What it reopens is then kept up like any
\* session: when its socket drops, a reconnect is scheduled.)
OnlyCallsReopen ==
    [][signedOut' /\ (signedOut => Closed) =>
          Closed' \/ \E c \in Calls : Reopens(c)]_vars

\* A pending reconnect ends in a new socket or in a failed refresh, unless the
\* user leaves.
RetryOpensSocket ==
    timer ~> (relay # NoSock \/ ~Wanted \/ (~timer /\ Waiting("access") = {}))

(* What the code's comments say, and the code does not do.                 *)

\* client.ts:309 "connectRelay reschedules itself on failure, so a bad attempt
\* just retries": a session that is wanted is being tried.
KeepsTrying == Wanted => Trying

\* client.ts:53 "Live relay socket state, surfaced to the UI": the state shown as
\* "connected" is that of a relay the client can send to.
ConnectedMeansRelay == connState = "connected" => relay # NoSock

\* client.ts:211 "Open (or reuse) the relay socket under our onboarded identity": the
\* socket under the home screen is not one that was opened, by a call that survived
\* the sign-out, for the identity before.
SocketIsOurs == screen = "home" => ~former

\* conversations.ts:8-9 "a message from any peer shows up in the conversation list
\* and in that peer's thread": some handler takes every message.
EveryMessageHeard == ~unheard
=============================================================================
