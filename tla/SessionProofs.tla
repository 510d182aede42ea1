--------------------------- MODULE SessionProofs ---------------------------
(***************************************************************************)
(* What is proved of the relay session, for any number of calls of         *)
(* connectRelay that wait at a time and any number of sockets.             *)
(***************************************************************************)
EXTENDS Session, TLAPS

\* The relay of the client is a socket that has not seen its close event.
RelayUsable == relay # NoSock => relay \in Socks /\ sock[relay] # "free"

\* A session that is wanted and has a fresh token has a timer or a socket: a call
\* that finds the token fresh opens one, and its close event sets the timer.
FreshTries == Wanted /\ token = "fresh" => timer \/ \E k \in Socks : sock[k] # "free"

\* A reconnect is pending only for a session that is wanted.  (A call that reopens a
\* closed session makes it wanted again.)
TimerIsWanted == timer => Wanted

SessionInv ==
    /\ DOMAIN call = Calls /\ DOMAIN sock = Socks
    /\ TimerIsWanted
    /\ RelayUsable
    /\ FreshTries

\* What the action property says of one step.
GivesUp ==
    (Wanted => Trying) /\ Wanted' /\ ~Trying' => token' # "fresh" /\ Waiting("access") # {}

Kept == SessionInv' /\ GivesUp

\* A new socket is the relay, and it is a try.
LEMMA OpenTries ==
    ASSUME SessionInv, NEW k \in Socks, OpenSocket(k)
    PROVE  /\ DOMAIN sock' = Socks /\ RelayUsable' /\ Trying' /\ ~intentionalClose'
           /\ \E j \in Socks : sock'[j] # "free"
  <1>1. relay' = k /\ DOMAIN sock' = Socks /\ sock'[k] = "connecting"
    BY DEF OpenSocket, SessionInv
  <1>2. \E j \in Socks : sock'[j] # "free"
    BY <1>1
  <1>3. RelayUsable'
    BY <1>1 DEF RelayUsable
  <1> QED
    BY <1>1, <1>2, <1>3 DEF Trying, OpenSocket

\* connectRelay, by whomever: afterwards there is a call that waits or a socket.
LEMMA ConnectTries ==
    ASSUME SessionInv, NEW c \in Calls, NEW o, NEW tok, NEW scr, ConnectRelay(c, o, tok, scr)
    PROVE  /\ DOMAIN call' = Calls /\ DOMAIN sock' = Socks /\ RelayUsable' /\ Trying'
           /\ tok = "fresh" => \E k \in Socks : sock'[k] # "free"
           /\ intentionalClose' \in {intentionalClose, FALSE}
           /\ (\E k \in Socks : sock[k] # "free") => \E k \in Socks : sock'[k] # "free"
           /\ intentionalClose' # intentionalClose => \E k \in Socks : sock'[k] # "free"
  <1>1. CASE /\ tok # "fresh"
             /\ call' = [call EXCEPT ![c] = [phase |-> "access", origin |-> o, via |-> NoSock]]
             /\ UNCHANGED <<relay, intentionalClose, connState, sock>>
    <2>1. DOMAIN call' = Calls /\ call'[c] # Idle
      BY <1>1 DEF SessionInv, Idle
    <2>2. RelayUsable' /\ DOMAIN sock' = Socks
      BY <1>1 DEF SessionInv, RelayUsable
    <2>3. Trying'
      BY <2>1 DEF Trying
    <2> QED
      BY <1>1, <2>1, <2>2, <2>3
  <1>2. ASSUME NEW k \in Socks, OpenSocket(k),
               call' = [call EXCEPT ![c] = [phase |-> "connect", origin |-> o, via |-> k]]
        PROVE  /\ DOMAIN call' = Calls /\ DOMAIN sock' = Socks /\ RelayUsable' /\ Trying'
               /\ intentionalClose' = FALSE /\ \E j \in Socks : sock'[j] # "free"
    <2>1. DOMAIN call' = Calls /\ intentionalClose' = FALSE
      BY <1>2 DEF SessionInv, OpenSocket
    <2> QED
      BY <1>2, <2>1, OpenTries
  <1>3. CASE relay # NoSock /\ UNCHANGED <<relay, intentionalClose, connState, call, sock>>
    <2>1. \E k \in Socks : sock[k] # "free"
      BY <1>3 DEF SessionInv, RelayUsable
    <2>2. Trying' /\ RelayUsable'
      BY <1>3, <2>1 DEF SessionInv, RelayUsable, Trying
    <2> QED
      BY <1>3, <2>1, <2>2 DEF SessionInv
  <1> QED
    BY <1>1, <1>2, <1>3 DEF ConnectRelay

\* The callers of connectRelay.
LEMMA CallersKeep ==
    ASSUME SessionInv, NEW c \in Calls, Launch(c) \/ Login(c) \/ TimerFires(c) \/ Wake(c)
    PROVE  Kept
  <1>1. CASE Launch(c) /\ saved
    <2>1. userId' = TRUE /\ token' = "stale" /\ timer' = timer
          /\ ConnectRelay(c, "launch", "stale", "splash")
      BY <1>1 DEF Launch
    <2> QED
      BY <2>1, ConnectTries
         DEF Kept, SessionInv, TimerIsWanted, FreshTries, GivesUp, Wanted
  <1>2. CASE Launch(c) /\ ~saved
    BY <1>2 DEF Launch, Kept, SessionInv, TimerIsWanted, RelayUsable, FreshTries, GivesUp,
                Wanted, Trying
  <1>3. CASE Login(c)
    <2>1. userId' = TRUE /\ timer' = timer /\ ConnectRelay(c, "user", "fresh", screen)
      BY <1>3 DEF Login
    <2> QED
      BY <2>1, ConnectTries
         DEF Kept, SessionInv, TimerIsWanted, FreshTries, GivesUp, Wanted
  <1>4. CASE TimerFires(c)
    <2>1. ~timer' /\ token' = token /\ ConnectRelay(c, "timer", token, screen)
      BY <1>4 DEF TimerFires
    <2> QED
      BY <2>1, ConnectTries DEF Kept, SessionInv, TimerIsWanted, FreshTries, GivesUp
  <1>5. CASE Wake(c)
    <2>1. userId' = userId /\ timer' = timer /\ token' = token
          /\ ConnectRelay(c, "wake", token, screen)
      BY <1>5 DEF Wake
    <2> QED
      BY <2>1, ConnectTries
         DEF Kept, SessionInv, TimerIsWanted, FreshTries, GivesUp, Wanted
  <1> QED
    BY <1>1, <1>2, <1>3, <1>4, <1>5

\* The one refresh in flight.
LEMMA RefreshKeeps ==
    ASSUME SessionInv, RefreshOK \/ RefreshFails
    PROVE  Kept
  <1> DEFINE C == Waiting("access")
  <1>1. DOMAIN Done(C) = Calls
    BY DEF Done
  <1>2. CASE RefreshOK
    <2>1. userId' = userId /\ timer' = timer
      BY <1>2 DEF RefreshOK
    <2>2. ASSUME NEW c \in C, NEW k \in Socks, OpenSocket(k),
                 call' = [Done(C) EXCEPT ![c] =
                              [phase |-> "connect", origin |-> call[c].origin, via |-> k]]
          PROVE  Kept
      <3>1. DOMAIN call' = Calls
        BY <1>1, <2>2
      <3> QED
        BY <2>1, <2>2, <3>1, OpenTries
           DEF Kept, SessionInv, TimerIsWanted, FreshTries, GivesUp, Wanted
    <2>3. CASE /\ relay # NoSock /\ call' = Done(C)
               /\ UNCHANGED <<relay, intentionalClose, connState, sock>>
      <3>1. \E k \in Socks : sock'[k] # "free"
        BY <2>3 DEF SessionInv, RelayUsable
      <3>2. Trying'
        BY <3>1 DEF Trying
      <3>3. RelayUsable' /\ DOMAIN call' = Calls /\ DOMAIN sock' = Socks
        BY <1>1, <2>3 DEF SessionInv, RelayUsable
      <3> QED
        BY <2>1, <2>3, <3>1, <3>2, <3>3
           DEF Kept, SessionInv, TimerIsWanted, FreshTries, GivesUp, Wanted
    <2> QED
      BY <1>2, <2>2, <2>3 DEF RefreshOK
  <1>3. CASE RefreshFails
    <2>1. C # {} /\ call' = Done(C) /\ UNCHANGED <<clientVars, sock>>
      BY <1>3 DEF RefreshFails
    <2>2. SessionInv'
      BY <1>1, <2>1 DEF SessionInv, TimerIsWanted, RelayUsable, FreshTries, Wanted, clientVars
    <2>3. Wanted' /\ token' = "fresh" => Trying'
      BY <2>1 DEF SessionInv, FreshTries, Wanted, Trying, clientVars
    <2> QED
      BY <2>1, <2>2, <2>3 DEF Kept, GivesUp
  <1> QED
    BY <1>2, <1>3

\* The events of a socket, whichever it is.
LEMMA SocketKeeps ==
    ASSUME SessionInv, NEW k \in Socks,
           SocketOpens(k) \/ SocketFails(k) \/ SocketCloses(k) \/ Deliver(k)
    PROVE  Kept
  <1>1. \A D : DOMAIN Done(D) = Calls
    BY DEF Done
  <1>2. CASE SocketOpens(k)
    <2>1. /\ sock' = [sock EXCEPT ![k] = "open"] /\ DOMAIN call' = Calls
          /\ UNCHANGED <<userId, token, relay, timer, intentionalClose>>
      BY <1>1, <1>2 DEF SocketOpens
    <2>2. DOMAIN sock' = Socks /\ \A j \in Socks : sock'[j] = IF j = k THEN "open" ELSE sock[j]
      BY <2>1 DEF SessionInv
    <2>3. Trying'
      BY <2>2 DEF Trying
    <2>4. RelayUsable'
      BY <2>1, <2>2 DEF SessionInv, RelayUsable
    <2> QED
      BY <2>1, <2>2, <2>3, <2>4
         DEF Kept, SessionInv, TimerIsWanted, FreshTries, GivesUp, Wanted
  <1>3. CASE SocketFails(k) \/ SocketCloses(k)
    <2>1. /\ DOMAIN sock' = Socks /\ DOMAIN call' = Calls /\ relay' = NoSock
          /\ timer' = Scheduled /\ UNCHANGED <<userId, token, intentionalClose>>
      BY <1>1, <1>3 DEF SocketFails, SocketCloses, HandleSocketClosed, SessionInv
    <2>2. Wanted' => timer'
      BY <2>1 DEF Scheduled, Wanted
    <2>3. timer' => Wanted'
      BY <2>1 DEF SessionInv, TimerIsWanted, Scheduled, Wanted
    <2> QED
      BY <2>1, <2>2, <2>3
         DEF Kept, SessionInv, TimerIsWanted, RelayUsable, FreshTries, GivesUp, Trying
  <1>4. CASE Deliver(k)
    BY <1>4 DEF Deliver, clientVars, Kept, SessionInv, TimerIsWanted, RelayUsable, FreshTries,
                GivesUp, Wanted, Trying
  <1> QED
    BY <1>2, <1>3, <1>4

\* The clock, the screens and the end of the session or of the process.
LEMMA AppKeeps ==
    ASSUME SessionInv,
           TokenExpires \/ ShowHome \/ SetUpPush \/ SignOut \/ DeleteAccount \/ Left \/ Kill \/ UNCHANGED vars
    PROVE  Kept
  <1>1. CASE TokenExpires
    BY <1>1 DEF TokenExpires, Kept, SessionInv, TimerIsWanted, RelayUsable, FreshTries,
                GivesUp, Wanted, Trying
  <1>2. CASE ShowHome \/ SetUpPush \/ Left \/ UNCHANGED vars
    BY <1>2 DEF ShowHome, SetUpPush, Left, vars, clientVars, Kept, SessionInv, TimerIsWanted, RelayUsable,
                FreshTries, GivesUp, Wanted, Trying
  <1>3. CASE SignOut \/ DeleteAccount
    <2>1. /\ intentionalClose' = TRUE /\ timer' = FALSE /\ relay' = NoSock
          /\ DOMAIN sock' = Socks /\ call' = call
      BY <1>3 DEF SignOut, DeleteAccount, Close
    <2> QED
      BY <2>1 DEF Kept, SessionInv, TimerIsWanted, RelayUsable, FreshTries, GivesUp, Wanted
  <1>4. CASE Kill
    <2>1. /\ userId' = FALSE /\ timer' = FALSE /\ relay' = NoSock
          /\ DOMAIN sock' = Socks /\ DOMAIN call' = Calls
      BY <1>4 DEF Kill
    <2> QED
      BY <2>1 DEF Kept, SessionInv, TimerIsWanted, RelayUsable, FreshTries, GivesUp, Wanted
  <1> QED
    BY <1>1, <1>2, <1>3, <1>4

\* Every step keeps the invariant, and gives up only as the property says.
LEMMA SessionStep ==
    ASSUME SessionInv, [Next]_vars
    PROVE  Kept
  BY CallersKeep, RefreshKeeps, SocketKeeps, AppKeeps DEF Next

\* The invariant holds.
LEMMA SessionInvariant == Spec => []SessionInv
  <1>1. Init => SessionInv
    BY DEF Init, SessionInv, TimerIsWanted, RelayUsable, FreshTries, Wanted
  <1>2. SessionInv /\ [Next]_vars => SessionInv'
    BY SessionStep DEF Kept
  <1> QED
    BY <1>1, <1>2, PTL DEF Spec

\* connectRelay: only a failed token refresh makes the client stop trying, however
\* many calls and sockets are about.
THEOREM StopsOnlyByRefresh == Spec => OnlyRefreshGivesUp
  <1>1. SessionInv /\ [Next]_vars => [GivesUp]_vars
    BY SessionStep DEF Kept
  <1> QED
    BY <1>1, SessionInvariant, PTL DEF Spec, OnlyRefreshGivesUp, GivesUp

-----------------------------------------------------------------------------
(* Who can reopen a session that was closed by a sign-out.                 *)

\* The call was made by the launch or by the onboarding screen: its end moves the app.
Signing(c) == call[c].origin \in {"launch", "user"}

\* One such call at most, and none while somebody is signed in or signing out: no
\* forgotten call brings the home screen back after a sign-out.
SigningInv ==
    /\ \A c, d \in Calls : Signing(c) /\ Signing(d) => c = d
    /\ screen = "welcome" => \A c \in Calls : call[c].origin # "launch"
    /\ screen \in {"boot", "resumed", "joined", "home", "leaving"} \/ signedOut =>
          \A c \in Calls : ~Signing(c)
    /\ signedOut => screen \in {"leaving", "welcome"}
    /\ push \in {"asking", "on"} => screen \in {"home", "leaving"}

\* What the action property says of one step.
ReopenedByCall ==
    signedOut' /\ (signedOut => Closed) => Closed' \/ \E c \in Calls : Reopens(c)

KeptOut == SigningInv' /\ ReopenedByCall

\* The calls of D end, and no other call begins or changes hands.
LEMMA SettleSigns ==
    ASSUME SigningInv, NEW D, NEW ok \in BOOLEAN, Settle(D, ok), D \subseteq Calls,
           \A c \in Calls : call'[c].origin = call[c].origin \/ ~Signing(c)',
           \A c \in D : ~Signing(c)', UNCHANGED <<push, signedOut>>
    PROVE  SigningInv'
  <1>1. \A c \in Calls : Signing(c)' => Signing(c) /\ c \notin D /\ call'[c].origin = call[c].origin
    BY DEF Signing
  <1>2. CASE \E d \in D : Signing(d)
    <2>1. \A c \in Calls : ~Signing(c)'
      BY <1>1, <1>2 DEF SigningInv
    <2>2. ~signedOut' /\ push' \notin {"asking", "on"}
      BY <1>2 DEF SigningInv
    <2> QED
      BY <2>1, <2>2 DEF SigningInv, Signing
  <1>3. CASE ~\E d \in D : Signing(d)
    <2>1. screen' = screen
      BY <1>3 DEF Settle, MadeBy, Signing
    <2> QED
      BY <1>1, <2>1 DEF SigningInv, Signing
  <1> QED
    BY <1>2, <1>3

\* A call that is not of the launch or the onboarding screen begins, or it finds the
\* relay: it reopens a closed session only by opening a socket of its own.
LEMMA ConnectSigns ==
    ASSUME SessionInv, SigningInv, NEW c \in Calls, NEW o \in {"timer", "wake"}, NEW tok,
           ConnectRelay(c, o, tok, screen), UNCHANGED <<push, signedOut>>
    PROVE  /\ SigningInv'
           /\ \/ UNCHANGED <<relay, intentionalClose>>
              \/ call'[c].phase = "connect" /\ call'[c].origin = o
  <1>1. /\ screen' = screen /\ DOMAIN call' = Calls
        /\ \A d \in Calls : call'[d].origin = call[d].origin \/ ~Signing(d)'
    BY DEF ConnectRelay, SessionInv, Signing
  <1>2. \A d \in Calls : Signing(d)' => Signing(d) /\ call'[d].origin = call[d].origin
    BY <1>1 DEF Signing
  <1>3. SigningInv'
    BY <1>1, <1>2 DEF SigningInv, Signing
  <1>4. UNCHANGED <<relay, intentionalClose>> \/ (call'[c].phase = "connect" /\ call'[c].origin = o)
    BY DEF ConnectRelay, SessionInv
  <1> QED
    BY <1>3, <1>4

\* The launch and the onboarding screen.
LEMMA SigningSigns ==
    ASSUME SessionInv, SigningInv, NEW c \in Calls, Launch(c) \/ Login(c)
    PROVE  KeptOut
  <1>1. CASE Launch(c)
    <2>1. /\ screen = "boot" /\ ~signedOut /\ UNCHANGED <<push, signedOut>>
          /\ \A d \in Calls : ~Signing(d)
      BY <1>1 DEF Launch, SigningInv
    <2>2. /\ \A d \in Calls : d # c => call'[d] = call[d]
          /\ \/ screen' = "splash"
             \/ screen' = "welcome" /\ call' = call
      BY <1>1 DEF Launch, ConnectRelay, SessionInv
    <2>3. \A d \in Calls : Signing(d)' => d = c
      BY <2>1, <2>2 DEF Signing
    <2>4. push' \notin {"asking", "on"} /\ ~signedOut'
      BY <2>1 DEF SigningInv
    <2>5. screen' = "welcome" => \A d \in Calls : call'[d].origin # "launch"
      BY <2>1, <2>2 DEF Signing
    <2>6. SigningInv'
      BY <2>2, <2>3, <2>4, <2>5 DEF SigningInv
    <2> QED
      BY <2>4, <2>6 DEF KeptOut, ReopenedByCall
  <1>2. CASE Login(c)
    <2>1. /\ screen = "welcome" /\ ~signedOut' /\ push' = push
          /\ \A d \in Calls : ~Signing(d)
      BY <1>2 DEF Login, MadeBy, SigningInv, Signing
    <2>2. /\ \A d \in Calls : d # c => call'[d] = call[d]
          /\ \/ screen' = "welcome" /\ call'[c].origin = "user"
             \/ screen' = "joined" /\ call' = call
      BY <1>2, <2>1 DEF Login, ConnectRelay, SessionInv
    <2>3. \A d \in Calls : Signing(d)' => d = c
      BY <2>1, <2>2 DEF Signing
    <2>4. screen' = "joined" => \A d \in Calls : ~Signing(d)'
      BY <2>1, <2>2 DEF Signing
    <2>5. screen' = "welcome" => \A d \in Calls : call'[d].origin # "launch"
      BY <2>1, <2>2 DEF Signing
    <2>6. push' \notin {"asking", "on"}
      BY <2>1 DEF SigningInv
    <2>7. SigningInv'
      BY <2>1, <2>2, <2>3, <2>4, <2>5, <2>6 DEF SigningInv
    <2> QED
      BY <2>1, <2>7 DEF KeptOut, ReopenedByCall
  <1> QED
    BY <1>1, <1>2

\* The timer and the wake push.
LEMMA RetrySigns ==
    ASSUME SessionInv, SigningInv, NEW c \in Calls, TimerFires(c) \/ Wake(c)
    PROVE  KeptOut
  <1>1. CASE TimerFires(c)
    <2>1. timer /\ ConnectRelay(c, "timer", token, screen) /\ UNCHANGED <<push, signedOut>>
      BY <1>1 DEF TimerFires
    <2> QED
      BY <2>1, ConnectSigns DEF KeptOut, ReopenedByCall, Closed
  <1>2. CASE Wake(c)
    <2>1. /\ push \in {"on", "stuck"} /\ ConnectRelay(c, "wake", token, screen)
          /\ UNCHANGED <<push, signedOut, timer>>
      BY <1>2 DEF Wake
    <2>2. SigningInv'
      BY <2>1, ConnectSigns
    <2>3. signedOut => screen = "leaving" \/ push = "stuck"
      BY <2>1 DEF SigningInv
    <2>4. UNCHANGED <<relay, intentionalClose>> \/ (signedOut => Reopens(c))
      BY <2>1, <2>3, ConnectSigns DEF Reopens
    <2> QED
      BY <2>1, <2>2, <2>4 DEF KeptOut, ReopenedByCall, Closed
  <1> QED
    BY <1>1, <1>2

\* The one refresh in flight.
LEMMA RefreshSigns ==
    ASSUME SessionInv, SigningInv, RefreshOK \/ RefreshFails
    PROVE  KeptOut
  <1> DEFINE C == Waiting("access")
  <1>1. /\ C \subseteq Calls /\ DOMAIN Done(C) = Calls
        /\ \A d \in Calls : Done(C)[d] = IF d \in C THEN Idle ELSE call[d]
    BY DEF Waiting, Done
  <1>2. ASSUME NEW c \in C, NEW k \in Socks, RefreshOK,
               call' = [Done(C) EXCEPT ![c] =
                            [phase |-> "connect", origin |-> call[c].origin, via |-> k]],
               Settle(C \ {c}, TRUE)
        PROVE  KeptOut
    <2>1. /\ call'[c].phase = "connect" /\ call'[c].origin = call[c].origin
          /\ \A d \in Calls \ {c} : call'[d] = IF d \in C THEN Idle ELSE call[d]
      BY <1>1, <1>2
    <2>2. /\ \A d \in Calls : call'[d].origin = call[d].origin \/ ~Signing(d)'
          /\ \A d \in C \ {c} : ~Signing(d)'
      BY <1>1, <1>2, <2>1 DEF Signing, Idle
    <2>3. C \ {c} \subseteq Calls /\ UNCHANGED <<push, signedOut>>
      BY <1>1, <1>2 DEF RefreshOK
    <2>4. SigningInv'
      BY <1>2, <2>2, <2>3, SettleSigns
    <2>5. Reopens(c)
      BY <1>2, <2>1 DEF Reopens, Waiting
    <2> QED
      BY <1>1, <1>2, <2>4, <2>5 DEF KeptOut, ReopenedByCall
  <1>3. ASSUME NEW ok \in BOOLEAN, call' = Done(C), Settle(C, ok),
               UNCHANGED <<relay, timer, intentionalClose, push, signedOut>>
        PROVE  KeptOut
    <2>1. /\ \A d \in Calls : call'[d].origin = call[d].origin \/ ~Signing(d)'
          /\ \A d \in C : ~Signing(d)'
      BY <1>1, <1>3 DEF Signing, Idle
    <2>2. SigningInv'
      BY <1>1, <1>3, <2>1, SettleSigns
    <2> QED
      BY <1>3, <2>2 DEF KeptOut, ReopenedByCall, Closed
  <1>4. CASE RefreshOK
    BY <1>2, <1>3, <1>4 DEF RefreshOK
  <1>5. CASE RefreshFails
    <2>1. call' = Done(C) /\ Settle(C, FALSE)
          /\ UNCHANGED <<relay, timer, intentionalClose, push, signedOut>>
      BY <1>5 DEF RefreshFails, clientVars
    <2> QED
      BY <1>3, <2>1
  <1> QED
    BY <1>4, <1>5

\* The events of a socket: none of them opens one, and a close event that finds the
\* session closed sets no timer.
LEMMA SocketSigns ==
    ASSUME SessionInv, SigningInv, NEW k \in Socks,
           SocketOpens(k) \/ SocketFails(k) \/ SocketCloses(k) \/ Deliver(k)
    PROVE  KeptOut
  <1> DEFINE D == WaitingFor(k)
  <1>1. /\ D \subseteq Calls
        /\ \A d \in Calls : Done(D)[d] = IF d \in D THEN Idle ELSE call[d]
    BY DEF WaitingFor, Waiting, Done
  <1>2. ASSUME call' = Done(D)
        PROVE  /\ \A d \in Calls : call'[d].origin = call[d].origin \/ ~Signing(d)'
               /\ \A d \in D : ~Signing(d)'
    BY <1>1, <1>2 DEF Signing, Idle
  <1>3. CASE SocketOpens(k)
    <2>1. call' = Done(D) /\ Settle(D, TRUE)
          /\ UNCHANGED <<relay, timer, intentionalClose, push, signedOut>>
      BY <1>3 DEF SocketOpens
    <2>2. SigningInv'
      BY <1>1, <1>2, <2>1, SettleSigns
    <2> QED
      BY <2>1, <2>2 DEF KeptOut, ReopenedByCall, Closed
  <1>4. CASE SocketFails(k)
    <2>1. call' = Done(D) /\ Settle(D, FALSE) /\ HandleSocketClosed
          /\ UNCHANGED <<intentionalClose, push, signedOut>>
      BY <1>4 DEF SocketFails
    <2>2. SigningInv'
      BY <1>1, <1>2, <2>1, SettleSigns
    <2> QED
      BY <2>1, <2>2 DEF KeptOut, ReopenedByCall, Closed, HandleSocketClosed, Scheduled
  <1>5. CASE SocketCloses(k)
    <2>1. call' = Done(D) /\ HandleSocketClosed
          /\ UNCHANGED <<intentionalClose, screen, push, signedOut>>
      BY <1>5 DEF SocketCloses, appVars
    <2>2. \A d \in Calls : Signing(d)' => Signing(d) /\ call'[d].origin = call[d].origin
      BY <1>2, <2>1 DEF Signing
    <2>3. SigningInv'
      BY <2>1, <2>2 DEF SigningInv, Signing
    <2> QED
      BY <2>1, <2>3 DEF KeptOut, ReopenedByCall, Closed, HandleSocketClosed, Scheduled
  <1>6. CASE Deliver(k)
    BY <1>6 DEF Deliver, clientVars, KeptOut, SigningInv, Signing, ReopenedByCall, Closed
  <1> QED
    BY <1>3, <1>4, <1>5, <1>6

\* The clock, the screens and the end of the session or of the process.
LEMMA AppSigns ==
    ASSUME SessionInv, SigningInv,
           TokenExpires \/ ShowHome \/ SetUpPush \/ SignOut \/ DeleteAccount \/ Left \/ Kill
              \/ UNCHANGED vars
    PROVE  KeptOut
  <1>1. CASE TokenExpires \/ UNCHANGED vars
    BY <1>1 DEF TokenExpires, vars, appVars, KeptOut, SigningInv, Signing, ReopenedByCall, Closed
  <1>2. CASE ShowHome \/ SetUpPush \/ Left
    BY <1>2 DEF ShowHome, SetUpPush, Left, clientVars, KeptOut, SigningInv, Signing,
                ReopenedByCall, Closed
  <1>3. CASE SignOut \/ DeleteAccount
    <2>1. /\ screen = "home" /\ screen' = "leaving" /\ call' = call /\ push' = push
          /\ intentionalClose' = TRUE /\ timer' = FALSE /\ relay' = NoSock
      BY <1>3 DEF SignOut, DeleteAccount, Close
    <2> QED
      BY <2>1 DEF KeptOut, SigningInv, Signing, ReopenedByCall, Closed
  <1>4. CASE Kill
    BY <1>4 DEF Kill, Idle, KeptOut, SigningInv, Signing, ReopenedByCall
  <1> QED
    BY <1>1, <1>2, <1>3, <1>4

\* Every step keeps the invariant, and reopens a closed session only as said.
LEMMA SigningStep ==
    ASSUME SessionInv, SigningInv, [Next]_vars
    PROVE  KeptOut
  BY SigningSigns, RetrySigns, RefreshSigns, SocketSigns, AppSigns DEF Next

\* signOut, deleteAccount, scheduleReconnect and the clean-up of initPush: after a
\* sign-out the session stays closed until somebody signs in, unless a call that
\* was waiting for the refresh, or that of a push woken in between, opens a socket.
THEOREM ReopenedOnlyByCalls == Spec => OnlyCallsReopen
  <1>1. Init => SigningInv
    BY DEF Init, Idle, SigningInv, Signing
  <1>2. SessionInv /\ SigningInv /\ [Next]_vars => SigningInv'
    BY SigningStep DEF KeptOut
  <1>3. SessionInv /\ SigningInv /\ [Next]_vars => [ReopenedByCall]_vars
    BY SigningStep DEF KeptOut
  <1> QED
    BY <1>1, <1>2, <1>3, SessionInvariant, PTL DEF Spec, OnlyCallsReopen, ReopenedByCall
=============================================================================
