# Hwfa in TLA+

Specifications of the Hwfa messenger: two Go services (`backend/relay`,
`backend/discovery`), the TypeScript client library (`packages/client`) and the React
Native app (`apps/mobile`). Paths below are relative to the repository. `PROJECT.json`
maps every definition to the lines it models, and lists the runs, the mutants that show
each property can fail, the hazards and the theorems.

## 1. The system

A device registers a phone number with the discovery service, which hands it bearer
tokens and keeps its public keys. It opens a WebSocket to the relay with the access
token. Messages are encrypted on the device and sent as envelopes to each device of the
recipient; the relay hands an envelope to the recipient's connection or queues it and
wakes the device with a push. The recipient's client decrypts, sends a "delivered"
receipt and calls the app's handlers; the app's stores keep threads and save them to the
native encrypted store. Typing signals, group messages, status posts, media references
and call signalling all travel as bodies of ordinary messages.

### Components

| Component | State | Operations | What is hard | What makes it correct |
|---|---|---|---|---|
| **Relay hub and connections** `backend/relay` | `conns`, `queue`, `nextID`, `pushTokens`, the state file; per connection the socket, a channel of 64 and two goroutines | register+flush, route, forwardStatus, register-push, unregister, persist, prune, load | the lock is released before a send; teardown races a reconnect; restarts; failed saves; the cap and the TTL; send on a closed channel | one id per envelope; no envelope stranded behind a live connection; at most one delivery; only the right device; the cap costs the oldest |
| **Push wake-up** `backend/relay/push.go` | OAuth token cache | send a content-free push | none of its outcomes changes the relay | - |
| **Discovery store and handlers** `backend/discovery` | accounts and devices, pending codes, cooldowns, rate windows, link tokens, salt, the state file | register, verify, refresh, keys, upload keys, intersect, link token, link device, list, revoke, delete, persist, load | a token is checked before the lock is taken; a handler with two locked sections; restart; failed saves | revoked devices lose access and stay gone; no device without its account; a prekey handed out once; hashes match the salt |
| **Bearer tokens** `backend/authtoken` | none | mint, verify | checked without the store | kinds and expiry respected |
| **Media service** `backend/media` | none | presign | - | - |
| **Client relay session** `packages/client` `client.ts`, `relay.ts`, `discovery.ts` | relay, timer, `intentionalClose`, connection state, access and refresh token, device and ref maps | connectRelay, reconnect, close, refresh, requests, send, receive, ack, status | several `connectRelay`, `sendText` and refresh calls wait at once; late events of old sockets; timers versus sign-out; answers that cross a change of account | a wanted session keeps trying; after a sign-out no timer and no late event reconnects; every call ends; a token is the user's own; ticks are true |
| **App shell and screens** `App.tsx`, `screens/*`, `push/setup.ts`, `hwfaClient.ts` | the screen, the account, the local state of the mounted screen, the open alert, suspended handlers, the saved account | launch, onboard, link, navigate, find, scan, verify, list and revoke devices, sign out, delete, wake | a handler comes back to another screen, another visit or another account; the order of connecting and subscribing | a spinner has somebody who ends it; nobody is led to a screen that is not rendered or a chat without an account |
| **Conversation store** `store/conversations.ts` | threads, id counter, save timer, the saved blob | start/hydrate, save, reset, ensurePeer, createGroup, send, sendMedia, applyStatus, receive, markRead, star, dismiss, media transfers | messages before the history is loaded; lost saves; transfers that end late; statuses out of order | nothing lost or doubled; badge and receipts right; ticks only rise |
| **Status and typing stores; scam reports** `store/typing.ts`, `store/statuses.ts`, `scam/reports.ts` | senders with expiries, cached snapshots and a sweep; statuses with expiries; a log with its file | receive, sweep, clear, compose; post, receive, open the tab; report, flush, restore, load | lost, doubled and late signals; caches; the first load | an indicator lapses by itself; an expired status stays gone; a recorded report is lost only with the process or to a concurrent first load |
| **Call manager** `call/manager.ts`, `call/store.ts`, `call/wire.ts` | one call, peer connection, stashed offer and candidates, the overlay, a log | start, accept, decline, hang up, toggles, five signals, events of the peer connection, a reset timer | glare, signals and hang-up during an await, candidates before the description, late events | a ring is answerable and takes no call over; no candidate is stranded |
| **Prekeys and sessions** `packages/crypto`, `HwfaCryptoModule.kt`, `PersistentSignalProtocolStore.kt` | key and session stores | mint, publish, spend, replenish, establish | two sends establish at once; upkeep overlaps itself; relaunch, relinking | what is sent can be read |
| **Media client** `media/*` | a key and a digest per attachment | encrypt, presign, upload, download, check, decrypt | the object store is not trusted; tokens expire in between | the recipient sees what the sender picked, or nothing |
| **Pure functions** scam detector, safety number, phone normalisation | none | - | - | - |

### How they interact

Discovery and the relay share only the token secret: the relay checks an access token at
the upgrade and never asks discovery again. Client and relay exchange frames (`send`,
`ack`, `deliver`, `receipt`, `status`, `register-push`) over a socket that may die at any
moment. Inside the app, the client calls handlers synchronously; the conversation store
is one of them and routes typing, call, group and status bodies on. Native calls
(`saveMessages`, `saveAccount`, the crypto module) are asynchronous and serve one after
another.

## 2. The modules

| Module | Models | Run through | Proofs |
|---|---|---|---|
| `Relay` | `hub.go`, `client.go`, the upgrade handler of `main.go` | `MCRelay` | `RelayProofs` |
| `Discovery` | `store.go`, `handlers.go`, `main.go`, token kinds and expiry | `MCDiscovery` | `DiscoveryProofs` |
| `Session` | `connectRelay` and what calls it: `client.ts`, `relay.ts`, the refresh of `discovery.ts`, `App.tsx`, onboarding, settings, wake push | `MCSession` | `SessionProofs` |
| `Conversations` | `conversations.ts`, the native blob, the sign-out that clears it | `MCConversations` | `ConversationsProofs` |
| `Call` | `call/*`, the overlay of `CallScreen.tsx` | `MCCall` | `CallProofs` |
| `Sending` | `sendText`, `ensureSession`, `devicesForPeer`, `maintainPreKeys`, acks and statuses of `client.ts`; `packages/crypto`; the crypto providers | `MCSending` | `ClientProofs` |
| `Tokens` | the tokens and calls of `discovery.ts` | `MCMedia`, through `Media` | `ClientProofs` |
| `Media` | `media/*` of client and app, over the client of `Tokens` | `MCMedia` | `ClientProofs` |
| `MediaPromise` | what attachments promise: the abstract specification | `MCMedia`, as the property `KeepsPromise` | `ClientProofs` |
| `Typing` | the composer of `ChatScreen.tsx`, `store/typing.ts` | `MCPresence` | `PresenceProofs` |
| `Statuses` | `store/statuses.ts`, `status/post.ts`, the Updates tab | `MCPresence` | `PresenceProofs` |
| `Reports` | `scam/reports.ts` over the native log of `scam/reporter.ts` | `MCPresence` | `PresenceProofs` |
| `Screens` | `App.tsx` and every screen's handlers | `MCScreens` | `ScreensProofs` |

`Media` extends `Tokens`: attachments and all other calls share one directory client, its
refresh in flight included. The other modules are separate: what one needs of another
is a free choice of the environment
(the relay's devices may connect, drop and send receipts at any time; the session's
relay may accept, refuse or close; the store's client may deliver any message and any
status of an acknowledged one; call, typing and status signals may be lost and may
overtake each other). That is weaker than the composition and so sound for every
property here.

Definitions whose name begins with a mapped action's name and whose comment says
"Mutant of" are the deliberate faults `PROJECT.json` uses; no specification uses them.

### Relay

A connection is a record of seven functions over `Conns`. `pc[c]` is where the
connection's handler goroutine is: `flushing` (the loop of `register` after the unlock),
`reading`, `sending` (a target has been found under the lock, the lock is free, the
message is not sent yet), `acking`, `unwinding`, `closing` and `closed` (the deferred
`unregister`, then `close(out)`). One locked section is one action (`Register`, `Route`,
`Receipt`, `Unregister`), one channel send is one action (`Flush`, `SendTarget`,
`SendAck`), and the writer is `WriteOK`, `WriteLost`, `WriteDone`. `Client.send` is
`Offer`: it drops on a full channel. A send on a channel that has been closed panics;
`net/http` recovers the goroutine, so `SendPanics` goes to `unwinding`. A connection
object that is closed and has no writer is garbage and may be taken for a new one, but
not while some handler still holds it as its target.

Queues are sets of envelopes, ordered by id. `disk` is the file; `lag` remembers whether
it is behind (`"behind"`) and whether the relay restarted from such a file
(`"rewound"`). Properties about restarts exclude only the latter.

### Discovery

The token check is `Authorize` and leaves a request in `reqs`; the operation takes it
from there, possibly after a revocation, a deletion, an expiry or a restart. The
link-token handler has two locked sections and is two steps. A phone hash is the pair of
salt and number. Tokens are represented by the latest expiry a user holds, of each kind:
the clock does not go back, so earlier tokens admit nothing more. Every mutating
operation ends in `Persist`, which may fail when `DiskFaults`; a restart may find the
file unreadable, which in the code gives an empty store and a new salt.

### Session

JavaScript runs to the next await that waits for the outside; each such run is an
action. `call[c]` is one invocation of `connectRelay` and what it waits for: the token
refresh (all callers share one promise, so `RefreshOK` and `RefreshFails` resume all of
them) or a socket. `sock[k]` is a WebSocket's life; `relay` is the one the client calls
its own, which need not be the one whose event arrives.

`push` is `initPush`: its set-up runs (`"asking"`, until `SetUpPush`), its wake
subscription is there (`"on"`), or the sign-out came while it ran (`"abandoned"`) and the
subscription stays for good (`"stuck"`); `Wake` is possible on every screen while it is
subscribed and the client still has a user id. A sign-out keeps the user id and the
tokens in memory, so a call that waits for the refresh, or that a wake makes before the
clean-up has run, opens a socket afterwards and clears `intentionalClose`. Two variables
remember what the code does not: `signedOut`, that nobody has signed in since, and
`former`, that `relay` was opened in that time.

### Conversations

`convs` maps a thread (a user or a group id) to its messages, its badge and whether it
is a group. A message carries its `id` (the code's `m<counter>`) and a `uid` that stands
for what really tells messages apart, so that a clash of ids can be stated. `read` is
what the load at the start has read; between `Start` and `Hydrate` anything may happen.
`disk` is the saved blob, from which previews and download states are missing
(`Persisted`), and `behind` says that a save was lost or the file could not be read.
`jobs` are transfers under way: they name their message by thread and id, as `patch`
does; of two jobs of one kind for one message only one is kept, as they would patch the
same fields. `raced` is set where the code gives no protection against equal ids: a message
made before the history was there, or a transfer under way at a sign-out.
Phone number and identity key of a thread are not modelled, nor is the order of the
list.

### Call

`m[u]` is the `CallManager` of a user with its `callStore`, one record; the pieces of
the manager (`Finish`, `NewPeerConnection`, `AddLog`) are functions of that record and the
actions combine them. A task is `start`, `accept` or the accept branch of `onSignal`,
suspended at one of its awaits; every await may settle or reject (`TaskFails`). A task
reads the fields of the manager when it goes on, not when it began, as `this.pc` and
`this.callId` do; `own` says whether the peer connection it awaits is still the
manager's. `stray` stands for earlier peer connections whose events still arrive.
`timers` counts the resets `finish` has armed; the code never cancels one.

### Sending

One client, an account with several devices, the directory's pools. `send[r]` is the
`sendText` call of a message: which await it is at, the device, the devices to do.
Keys and sessions are named by what tells them apart (the mint call, the call that
established), so that a session that replaced another, or a key minted twice under one id,
can be seen. A bundle may lack a one-time prekey: the TypeScript provider then goes on
without (`Establish`), the native one throws (`EstablishThrows`). `Readable` is libsignal's rule: the device has the session, or the envelope
carries a handshake whose one-time prekey the device still has.

### Tokens, Media, MediaPromise

A call of the directory client is idle, sent with the bearer token of that moment, or
waiting for the refresh all callers share. The four kinds differ in what they do with a
401. An attachment is picked, encrypted under its own key, presigned, put, referred to
in a message, and comes back the other way; `Corrupt` lets the object store replace any
object by any other or by nothing. `crossed` remembers that an account was onboarded
while a refresh of another was in flight (`"sent"`), and that this refresh was answered
with tokens (`"done"`): the code has no guard there and the answer overwrites the new
tokens (`discovery.ts:90`; `MCMedia_crossed.cfg`). Until that answer, and when it never
comes or is a failure, `OwnToken` holds.

`MediaPromise` has two steps: a sender picks bytes, a recipient is shown those bytes.
`Promise == INSTANCE MediaPromise WITH ...` maps its variables to those of `Media`; all
the rest (keys, digests, URLs, tokens, the object store) are its implementation.

### Typing, Statuses, Reports

Time is counted down in periods of the sweep. `snapshots` is the cached list the screen
renders, `byConv` the entries with their expiry: the code keeps both and has to
invalidate the one when the other changes. A status has one expiry in all copies; the
Updates tab memoises the list until the store emits. In `Reports`, `op[k]` is an
operation that waits for the first load; what it read replaces the log when it goes on,
whatever that has become by then. `early` marks an operation that began before any load
was back, and `Held` are the reports recorded: in the log, or with who has flushed them.

### Screens

`screen` and `userId` are the state of `App`, `ui` the local state of the one mounted
screen, `job[k]` a suspended handler. Leaving a screen unmounts it: `SetScreen` gives the
next one a `Fresh` state and takes `live` from the handlers of the old, whose `setState` calls
then do nothing while their calls to `App` and the stores still work. `late` is set when
a `handleFind` that is no longer live opens a chat.

## 3. What the runs check

| Run | Result | What it shows |
|---|---|---|
| `relay_core` | pass | With reconnects, drops, receipts, pushes and restarts at every step: `NoStranded`, `DeliveredOnce`, `Addressed`, `OwnTeardown`. |
| `relay_faults` | pass | Failing saves and loads, a queue at its cap and TTL: `IdsUnique`, `CrashKeepsQueue`, `QueueKeepsNewest`; and the liveness property `DeadSocketLeaves`. |
| `relay_flush` | violation of `FlushSendsAll` | `register` puts the whole queue on a channel of 64 before the writer starts: the rest is dropped, and is no longer queued. A disagreement between the code and its comment; the finding in `PROJECT.json` quotes it. |
| `discovery_core` | pass | `NoOrphan`, `OtkOnce`, `RevokedDies`, `GoneForGood` with two requests in flight, failing saves and restarts. |
| `session_core` | pass | Only a failed refresh ends the attempts of a wanted session (`OnlyRefreshGivesUp`); what a sign-out or a deletion has closed is reopened only by a call of `connectRelay` that outlives it, never by a timer or a late event (`OnlyCallsReopen`); liveness `RetryOpensSocket`. |
| `conversations_core` | pass | `NoCopies`, `TicksOnlyRise`, `NoneVanish` with messages before, during and after the load: the merge loses none of memory and none of the file. |
| `conversations_media` | pass | `SaveDue`, `LoadingHasJob`, `PatchesOwn` with transfers that end late or fail. |
| `call_core` | pass | Two managers, signals lost and reordered, every await a place where the rest may happen: a ringing screen can be answered (`RingAnswerable`), candidates that came early are handed over (`NoStrandedIce`), a ring takes over no call (`NotHijacked`). |
| `sending_core` | pass | Overlapping sends, prekey upkeep, linked and relinked devices, relaunch, a new onboarding: every envelope can be read (`Decryptable`), a delivered tick is the primary device's (`DeliveredTrue`). |
| `media_core` | pass | The attachments implement `MediaPromise` (`KeepsPromise`) over an object store that does what it likes; `OwnToken`; liveness `CallsEnd`. |
| `presence_core` | pass | `ShownIsLive`, `NotRevived`; a recorded report is lost only with the process before a save, or to the load of an operation that began before the log was there (`OnlyEarlyLoadWipes`); liveness `IndicatorLapses`. |
| `screens_core` | pass | `SpinnerHasHandler`; and that a late `handleFind` is the only way to a blank screen, a chat without an account or a draft under another name (`OnlyLateFindMisleads`). |

Where `TypeOK` is among a run's properties it says more than types: a handler between
unlock and send has a target, no code outlives its guesses, a reset that fires was armed.

Eleven further configurations end in a counterexample TLC finds within seconds. They are
not among the runs of `PROJECT.json`; each shows code that does not do what a comment of
its own says.

| Configuration | Violates | The counterexample |
|---|---|---|
| `MCDiscovery_number` | `DeletedResolvesToNobody` | A number that onboarded twice has two accounts; deleting one leaves the other findable (`store.go:449` says "the number resolves to nobody"). |
| `MCSession_retry` | `KeepsTrying` | A reconnect whose token refresh fails is the last one (`client.ts:309` "a bad attempt just retries"). |
| `MCSession_pill` | `ConnectedMeansRelay` | The late close event of an old socket disowns the new one (`client.ts:53` "Live relay socket state"). |
| `MCSession_heard` | `EveryMessageHeard` | Messages flushed on opening arrive before the store subscribes (`conversations.ts:8`). |
| `MCSession_signout` | `SocketIsOurs` | A call that outlives the sign-out opens a socket as the account that left; the onboarding that follows in the same process finds it and returns (`client.ts:211` "Open (or reuse) the relay socket under our onboarded identity"). |
| `MCConversations_read` | `ReceiptSent` | A thread opened while offline marks its messages as receipted; no receipt is ever sent (`conversations.ts:450` "retried next open"). |
| `MCCall_busy` | `InACall` | A call hung up while `start` or `accept` awaits the permission or media leaves a peer connection without a call: every later ring is declined and `start` returns at once (`manager.ts:49` "already in a call"). |
| `MCCall_ring` | `RingShown` | The reset timer of an ended call hides the overlay of a ring that came within its 1.2 s: the offer is stashed and there is no overlay to accept or decline it (`store.ts:13` "ringing, awaiting our accept/decline"). |
| `MCMedia_crossed` | `TokenIsKept` | The answer to a refresh of the account before overwrites the tokens of the one onboarded meanwhile (`discovery.ts:100` "verify the OTP and keep the returned bearer token"). |
| `MCPresence_reports` | `ReportStays` | Two first operations load the log; the later load wipes what the first one recorded (`reports.ts:36` "Collects false-positive reports and hands them off in batches"). |
| `MCSending_session` | `SessionExists` | After a new onboarding in the same process the client still takes devices of the old one for known (`client.ts:509` "The session already exists"): `encrypt` has no session for them. |

Other behaviour met on the way and visible in the models, without a run of its own:

- A send to a connection that is being torn down panics in the *sender's* handler
  (`hub.go:215`, `client.go:56`): the sender is disconnected (`SendPanics`).
- A second socket opened while an earlier one still opens leaves the first without an
  owner; its close event still schedules a reconnect.
- `confirmOtp` verifies and then connects: when connecting fails, the account is not
  saved and the code is spent. `App.tsx:79-80` shows the welcome screen whenever resuming
  fails, also when an identity is saved. A rotated refresh token is not saved again.
- `hydrate` restores a thread without `group` and identity key (`conversations.ts:177`):
  after a restart a group is a direct chat with the group's id, until the next group
  message. `sendMedia` does not look at `group` at all, so an attachment to a group is
  sent to the group's id.
- A message received before `hydrate` ends may take the id of a stored one, and a
  download that spans a sign-out may patch another account's message: `raced`.
- A delivered status that overtakes its ack is dropped: the tick stays at sent.
- Calls: a second `start` during the permission dialog leaks the first peer connection; media
  that arrive after `finish` leave the microphone live; nothing ends a ring that is never
  answered.
- `findContact` that answers late opens a chat from any screen, also after a sign-out,
  when `App` renders the chat, whose Back leads to a home screen that is not rendered
  (`App.tsx:181`).
- Statuses: `prune` has no caller, so an expired status stays in the list while the tab
  is open. Statuses, the call log and threads made by a late lookup are not cleared at
  sign-out or deletion, although the alert says "erases everything on this device"
  (`SettingsScreen.tsx:119`).
- Scam reports: a load that fails is an empty log, which the next save writes. A batch taken by `flush` is lost with the process.
- `LinkedDevicesScreen`: overlapping loads may show the older list. `App.tsx:92`: the
  cleanup of `initPush` is lost when it resolves after the sign-out (`push = "stuck"`). A process that dies
  between the server's deletion and the local wipe resumes a deleted account; a native
  reset that fails leaves the saved account in place, and nobody is told.

### Bounds, and why they are enough

- **Relay.** Two devices, one writing to the other. `relay_core` has three connection
  objects, a channel of one, two sends and receipts: enough for an old connection, its
  successor and the sender's, each in any state of teardown, which is the most that one
  step of the code can involve, and for a channel that is full. `relay_faults` has two
  connections, channels of two and a queue cap of one, so that two sends reach the cap
  and the TTL. Connection objects are interchangeable (symmetry in `relay_core`;
  `relay_faults` has none, because it checks liveness).
- **Discovery.** Two users, one number, two salts, one link code: two users suffice for
  primary and linked device, and for a request racing another's; `discovery_number` has
  three. TTLs of 0 to 2 ticks put every expiry both before and after the operation that
  it guards. Users and salts are interchangeable.
- **Session.** Two overlapping calls and three sockets: a call, the call that overtakes
  it, and a socket left over from before a sign-out.
- **Conversations.** One peer, one group, two messages, two sign-outs or deaths of the
  process (`core`), or two pictures, one transfer at a time, one tap and one sign-out or
  death (`media`). Ids clash between two messages; a merge needs one on either side.
  Deadlock is not checked: an app whose peers and user do nothing more waits for ever.

- **Call.** Two users, two call ids, one suspended function and at most two signals under
  way: enough for glare, for a second call that meets the events of the first, and for a
  signal at every await. Two suspended functions of one manager exceed TLC's reach at
  these sizes. States that differ only in the call log, which nothing reads, are explored
  once (`VIEW`). Users and call ids are interchangeable.
- **Sending.** Two devices, two messages, two upkeep calls, one relaunch or onboarding;
  `OneAtATime` allows a second message, a second device or a second upkeep call, not two
  of them together. Water marks of one make every fetch empty the pool.
- **Media.** Two accounts, two calls, three tokens, two attachments, two plaintexts.
  `Focus` gives the token machinery its full size while no attachment is under way, and
  attachments one more call or each other. It cuts behaviours off and adds none, so liveness is
  shown for the behaviours inside it.
- **Presence.** Two senders, a group and 1:1 chats, TTL 3, throttle 1, idle 2 (the code's
  6, 3 and 4 in the same order); two users and two statuses; two reports and two
  operations. The three stores share nothing, so `OneStore` explores them one at a time;
  within the typing store it has one sender in two threads with two signals under way, or
  two in the group.
- **Screens.** Two handlers suspended at once, two accounts, two peers, a group, two
  devices: a handler of an earlier visit beside one of the present visit, and an account
  beside its successor.

Deadlock is not checked in the app's models, which wait for a user and for peers whose
inputs are bounded.

### Fairness

- Relay: weak fairness of each connection's handler and of its writer. That is Go's
  scheduler, which runs a goroutine that is not blocked. Nothing is assumed of devices,
  network, clock or disk.
- Session: weak fairness of the refresh and of each opening socket (both end, well or
  badly, by the platform's timeouts), and strong fairness of the timer: a timer that is
  set fires, but with two modelled calls the slot for it may come and go, which is a
  bound of the model and not of the code.
- Tokens: weak fairness of the answer to each request and of the refresh: `fetch` settles,
  well or badly. `Lost` and `RefreshFails` are among the answers, so nothing is assumed of
  the server.
- Typing: time passes, and the sweep and the idle timer fire when they are due. Nothing
  is assumed of senders and signals.
- The other modules state no liveness.

## 4. What is proved

The proofs hold for every value of the constants that satisfies the modules'
assumptions. These say that limits are natural numbers, that special values such as `None`,
`NoConv` and `NoBlob` are not real ones, that users and groups have different names, that
capacities, attempts and times to live are positive, and that `LowWater <= Target`
(`client.ts:66` has 20 and 50). Each is an `ASSUME` of the module that
declares the constants, and TLC evaluates it on every run.

**`RelayProofs`**

- `TypeCorrect`: `[]TypeOK`, action by action.
- `NothingStranded`: `[]NoStranded`; inductive with `TypeOK`, because `Register` empties
  the queue and `Route` reads `conns` in one step each.
- `RightDevice`: `[]Addressed`. The property speaks of channels only, but what is put on
  one was found earlier: `AddressInv` adds that registered connections, stored
  envelopes, pending flushes, jobs and owed receipts are all of the right device. The
  essential case is `Register`, which may reuse a connection object: no job may still
  hold it.
- `IdentityUnique`: `[]IdsUnique`. `IdInv` says that every envelope anywhere (`Placed`)
  has an id of at most `nextID`, that the file's counter is current whenever the file is,
  and that equal ids mean equal envelopes. `PlacedStep` shows that no step but `Route`
  makes an envelope; `RoutePlaces` that `Route` makes exactly the one with the next id.

**`DiscoveryProofs`**

- `TypeCorrect`: `[]TypeOK`, including that no code outlives its guesses and no rate
  window exceeds its budget.
- `NobodyOrphaned`: `[]NoOrphan`. `GroupInv` says it of the accounts in memory and in
  the file at once (a restart swaps one for the other), that the ids in use have been
  issued, and that link codes, and link-token requests between their two locked sections,
  name a verified primary or one that is gone (`Primary`).
- `AccessEnds`: `[]RevokedDies`. `AccessInv` adds that no access token expires later
  than `AccessTTL` from now.
- `SaltStaysCurrent` and `GoneStaysGone`: `[]SaltCurrent` and `GoneForGood`, from
  `FileInv`: the accounts in memory are hashed with the salt in memory, those of the
  file with the salt of the file, a file that was never written holds none, and the file
  has the accounts of the store whenever it is in sync.
- `KeysHandedOnce`: `[]OtkOnce`. `PoolInv` says that all pools together hold each key at
  most once, only keys that were minted and none that was handed out; with `FileInv` it
  holds of the file whenever the file is in sync, and so after a restart.

**`ClientProofs`** (attachments and tokens, then the send path of `Sending`)

- `TypeCorrect`: `[]TypeOK` of attachments and directory client together.
- `TokenIsOwn`: `[]OwnToken`. The property speaks of the token in use; `AllOwn` adds that
  the refresh token is the user's too, and that the refresh in flight is, or is known to
  be another's (`crossed = "sent"`), because a refresh answered later becomes the token.
- `ImplementsPromise`: `Spec => KeepsPromise`, the refinement. The inductive invariant
  `MInv` is `TypeOK` with `Backed`: what is uploaded was picked, every reference in a
  message carries the digest of the bytes that were picked, and what is downloaded has a
  reference. `DecryptsToDigest` says that
  what passes the check has the digest of the reference, so the step that shows it is
  `Show` of the abstract specification; `PromiseStep` maps every other step to `Pick` or
  to a stutter.
- `TicksAreTrue`: `[]DeliveredTrue` of `Sending`. `TickInv` follows the receipt back: a
  delivered status under way names a message that has reached the primary device, and an
  envelope that is tracked is addressed to it.
- `SentIsReadable`: `[]Decryptable`. The property is about the envelope that arrives
  next; the argument is about where a one-time prekey is. `KeysOnce`: a key is in one
  place only (the directory's pool, an upload, a bundle a call has fetched, one session).
  `KeysHeld`: the device has the private half until the first message of that session is
  there. `KeysOld`: no id is above the device's high mark, so that no mint overwrites a
  key. `Confirmed`: an envelope without the handshake is of a session its device has. `SendingTyped`
  gives the types. It needs `LowWater <= Target`, which the code's constants satisfy.

**`ConversationsProofs`**

Every step is one of four shapes (`StepShape`): the history's own steps, an edit of
messages in place (`EditStep`), the addition of one message (`GrowStep`), a stutter. The
lemmas on sequences say what each does to uids, ids and ticks, and each property is shown
once per shape.

- `ConversationsTyped` and `NeverTwice`: `[]TypeOK` and `[]NoCopies`. `ConvInv` says that in
  the store, in the file and in what the load has read no uid is there twice and ids are
  below the counter kept beside them (`Numbered`), and that until the merge the history's
  messages are others than those in memory (`HistoryApart`): this is what makes the
  concatenation of `Hydrate` free of copies.
- `TransfersEndAtHome`: `[]PatchesOwn`. Unless `raced`, ids are distinct too, and whatever
  is in a thread under the id of a job is the job's message (`Owns`).
- `NothingVanishes` and `TicksRise`: the action properties `NoneVanish` and
  `TicksOnlyRise`. `StepCarries`: every step of a living process but the sign-out carries
  each message over, with its tick or a higher one; since no uid is there twice,
  that message is the one the property compares with. `StepMerges`: what the load has
  read stays to be merged until `Hydrate` puts it before what is in memory, or the load
  fails.
- `EveryChangeIsSaved`: `[]SaveDue`. `DueInv` says it also of a load that found no file;
  `StepArms` is the fact that matters: every step outside the history that changes
  what a save writes arms the timer.
- `LoadingIsUnderWay`: `[]LoadingHasJob`. `LoadInv` adds that no file holds a message that
  is loading, because a merged one would have no download. When a download ends, its
  message is the only one with its id (`ConvInv`), so none is left waiting for it.

**`CallProofs`**

- `CallTyped`, `RingStaysAnswerable`, `IceHandedOver`: `[]TypeOK`, `[]RingAnswerable`,
  `[]NoStrandedIce`, from `CallInv`: besides the type, every manager that shows a ring has
  the offer and the call it belongs to (`Answerable`, `Named`), and a manager whose peer
  connection has its remote description has no candidates stashed (`Handed`). A task that goes
  on after an await reads the manager as it is by then, so each is a fact of the manager
  alone, whatever the tasks are.
- `RingNeverHijacks`: the action property `NotHijacked`: a step that gives a manager with a
  call another call id is the user's own outgoing call (`Owned`).

**`SessionProofs`**

- `StopsOnlyByRefresh`: the action property `OnlyRefreshGivesUp`. `SessionInv` says that
  a timer is set only for a wanted session (`TimerIsWanted`), that the relay the client
  calls its own is a socket in use, and that a wanted session with a fresh token has a
  timer or a socket (`FreshTries`), so that what stops trying had no fresh token.
- `ReopenedOnlyByCalls`: the action property `OnlyCallsReopen`. `SigningInv` says where a
  launch or a sign-in can be under way: never after a sign-out and before the next
  sign-in. What opens a socket in between is then a call that had waited, a timer (which a
  closed session has none of) or a wake, and the push tells when that one is possible.

**`PresenceProofs`** (the specifications `TypingSpec`, `StatusesSpec`, `ReportsSpec`)

- `IndicatorIsLive`: `[]ShownIsLive`; `TypingInv` adds that entries have a sweep
  (`EntriesSwept`).
- `ExpiredStaysGone`: the action property `NotRevived`, from the types.
- `OnlyEarlyLoads`: the action property `OnlyEarlyLoadWipes`, operation by operation.
  `ReportInv` says that every operation that waits is an early one: once the log is there
  none asks for it again.

**`ScreensProofs`**

- `SpinnersEnd`: `[]SpinnerHasHandler`; `OnlyLateFind`: `[]OnlyLateFindMisleads`. In
  `ScreensInv`, `Spin` ties each spinner of the mounted screen to a suspended handler that is
  of this visit (`live`), and `Honest` says that, but for a late lookup, there is no screen
  behind the sign-in without an account and no draft of another chat. A handler
  either stays on its screen (`Stays`) or moves to another (`Moved`), which unmounts the
  old one and makes its handlers strangers.

**Further results of `RelayProofs`**

- `DeliveredAtMostOnce`: `[]DeliveredOnce`. An envelope is in the queue, in a pending
  flush, held by a handler, on a channel or delivered (`Place`); `Single` says that it is in at
  most one of these, once. Every action moves it from one place to another (`Moves`) or adds
  a new one (`Adds`). `OnceInv` is `Single` unless the relay restarted from an old file.
- `FileAgrees`: `[]CrashKeepsQueue`, and `NewestKept`: the action property
  `QueueKeepsNewest`, from `QueueInv`: the queues of the hub and of the file are within
  the cap, and their entries are ordered alike by id and by time.
- `TeardownIsOwn`: the action property `OwnTeardown`.

**Only model-checked.** Liveness, as fairness and `ENABLED` are outside the prover's
reach: `DeadSocketLeaves`, `RetryOpensSocket`, `CallsEnd`, `IndicatorLapses`. Every safety
property of a passing run is proved. `SaltCurrent` is proved and not among the runs'
properties.

## 5. What is abstracted

Ciphertext, names, texts, MIME types and formats; HTTP status codes; logging. HMAC,
hashing and encryption are assumed to work. Token and origin checks at the relay's
upgrade are the devices' right to connect. Registration of push tokens is modelled; the
request to FCM is an outcome nobody reads.

## 6. What is not modelled, and why

- The media service: presigning is stateless, and its answers are steps of `Media`.
- The SMS gateway (one request whose outcome is logged) and FCM (I/O whose outcome nobody
  reads).
- The Signal protocol, which is libsignal's, and WebRTC, which is the platform's.
- Scam detector, safety number, phone normalisation: pure functions on text, whose content is
  a table of patterns, a digest and a digit filter. Nothing about their state can go wrong.
- Rendering and layout. The handlers and the local state they come back to are modelled.
- The programs under `packages/crypto/spike`: demonstrations of the library, not part of
  the system.

## 7. Running

    tlc -workers 2 -config MCRelay_core.cfg MCRelay
    tlapm RelayProofs.tla

## 8. Plan

1. An abstract mailbox (each envelope is sent, then delivered at most once or lost) and
   `Relay` shown to implement it, from `Single` and `AddressInv`.
2. The composition of `Relay`'s channels with the client's ref maps, which `Sending`
   takes as an unordered network.
3. What `raced` leaves open: two ids that clash. A sharper property would say which
   message a transfer patches then.
