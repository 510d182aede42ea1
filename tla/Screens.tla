------------------------------ MODULE Screens ------------------------------
(***************************************************************************)
(* The screens of the app: App.tsx, which holds the one screen shown and   *)
(* the account, and the components it mounts.                              *)
(*                                                                         *)
(* A handler that awaits an answer goes on when it comes, wherever the     *)
(* user is by then: React drops the state it sets on a component that is   *)
(* gone, but the callbacks of App (onOpenChat, onOnboarded, onSignedOut)   *)
(* and the stores it calls still work.  ui is the state of the mounted     *)
(* component; a job is a suspended handler, live while the component that  *)
(* started it is mounted.                                                  *)
(*                                                                         *)
(* Left out: texts and layout; what the chat and the call buttons do in    *)
(* the stores (Conversations, Typing, Call, Statuses); the own number,     *)
(* which only filters a scan.                                              *)
(***************************************************************************)
EXTENDS FiniteSets

CONSTANTS
    Accounts,  \* bound: the ids that Discovery gives to registrations
    Peers,
    Groups,    \* bound: the group ids the store makes
    Devices,   \* the linked devices of the account
    Slots,     \* bound: handlers suspended at a time
    None

ASSUME ScreensAssumption ==
    /\ None \notin Accounts \union Peers \union Groups \union Devices
    /\ \A listed \in SUBSET Devices : listed # None

VARIABLES
    screen,   \* App: the screen and, for chat and safety, whose
    userId,   \* App: the account that is signed in
    ui,       \* the local state of the mounted screen
    alert,    \* the question of the open Alert: it outlives its screen
    job,      \* slot -> the suspended handler
    threads,  \* the threads of the conversation store
    saved,    \* the account in the native store
    pending,  \* HwfaClient.pendingUserId
    used,     \* the ids given to registrations so far
    late      \* a lookup has opened a chat after its screen was left

vars == <<screen, userId, ui, alert, job, threads, saved, pending, used, late>>

Names == {"splash", "welcome", "onboarding", "home", "contacts", "settings", "starred",
          "newgroup", "linkdevice", "devices", "safety", "chat"}

\* The screens App renders only with a userId.
Guarded == {"home", "newgroup", "settings", "linkdevice", "devices", "starred", "contacts"}

Rendered(n) == screen.name = n /\ (n \in Guarded => userId # None)
Blank == ~\E n \in Names : Rendered(n)

\* The state of a component that has just been mounted; listed and matches are
\* null until there is an answer, draft names the thread it was typed in.
Fresh == [phase |-> "phone", tab |-> "chats", menu |-> FALSE, busy |-> FALSE,
          scanning |-> FALSE, error |-> FALSE, matches |-> {}, selected |-> {},
          listed |-> None, busyId |-> None, code |-> FALSE, number |-> FALSE,
          draft |-> None]

Idle == [does |-> "nothing", at |-> "nowhere", arg |-> None, live |-> FALSE]
Job(does, arg) == [does |-> does, at |-> "call", arg |-> arg, live |-> TRUE]
Ended(k) == [job EXCEPT ![k] = Idle]

\* The handler in slot k goes on to its next await.
Onward(k, at, arg) ==
    job' = [job EXCEPT ![k] = [does |-> job[k].does, at |-> at, arg |-> arg, live |-> job[k].live]]

Init ==
    /\ screen = [name |-> "splash", peer |-> None] /\ userId = None /\ ui = Fresh
    /\ alert = None /\ threads = {} /\ saved = None /\ pending = None /\ used = {}
    /\ late = FALSE
    /\ \E k \in Slots : job = [j \in Slots |-> IF j = k THEN Job("launch", None) ELSE Idle]

-----------------------------------------------------------------------------
\* The effect that runs when a screen is mounted and awaits an answer.
OnMount(n) ==
    CASE n = "linkdevice" -> "generate"
      [] n = "devices" -> "load"
      [] n = "safety" -> "number"
      [] OTHER -> "nothing"

\* setScreen, with the handlers js suspended.  Another component is unmounted;
\* the same one only gets another peer and keeps its state.
SetScreen(n, p, js) ==
    LET left == [k \in Slots |-> [js[k] EXCEPT !.live = FALSE]]
        does == OnMount(n)
    IN  /\ screen' = [name |-> n, peer |-> p]
        /\ IF n = screen.name THEN ui' = ui /\ job' = js
           ELSE IF does = "nothing" THEN ui' = Fresh /\ job' = left
           ELSE \E k \in Slots :
                    /\ left[k] = Idle /\ job' = [left EXCEPT ![k] = Job(does, None)]
                    /\ ui' = [Fresh EXCEPT !.busy = (does = "generate")]

\* A tap on the screen n; an Alert is modal.
At(n) == Rendered(n) /\ alert = None

\* A handler of the mounted screen runs up to its await.
Begin(does, arg, new) ==
    /\ \E k \in Slots : job[k] = Idle /\ job' = [job EXCEPT ![k] = Job(does, arg)]
    /\ ui' = [new EXCEPT !.error = FALSE]
    /\ UNCHANGED <<screen, userId, alert, threads, saved, pending, used, late>>

\* A tap that only moves to another screen.
Goto(n, p) ==
    /\ SetScreen(n, p, job)
    /\ UNCHANGED <<userId, alert, threads, saved, pending, used, late>>

\* A tap that only changes the state of the screen.
Show(new) ==
    /\ ui' = new
    /\ UNCHANGED <<screen, userId, alert, job, threads, saved, pending, used, late>>

\* The handler in slot k ends: what it sets is seen if its screen is mounted.
End(k, new) ==
    /\ ui' = IF job[k].live THEN new ELSE ui
    /\ job' = Ended(k)
    /\ UNCHANGED <<screen, userId, alert, threads, saved, late>>

Is(k, does) == job[k].does = does /\ job[k].at = "call"
Failed == [ui EXCEPT !.busy = FALSE, !.error = TRUE]

-----------------------------------------------------------------------------
(* Launch: the splash waits for tryResume. *)

\* Nothing saved, or the connection failed: both end at the welcome screen.
Launched(k) ==
    /\ Is(k, "launch")
    /\ \/ userId' = userId /\ SetScreen("welcome", None, Ended(k))
       \/ saved # None /\ userId' = saved /\ SetScreen("home", None, Ended(k))
    /\ UNCHANGED <<alert, threads, saved, pending, used, late>>

\* The process is killed and started again; of the threads, the saved ones are
\* back.
Restart ==
    /\ screen' = [name |-> "splash", peer |-> None] /\ userId' = None /\ ui' = Fresh
    /\ alert' = None /\ pending' = None /\ late' = FALSE
    /\ threads' \in SUBSET threads
    /\ \E k \in Slots : job' = [j \in Slots |-> IF j = k THEN Job("launch", None) ELSE Idle]
    /\ UNCHANGED <<saved, used>>

-----------------------------------------------------------------------------
(* Onboarding. *)

Agree == At("welcome") /\ Goto("onboarding", None)

Free(phase) == At("onboarding") /\ ui.phase = phase /\ ~ui.busy

HandleRequestCode == Free("phone") /\ Begin("request", None, [ui EXCEPT !.busy = TRUE])

\* requestOtp: a new id is registered; the code of the dev mode is left out.
RequestBack(k) ==
    /\ Is(k, "request")
    /\ \/ End(k, Failed) /\ UNCHANGED <<pending, used>>
       \/ \E a \in Accounts \ used :
              /\ pending' = a /\ used' = used \union {a}
              /\ End(k, [ui EXCEPT !.busy = FALSE, !.phase = "code"])

HandleVerify == Free("code") /\ Begin("verify", None, [ui EXCEPT !.busy = TRUE])

HandleEditNumber == Free("code") /\ Show([ui EXCEPT !.phase = "phone", !.error = FALSE])

\* "Link to an existing account", and back.
SwitchPhase ==
    \/ Free("phone") /\ Show([ui EXCEPT !.phase = "link", !.error = FALSE])
    \/ Free("link") /\ Show([ui EXCEPT !.phase = "phone", !.error = FALSE])

HandleLink == Free("link") /\ Begin("link", None, [ui EXCEPT !.busy = TRUE])

\* The handler goes on to saveAccount.
Saving(k, a) == Onward(k, "save", a)

\* confirmOtp.  The code is wrong or the request lost; or it was verified, and the
\* connection failed: a second try finds no pending id.
VerifyBack(k) ==
    /\ Is(k, "verify")
    /\ \/ End(k, Failed) /\ UNCHANGED <<pending, used>>
       \/ pending # None /\ pending' = None /\ End(k, Failed) /\ UNCHANGED used
       \/ /\ pending # None /\ Saving(k, pending) /\ pending' = None
          /\ UNCHANGED <<screen, userId, ui, alert, threads, saved, used, late>>

\* linkWithCode: an id of this device under the account that made the code.
LinkBack(k) ==
    /\ Is(k, "link")
    /\ \/ End(k, Failed) /\ UNCHANGED <<pending, used>>
       \/ \E a \in Accounts \ used :
              /\ used' = used \union {a} /\ Saving(k, a)
              /\ UNCHANGED <<screen, userId, ui, alert, threads, saved, pending, late>>

\* saveAccount answers.  The native module acts and answers in order, so a save
\* and its answer are one step against a reset and its own.
Saved(k) ==
    /\ job[k].at = "save"
    /\ \/ End(k, Failed) /\ UNCHANGED <<pending, used>>
       \/ /\ saved' = job[k].arg /\ userId' = job[k].arg
          /\ SetScreen("home", None, Ended(k))
          /\ UNCHANGED <<alert, threads, pending, used, late>>

-----------------------------------------------------------------------------
(* Home: four tabs, the floating button and the quick menu, which is modal. *)

AtHome == At("home") /\ ~ui.menu

\* onNewChat: the floating button, the empty list of chats, the card of the
\* discover tab.
NewChat == AtHome /\ Goto("contacts", None)

SelectTab(t) == AtHome /\ Show([ui EXCEPT !.tab = t])

OpenMenu == AtHome /\ Show([ui EXCEPT !.menu = TRUE])

\* An item of the menu, or a tap beside it ("home": the invitation is a share
\* sheet of the system); the menu closes first.
MenuItem(n) ==
    /\ At("home") /\ ui.menu
    /\ IF n = "home" THEN Show([ui EXCEPT !.menu = FALSE]) ELSE Goto(n, None)

\* A row of the chats tab.
OpenThread(t) == AtHome /\ ui.tab = "chats" /\ t \in threads /\ Goto("chat", t)

\* onBack of the screens that return to one place.
Back ==
    \/ \E n \in {"newgroup", "settings", "starred", "contacts", "chat"} :
           At(n) /\ Goto("home", None)
    \/ \E n \in {"linkdevice", "devices"} : At(n) /\ Goto("settings", None)

\* A row of the starred messages; which messages have a star is not told apart.
OpenStarred(t) == At("starred") /\ t \in threads /\ Goto("chat", t)

\* NewGroupScreen: candidates are the threads that are no group.
Toggle(p) ==
    /\ At("newgroup") /\ p \in threads \ Groups
    /\ Show([ui EXCEPT !.selected =
                 IF p \in ui.selected THEN ui.selected \ {p} ELSE ui.selected \union {p}])

Create(g) ==
    /\ At("newgroup") /\ ui.selected # {} /\ g \notin threads
    /\ threads' = threads \union {g}
    /\ SetScreen("chat", g, job)
    /\ UNCHANGED <<userId, alert, saved, pending, used, late>>

-----------------------------------------------------------------------------
(* Contacts. *)

HandleFind == At("contacts") /\ ~ui.busy /\ Begin("find", None, [ui EXCEPT !.busy = TRUE])

\* findContact answers.  A match opens the chat, from whatever screen is shown;
\* this is openChat: ensurePeer, then App's onOpenChat.
FindBack(k) ==
    /\ Is(k, "find")
    /\ \/ End(k, Failed) /\ UNCHANGED <<pending, used>>
       \/ \E p \in Peers :
              /\ threads' = threads \union {p}
              /\ SetScreen("chat", p, Ended(k))
              /\ late' = (late \/ ~job[k].live)
              /\ UNCHANGED <<userId, alert, saved, pending, used>>

HandleScan ==
    /\ At("contacts") /\ ~ui.scanning
    /\ Begin("scan", None, [ui EXCEPT !.scanning = TRUE, !.matches = {}])

Scanned(new) == [ui EXCEPT !.scanning = FALSE, !.matches = new]

\* Mutant of ContactsRead: a return before the finally block.
ContactsReadReturns(k) ==
    /\ Is(k, "scan")
    /\ \/ End(k, ui) /\ UNCHANGED <<pending, used>>
       \/ /\ Onward(k, "intersect", job[k].arg)
          /\ UNCHANGED <<screen, userId, ui, alert, threads, saved, pending, used, late>>

\* The address book is read: nothing to look up, a failure, or on to
\* discoverContacts.
ContactsRead(k) ==
    /\ Is(k, "scan")
    /\ \/ End(k, Scanned({})) /\ UNCHANGED <<pending, used>>
       \/ /\ Onward(k, "intersect", job[k].arg)
          /\ UNCHANGED <<screen, userId, ui, alert, threads, saved, pending, used, late>>

\* discoverContacts answers: the contacts that have an account, or a failure.
ScanBack(k) ==
    /\ job[k].at = "intersect"
    /\ \E found \in SUBSET Peers : End(k, Scanned(found))
    /\ UNCHANGED <<pending, used>>

\* A row of the matches.
OpenMatch(p) ==
    /\ At("contacts") /\ p \in ui.matches
    /\ threads' = threads \union {p}
    /\ SetScreen("chat", p, job)
    /\ UNCHANGED <<userId, alert, saved, pending, used, late>>

-----------------------------------------------------------------------------
(* Chat and safety number. *)

\* The draft names the thread it is typed in.
Type == At("chat") /\ ui.draft = None /\ Show([ui EXCEPT !.draft = screen.peer])

\* Send, or the draft is deleted.  The store makes the thread on the first send.
HandleSend ==
    /\ At("chat") /\ ui.draft # None
    /\ threads' \in {threads, threads \union {screen.peer}}
    /\ ui' = [ui EXCEPT !.draft = None]
    /\ UNCHANGED <<screen, userId, alert, job, saved, pending, used, late>>

\* onVerify: direct chats only.
Verify == At("chat") /\ screen.peer \in Peers /\ Goto("safety", screen.peer)

BackToChat == At("safety") /\ Goto("chat", screen.peer)

\* The effect of SafetyNumberScreen: no key yet, or the number; caching the key on
\* the thread runs the effect again, which cancels nothing that is still to come.
NumberBack(k) ==
    /\ Is(k, "number")
    /\ \/ End(k, [ui EXCEPT !.error = TRUE])
       \/ End(k, [ui EXCEPT !.number = TRUE])
       \/ /\ job[k].live /\ ui' = [ui EXCEPT !.number = TRUE]
          /\ UNCHANGED <<screen, userId, alert, job, threads, saved, late>>
    /\ UNCHANGED <<pending, used>>

\* A message of a peer makes its thread.
Incoming(p) ==
    /\ userId # None /\ threads' = threads \union {p}
    /\ UNCHANGED <<screen, userId, ui, alert, job, saved, pending, used, late>>

-----------------------------------------------------------------------------
(* Settings and devices. *)

OpenSetting(n) == At("settings") /\ Goto(n, None)

\* LinkDeviceScreen.generate, by the button: shown once there is a code.
Generate ==
    At("linkdevice") /\ ui.code /\ ~ui.busy /\ Begin("generate", None, [ui EXCEPT !.busy = TRUE])

GenerateBack(k) ==
    /\ Is(k, "generate")
    /\ \/ End(k, Failed)
       \/ End(k, [ui EXCEPT !.busy = FALSE, !.code = TRUE])
    /\ UNCHANGED <<pending, used>>

\* load, on its own or after a revoke, whose finally ends the spinner of the row.
LoadBack(k) ==
    /\ \/ Is(k, "load")
       \/ job[k].at = "load"
    /\ LET row == IF job[k].does = "revoke" THEN None ELSE ui.busyId
       IN  \/ End(k, [ui EXCEPT !.busyId = row, !.error = TRUE])
           \/ \E ds \in SUBSET Devices : End(k, [ui EXCEPT !.busyId = row, !.listed = ds])
    /\ UNCHANGED <<pending, used>>

\* A tap that asks first.
Ask(n, q) ==
    /\ At(n) /\ alert' = q
    /\ UNCHANGED <<screen, userId, ui, job, threads, saved, pending, used, late>>

ConfirmRevoke(d) ==
    ui.listed # None /\ d \in ui.listed /\ ui.busyId # d /\ Ask("devices", d)

ConfirmSignOut == Ask("settings", "signout")

ConfirmDeleteAccount == Ask("settings", "delete")

Cancel ==
    /\ alert # None /\ alert' = None
    /\ UNCHANGED <<screen, userId, ui, job, threads, saved, pending, used, late>>

\* The Alert is answered: its handler runs whether or not its screen is still there.
Confirmed(does, arg, at) ==
    \E k \in Slots :
        /\ job[k] = Idle /\ alert' = None
        /\ job' = [job EXCEPT ![k] = [does |-> does, at |-> at, arg |-> arg,
                                      live |-> Rendered(IF does = "revoke" THEN "devices"
                                                        ELSE "settings")]]

Revoke(d) ==
    /\ alert = d /\ Confirmed("revoke", d, "call")
    /\ ui' = IF Rendered("devices") THEN [ui EXCEPT !.busyId = d, !.error = FALSE] ELSE ui
    /\ UNCHANGED <<screen, userId, threads, saved, pending, used, late>>

\* removeDevice answers; then the list is loaded again.
RevokeBack(k) ==
    /\ Is(k, "revoke")
    /\ \/ End(k, [ui EXCEPT !.busyId = None, !.error = TRUE]) /\ UNCHANGED <<pending, used>>
       \/ /\ Onward(k, "load", job[k].arg)
          /\ ui' = IF job[k].live THEN [ui EXCEPT !.error = FALSE] ELSE ui
          /\ UNCHANGED <<screen, userId, alert, threads, saved, pending, used, late>>

\* signOut: the socket is closed and the store is empty at once.
SignOut ==
    /\ alert = "signout" /\ Confirmed("leave", None, "wipe") /\ threads' = {}
    /\ UNCHANGED <<screen, userId, ui, saved, pending, used, late>>

DeleteAccount ==
    /\ alert = "delete" /\ Confirmed("delete", None, "call")
    /\ UNCHANGED <<screen, userId, ui, threads, saved, pending, used, late>>

\* The server has purged the account, or everything stays for another try.
DeleteBack(k) ==
    /\ Is(k, "delete")
    /\ \/ End(k, ui) /\ UNCHANGED <<pending, used>>
       \/ /\ Onward(k, "wipe", job[k].arg) /\ threads' = {}
          /\ UNCHANGED <<screen, userId, ui, alert, saved, pending, used, late>>

\* conversationStore.reset is done; the native store is next.
Wiped(k) ==
    /\ job[k].at = "wipe" /\ Onward(k, "native", job[k].arg)
    /\ UNCHANGED <<screen, userId, ui, alert, threads, saved, pending, used, late>>

\* Mutant of SignedOut: onSignedOut leaves the screen to the settings.
SignedOutStays(k) ==
    /\ job[k].at = "native"
    /\ saved' \in {saved, None} /\ userId' = None /\ job' = Ended(k)
    /\ UNCHANGED <<screen, ui, alert, threads, pending, used, late>>

\* The native store is empty, or the reset failed and nobody is told; onSignedOut.
SignedOut(k) ==
    /\ job[k].at = "native"
    /\ saved' \in {saved, None} /\ userId' = None
    /\ SetScreen("welcome", None, Ended(k))
    /\ UNCHANGED <<alert, threads, pending, used, late>>

-----------------------------------------------------------------------------
Next ==
    \/ \E k \in Slots :
           \/ Launched(k) \/ RequestBack(k) \/ VerifyBack(k) \/ LinkBack(k) \/ Saved(k)
           \/ FindBack(k) \/ ContactsRead(k) \/ ScanBack(k) \/ NumberBack(k)
           \/ GenerateBack(k) \/ LoadBack(k) \/ RevokeBack(k) \/ DeleteBack(k)
           \/ Wiped(k) \/ SignedOut(k)
    \/ Restart \/ Agree \/ HandleRequestCode \/ HandleVerify \/ HandleEditNumber
    \/ SwitchPhase \/ HandleLink
    \/ NewChat \/ OpenMenu \/ Back \/ BackToChat
    \/ \E t \in {"chats", "updates", "discover", "calls"} : SelectTab(t)
    \/ \E n \in {"home", "contacts", "newgroup", "starred", "settings"} : MenuItem(n)
    \/ \E t \in Peers \union Groups : OpenThread(t) \/ OpenStarred(t)
    \/ \E p \in Peers : Toggle(p) \/ OpenMatch(p) \/ Incoming(p)
    \/ \E g \in Groups : Create(g)
    \/ HandleFind \/ HandleScan \/ Type \/ HandleSend \/ Verify
    \/ \E n \in {"linkdevice", "devices"} : OpenSetting(n)
    \/ Generate \/ ConfirmSignOut \/ ConfirmDeleteAccount \/ Cancel \/ SignOut \/ DeleteAccount
    \/ \E d \in Devices : ConfirmRevoke(d) \/ Revoke(d)

Spec == Init /\ [][Next]_vars

-----------------------------------------------------------------------------
(* Properties. *)

Live(does) == \E k \in Slots : job[k].does = does /\ job[k].live

\* Whatever shows that something is under way (the splash, a busy button, a
\* spinner, an empty list of devices, "Computing...") has a handler of the mounted
\* screen that will end it, also after the screen was left and opened again while
\* the handlers of the earlier visit were suspended.
SpinnerHasHandler ==
    /\ screen.name = "splash" => Live("launch")
    /\ ui.busy => \E does \in {"request", "verify", "link", "find", "generate"} : Live(does)
    /\ ui.scanning => Live("scan")
    /\ ui.busyId # None =>
           \E k \in Slots : job[k].does = "revoke" /\ job[k].live /\ job[k].arg = ui.busyId
    /\ screen.name = "devices" /\ ui.listed = None /\ ~ui.error => Live("load") \/ Live("revoke")
    /\ screen.name = "safety" /\ ~ui.number /\ ~ui.error => Live("number")

\* Only a lookup that outlived its screen (handleFind, which opens the chat wherever
\* the user is) leads to a screen that App does not render, to a chat without an
\* account, or to a draft under another name than it was typed for.
OnlyLateFindMisleads ==
    \/ late
    \/ /\ ~Blank
       /\ userId = None => screen.name \in {"splash", "welcome", "onboarding"}
       /\ ui.draft \in {None, screen.peer}

=============================================================================
