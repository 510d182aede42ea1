--------------------------- MODULE ScreensProofs ---------------------------
(***************************************************************************)
(* Proofs about the screens: what shows that something is under way has a  *)
(* handler that will end it, and only a lookup that outlived its screen    *)
(* leads astray.  The invariant both need says whose screen a handler that *)
(* may still write to the shown state belongs to.                          *)
(***************************************************************************)
EXTENDS Screens, TLAPS

Chats == Peers \union Groups \union {None}

UiType ==
    [phase : {"phone", "code", "link"}, tab : {"chats", "updates", "discover", "calls"},
     menu : BOOLEAN, busy : BOOLEAN, scanning : BOOLEAN, error : BOOLEAN,
     matches : SUBSET Peers, selected : SUBSET Peers,
     listed : (SUBSET Devices) \union {None}, busyId : Devices \union {None},
     code : BOOLEAN, number : BOOLEAN, draft : Chats]

BusyDoes == {"request", "verify", "link", "find", "generate"}

Does == BusyDoes \union {"nothing", "launch", "scan", "number", "load", "revoke", "leave", "delete"}

JobType ==
    [does : Does, at : {"nowhere", "call", "save", "intersect", "load", "wipe", "native"},
     arg : Accounts \union Devices \union {None}, live : BOOLEAN]

\* The screen whose component starts a handler.
HomeOf(does) ==
    CASE does = "launch" -> "splash"
      [] does \in {"request", "verify", "link"} -> "onboarding"
      [] does \in {"find", "scan"} -> "contacts"
      [] does = "number" -> "safety"
      [] does = "generate" -> "linkdevice"
      [] does \in {"load", "revoke"} -> "devices"
      [] OTHER -> "settings"

\* A suspended handler on the screen n: it is at one of its own awaits, and live only
\* if n is its screen.
JobOK(j, n) ==
    /\ j \in JobType
    /\ j.at = "save" => j.does \in {"verify", "link"} /\ j.arg \in Accounts
    /\ j.at = "intersect" => j.does = "scan"
    /\ j.at = "load" => j.does = "revoke"
    /\ j.at \in {"wipe", "native"} => j.does \in {"leave", "delete"}
    /\ j.live => n = HomeOf(j.does)

JobsOK(js, n) == DOMAIN js = Slots /\ js = [k \in Slots |-> js[k]] /\ \A k \in Slots : JobOK(js[k], n)

ScreensTyped ==
    /\ screen \in [name : Names, peer : Chats]
    /\ userId \in Accounts \union {None}
    /\ saved \in Accounts \union {None}
    /\ pending \in Accounts \union {None}
    /\ late \in BOOLEAN
    /\ ui \in UiType
    /\ JobsOK(job, screen.name)

-----------------------------------------------------------------------------
(* What the handlers set. *)

LEMMA FreshTyped == Fresh \in UiType
BY ScreensAssumption DEF Fresh, UiType, Chats

\* n is a state of a screen with these fields; the others do not matter here.
Sets(n, busy, scanning, error, listed, busyId, number, draft) ==
    /\ n \in UiType
    /\ n.busy = busy /\ n.scanning = scanning /\ n.error = error /\ n.listed = listed
    /\ n.busyId = busyId /\ n.number = number /\ n.draft = draft

\* What each handler's change of the local state leaves alone.
LEMMA UiFields ==
    ASSUME NEW u \in UiType
    PROVE  /\ \A b, e \in BOOLEAN : Sets([u EXCEPT !.busy = b, !.error = e],
               b, u.scanning, e, u.listed, u.busyId, u.number, u.draft)
           /\ \A b \in BOOLEAN : Sets([u EXCEPT !.busy = b],
               b, u.scanning, u.error, u.listed, u.busyId, u.number, u.draft)
           /\ \A e \in BOOLEAN : Sets([u EXCEPT !.error = e],
               u.busy, u.scanning, e, u.listed, u.busyId, u.number, u.draft)
           /\ \A b \in BOOLEAN : Sets([u EXCEPT !.number = b],
               u.busy, u.scanning, u.error, u.listed, u.busyId, b, u.draft)
           /\ \A b \in BOOLEAN : Sets([u EXCEPT !.menu = b],
               u.busy, u.scanning, u.error, u.listed, u.busyId, u.number, u.draft)
           /\ \A d \in Chats : Sets([u EXCEPT !.draft = d],
               u.busy, u.scanning, u.error, u.listed, u.busyId, u.number, d)
           /\ \A s \in SUBSET Peers : Sets([u EXCEPT !.selected = s],
               u.busy, u.scanning, u.error, u.listed, u.busyId, u.number, u.draft)
<1>1. ASSUME NEW b \in BOOLEAN, NEW e \in BOOLEAN
      PROVE  Sets([u EXCEPT !.busy = b, !.error = e],
               b, u.scanning, e, u.listed, u.busyId, u.number, u.draft)
  BY Zenon DEF Sets, UiType
<1>2. ASSUME NEW b \in BOOLEAN
      PROVE  /\ Sets([u EXCEPT !.busy = b],
                   b, u.scanning, u.error, u.listed, u.busyId, u.number, u.draft)
             /\ Sets([u EXCEPT !.error = b],
                   u.busy, u.scanning, b, u.listed, u.busyId, u.number, u.draft)
             /\ Sets([u EXCEPT !.number = b],
                   u.busy, u.scanning, u.error, u.listed, u.busyId, b, u.draft)
             /\ Sets([u EXCEPT !.menu = b],
                   u.busy, u.scanning, u.error, u.listed, u.busyId, u.number, u.draft)
  BY DEF Sets, UiType
<1>3. ASSUME NEW d \in Chats
      PROVE  Sets([u EXCEPT !.draft = d],
               u.busy, u.scanning, u.error, u.listed, u.busyId, u.number, d)
  BY DEF Sets, UiType
<1>4. ASSUME NEW s \in SUBSET Peers
      PROVE  Sets([u EXCEPT !.selected = s],
               u.busy, u.scanning, u.error, u.listed, u.busyId, u.number, u.draft)
  BY DEF Sets, UiType
<1> QED
  BY <1>1, <1>2, <1>3, <1>4, Zenon

LEMMA UiPairs ==
    ASSUME NEW u \in UiType
    PROVE  /\ \A b \in BOOLEAN, ms \in SUBSET Peers : Sets([u EXCEPT !.scanning = b, !.matches = ms],
               u.busy, b, u.error, u.listed, u.busyId, u.number, u.draft)
           /\ \A b, c \in BOOLEAN : Sets([u EXCEPT !.busy = b, !.code = c],
               b, u.scanning, u.error, u.listed, u.busyId, u.number, u.draft)
           /\ \A t \in {"chats", "updates", "discover", "calls"} : Sets([u EXCEPT !.tab = t],
               u.busy, u.scanning, u.error, u.listed, u.busyId, u.number, u.draft)
           /\ \A p \in {"phone", "code", "link"}, b \in BOOLEAN : Sets([u EXCEPT !.phase = p, !.error = b],
               u.busy, u.scanning, b, u.listed, u.busyId, u.number, u.draft)
           /\ \A p \in {"phone", "code", "link"}, b \in BOOLEAN : Sets([u EXCEPT !.busy = b, !.phase = p],
               b, u.scanning, u.error, u.listed, u.busyId, u.number, u.draft)
           /\ \A d \in Devices \union {None}, b \in BOOLEAN : Sets([u EXCEPT !.busyId = d, !.error = b],
               u.busy, u.scanning, b, u.listed, d, u.number, u.draft)
           /\ \A d \in Devices \union {None}, l \in (SUBSET Devices) \union {None} :
               Sets([u EXCEPT !.busyId = d, !.listed = l],
                   u.busy, u.scanning, u.error, l, d, u.number, u.draft)
<1>1. ASSUME NEW b \in BOOLEAN, NEW ms \in SUBSET Peers
      PROVE  Sets([u EXCEPT !.scanning = b, !.matches = ms],
               u.busy, b, u.error, u.listed, u.busyId, u.number, u.draft)
  BY Zenon DEF Sets, UiType
<1>2. ASSUME NEW b \in BOOLEAN, NEW c \in BOOLEAN
      PROVE  Sets([u EXCEPT !.busy = b, !.code = c],
               b, u.scanning, u.error, u.listed, u.busyId, u.number, u.draft)
  BY Zenon DEF Sets, UiType
<1>3. ASSUME NEW t \in {"chats", "updates", "discover", "calls"}
      PROVE  Sets([u EXCEPT !.tab = t],
               u.busy, u.scanning, u.error, u.listed, u.busyId, u.number, u.draft)
  BY DEF Sets, UiType
<1>4. ASSUME NEW p \in {"phone", "code", "link"}, NEW b \in BOOLEAN
      PROVE  Sets([u EXCEPT !.phase = p, !.error = b],
               u.busy, u.scanning, b, u.listed, u.busyId, u.number, u.draft)
  BY Zenon DEF Sets, UiType
<1>5. ASSUME NEW p \in {"phone", "code", "link"}, NEW b \in BOOLEAN
      PROVE  Sets([u EXCEPT !.busy = b, !.phase = p],
               b, u.scanning, u.error, u.listed, u.busyId, u.number, u.draft)
  BY Zenon DEF Sets, UiType
<1>6. ASSUME NEW d \in Devices \union {None}, NEW b \in BOOLEAN
      PROVE  Sets([u EXCEPT !.busyId = d, !.error = b],
               u.busy, u.scanning, b, u.listed, d, u.number, u.draft)
  BY Zenon DEF Sets, UiType
<1>7. ASSUME NEW d \in Devices \union {None}, NEW l \in (SUBSET Devices) \union {None}
      PROVE  Sets([u EXCEPT !.busyId = d, !.listed = l],
               u.busy, u.scanning, u.error, l, d, u.number, u.draft)
  BY Zenon DEF Sets, UiType
<1> QED
  BY <1>1, <1>2, <1>3, <1>4, <1>5, <1>6, <1>7, Zenon

-----------------------------------------------------------------------------
(* The handlers. *)

\* SpinnerHasHandler, of the screen n in the local state u with the handlers js.
LiveIn(js, does) == \E k \in Slots : js[k].does = does /\ js[k].live

Spin(n, u, js) ==
    /\ n = "splash" => LiveIn(js, "launch")
    /\ u.busy => \E does \in BusyDoes : LiveIn(js, does)
    /\ u.scanning => LiveIn(js, "scan")
    /\ u.busyId # None =>
           \E k \in Slots : js[k].does = "revoke" /\ js[k].live /\ js[k].arg = u.busyId
    /\ n = "devices" /\ u.listed = None /\ ~u.error => LiveIn(js, "load") \/ LiveIn(js, "revoke")
    /\ n = "safety" /\ ~u.number /\ ~u.error => LiveIn(js, "number")

LEMMA SpinIs == SpinnerHasHandler <=> Spin(screen.name, ui, job)
BY DEF SpinnerHasHandler, Spin, Live, LiveIn, BusyDoes

LEMMA IdleOK == \A n : JobOK(Idle, n)
BY DEF JobOK, Idle, JobType, Does

LEMMA PutOK ==
    ASSUME NEW n, NEW js, JobsOK(js, n), NEW k \in Slots, NEW j, JobOK(j, n)
    PROVE  JobsOK([js EXCEPT ![k] = j], n)
BY DEF JobsOK

\* The handlers js that are live are still there in ks.
Keeps(js, ks) ==
    \A k \in Slots : js[k].live => ks[k].live /\ ks[k].does = js[k].does /\ ks[k].arg = js[k].arg

LEMMA KeepsSpin ==
    ASSUME NEW n, NEW u, NEW js, NEW ks, Spin(n, u, js), Keeps(js, ks)
    PROVE  Spin(n, u, ks)
BY DEF Spin, Keeps, LiveIn

\* A slot that is not live may be used for something else.
LEMMA PutKeeps ==
    ASSUME NEW n, NEW js, JobsOK(js, n), NEW k \in Slots, NEW j,
           js[k].live => j.live /\ j.does = js[k].does /\ j.arg = js[k].arg
    PROVE  Keeps(js, [js EXCEPT ![k] = j])
BY DEF JobsOK, Keeps

\* The local state u2 does not wait for the handler does, which ends.
EndsIt(n, does, u, u2) ==
    /\ n = "splash" => does # "launch"
    /\ u2.busy => u.busy /\ does \notin BusyDoes
    /\ u2.scanning => u.scanning /\ does # "scan"
    /\ u2.busyId # None => u2.busyId = u.busyId /\ does # "revoke"
    /\ u2.listed = None /\ ~u2.error =>
           u.listed = None /\ ~u.error /\ does \notin {"load", "revoke"}
    /\ ~u2.number /\ ~u2.error => ~u.number /\ ~u.error /\ does # "number"

LEMMA EndSpin ==
    ASSUME NEW n, NEW u, NEW js, JobsOK(js, n), Spin(n, u, js), NEW k \in Slots,
           NEW u2, EndsIt(n, js[k].does, u, u2)
    PROVE  Spin(n, u2, [js EXCEPT ![k] = Idle])
  <1> DEFINE ks == [js EXCEPT ![k] = Idle]
  <1>1. \A i \in Slots : js[i].does # js[k].does => ks[i] = js[i]
    BY DEF JobsOK
  <1>2. \A does : does # js[k].does /\ LiveIn(js, does) => LiveIn(ks, does)
    BY <1>1 DEF LiveIn
  <1> HIDE DEF ks
  <1>3. u2.busyId # None =>
           \E i \in Slots : ks[i].does = "revoke" /\ ks[i].live /\ ks[i].arg = u2.busyId
    BY <1>1 DEF EndsIt, Spin
  <1> QED
    BY <1>2, <1>3 DEF EndsIt, Spin, ks

-----------------------------------------------------------------------------
(* The invariant, and the two shapes of a step. *)

\* The screens that are shown before there is an account.
Public == {"splash", "welcome", "onboarding"}

\* A draft is in a chat, and is the one of the chat shown; without an account
\* only the screens before it are shown.
Honest ==
    /\ ui.draft # None => screen.name = "chat"
    /\ late \/ /\ userId = None => screen.name \in Public
               /\ ui.draft \in {None, screen.peer}

ScreensInv == ScreensTyped /\ Spin(screen.name, ui, job) /\ Honest

\* A step that leaves the screen where it is.
Stays ==
    /\ UNCHANGED <<screen, userId, late>>
    /\ pending' \in Accounts \union {None} /\ saved' \in Accounts \union {None}
    /\ ui' \in UiType
    /\ \/ ui'.draft \in {ui.draft, None}
       \/ screen.name = "chat" /\ ui'.draft = screen.peer
    /\ JobsOK(job', screen.name)
    /\ Spin(screen.name, ui', job')

LEMMA StaysKeeps ==
    ASSUME ScreensInv, Stays
    PROVE  ScreensInv'
BY DEF ScreensInv, Stays, ScreensTyped, Honest

\* The handlers js that are left when the screen n is set: all of them, or all
\* but one that does not belong to n.
Left(js, n) ==
    \/ js = job
    \/ \E k \in Slots : js = Ended(k) /\ (job[k].live => n # screen.name)

\* A step that sets the screen n.
Moved(n, p, js) ==
    /\ n \in Names \ {"splash"} /\ p \in Chats
    /\ SetScreen(n, p, js) /\ Left(js, n)
    /\ userId' \in Accounts \union {None}
    /\ pending' \in Accounts \union {None} /\ saved' \in Accounts \union {None}
    /\ late' \in BOOLEAN
    /\ \/ late'
       \/ ~late /\ (userId' = None => n \in Public) /\ (n = "chat" => screen.name # "chat")

LEMMA OnMountHome ==
    \A n \in Names : /\ OnMount(n) # "nothing" => HomeOf(OnMount(n)) = n
                     /\ OnMount(n) \in {"generate", "load", "number", "nothing"}
                     /\ n = "linkdevice" <=> OnMount(n) = "generate"
                     /\ n = "devices" <=> OnMount(n) = "load"
                     /\ n = "safety" <=> OnMount(n) = "number"
BY DEF Names, OnMount, HomeOf

LEMMA MovedKeeps ==
    ASSUME ScreensInv, NEW n, NEW p, NEW js, Moved(n, p, js)
    PROVE  ScreensInv'
  <1> DEFINE left == [k \in Slots |-> [js[k] EXCEPT !.live = FALSE]]
             does == OnMount(n)
  <1>0. screen' = [name |-> n, peer |-> p] /\ screen'.name = n /\ screen'.peer = p
    BY DEF Moved, SetScreen
  <1>1. JobsOK(js, screen.name)
    BY IdleOK, PutOK DEF Moved, Left, Ended, ScreensInv, ScreensTyped
  <1>2. CASE n = screen.name
    <2>1. ui' = ui /\ job' = js
      BY <1>2 DEF Moved, SetScreen
    <2>2. Keeps(job, js)
      <3>1. CASE js = job
        BY <3>1 DEF Keeps
      <3>2. ASSUME NEW k \in Slots, js = [job EXCEPT ![k] = Idle], ~job[k].live
            PROVE  Keeps(job, js)
        BY <3>2, PutKeeps DEF ScreensInv, ScreensTyped
      <3> QED
        BY <1>2, <3>1, <3>2 DEF Moved, Left, Ended
    <2>3. Spin(n, ui, js)
      BY <1>2, <2>2, KeepsSpin DEF ScreensInv
    <2> QED
      BY <1>0, <1>1, <1>2, <2>1, <2>3 DEF ScreensInv, ScreensTyped, Moved, Honest
  <1>3. CASE n # screen.name
    <2>1. \A m : JobsOK(left, m)
      <3> SUFFICES ASSUME NEW m, NEW k \in Slots PROVE JobOK(left[k], m)
        BY DEF JobsOK
      <3>1. JobOK(js[k], screen.name) /\ left[k] = [js[k] EXCEPT !.live = FALSE]
        BY <1>1 DEF JobsOK
      <3> QED
        BY <3>1 DEF JobOK, JobType
    <2>2. CASE does = "nothing"
      <3>1. ui' = Fresh /\ job' = left
        BY <1>3, <2>2 DEF Moved, SetScreen
      <3>2. Spin(n, Fresh, left)
        BY <2>2, OnMountHome DEF Spin, Fresh, Moved
      <3>3. Fresh \in UiType /\ Fresh.draft = None
        BY FreshTyped DEF Fresh
      <3> HIDE DEF left, does
      <3> QED
        BY <1>0, <2>1, <3>1, <3>2, <3>3 DEF ScreensInv, ScreensTyped, Moved, Honest
    <2>3. CASE does # "nothing"
      <3> DEFINE u == [Fresh EXCEPT !.busy = (does = "generate")]
      <3>1. PICK k \in Slots : left[k] = Idle /\ job' = [left EXCEPT ![k] = Job(does, None)]
        BY <1>3, <2>3 DEF Moved, SetScreen
      <3>2. ui' = u
        BY <1>3, <2>3 DEF Moved, SetScreen
      <3>3. JobOK(Job(does, None), n)
        BY <2>3, OnMountHome DEF JobOK, Job, JobType, Does, BusyDoes, Moved
      <3>4. JobsOK(job', n)
        BY <2>1, <3>1, <3>3, PutOK
      <3>5. job'[k] = Job(does, None) /\ Job(does, None).live /\ Job(does, None).does = does
        BY <3>1 DEF Job
      <3>6. Sets(u, does = "generate", FALSE, FALSE, None, None, FALSE, None)
        BY FreshTyped, UiFields DEF Fresh
      <3> HIDE DEF u, left
      <3>7. Spin(n, u, job')
        <4>1. LiveIn(job', does) /\ n \in Names /\ n # "splash"
          BY <3>5 DEF LiveIn, Moved
        <4>2. /\ u.busy => does = "generate"
              /\ ~u.scanning /\ u.busyId = None
          BY <3>6 DEF Sets
        <4>3. does = "generate" => does \in BusyDoes
          BY DEF BusyDoes
        <4>4. (n = "devices" <=> does = "load") /\ (n = "safety" <=> does = "number")
          BY <4>1, OnMountHome
        <4> HIDE DEF does
        <4> QED
          BY <4>1, <4>2, <4>3, <4>4 DEF Spin
      <3> HIDE DEF does
      <3> QED
        BY <1>0, <3>2, <3>4, <3>6, <3>7 DEF ScreensInv, ScreensTyped, Moved, Honest, Sets
    <2> QED
      BY <2>2, <2>3
  <1> QED
    BY <1>2, <1>3

\* A handler that ends where its screen is: Failed and the like.
LEMMA EndStays ==
    ASSUME ScreensInv, NEW k \in Slots, NEW u, End(k, u), u \in UiType, u.draft = ui.draft,
           pending' \in Accounts \union {None},
           job[k].live => EndsIt(screen.name, job[k].does, ui, u)
    PROVE  ScreensInv'
  <1>1. JobsOK(job, screen.name) /\ Spin(screen.name, ui, job)
    BY DEF ScreensInv, ScreensTyped
  <1>2. JobsOK(job', screen.name)
    BY <1>1, IdleOK, PutOK DEF End, Ended
  <1>3. CASE job[k].live
    <2>1. Spin(screen.name, u, job')
      BY <1>1, <1>3, EndSpin DEF End, Ended
    <2> QED
      BY <1>2, <1>3, <2>1, StaysKeeps DEF Stays, End, ScreensInv, ScreensTyped
  <1>4. CASE ~job[k].live
    <2>1. Keeps(job, job')
      BY <1>1, <1>4, PutKeeps DEF End, Ended
    <2>2. Spin(screen.name, ui, job')
      BY <1>1, <2>1, KeepsSpin
    <2> QED
      BY <1>2, <1>4, <2>2, StaysKeeps DEF Stays, End, ScreensInv, ScreensTyped
  <1> QED
    BY <1>3, <1>4

\* A handler in slot k goes on to its next await.
LEMMA OnwardStays ==
    ASSUME ScreensInv, NEW k \in Slots, NEW at, NEW arg, Onward(k, at, arg),
           JobOK([does |-> job[k].does, at |-> at, arg |-> arg, live |-> job[k].live], screen.name),
           job[k].live => arg = job[k].arg \/ job[k].does # "revoke",
           UNCHANGED <<screen, userId, late, saved>>,
           pending' \in Accounts \union {None},
           ui' \in UiType, ui'.draft = ui.draft, ui'.busy = ui.busy, ui'.scanning = ui.scanning,
           ui'.listed = ui.listed, ui'.busyId = ui.busyId, ui'.number = ui.number,
           ui'.error = ui.error \/ (job[k].live /\ job[k].does = "revoke")
    PROVE  ScreensInv'
  <1> DEFINE j == [does |-> job[k].does, at |-> at, arg |-> arg, live |-> job[k].live]
  <1>1. JobsOK(job, screen.name) /\ Spin(screen.name, ui, job)
    BY DEF ScreensInv, ScreensTyped
  <1>2. JobsOK(job', screen.name)
    BY <1>1, PutOK DEF Onward
  <1>3. /\ job'[k] = j /\ j.does = job[k].does /\ j.live = job[k].live /\ j.arg = arg
        /\ \A i \in Slots \ {k} : job'[i] = job[i]
    BY <1>1 DEF Onward, JobsOK
  <1> HIDE DEF j
  <1>4. \A i \in Slots : /\ job'[i].does = job[i].does /\ job'[i].live = job[i].live
                         /\ job[i].live /\ job[i].does = "revoke" => job'[i].arg = job[i].arg
    BY <1>3
  <1>5. screen.name = "safety" => ~(job[k].live /\ job[k].does = "revoke")
    BY <1>1 DEF JobsOK, JobOK, HomeOf
  <1>6. Spin(screen.name, ui', job')
    <2>1. \A does : LiveIn(job, does) => LiveIn(job', does)
      BY <1>4 DEF LiveIn
    <2>2. job[k].live /\ job[k].does = "revoke" => LiveIn(job, "revoke")
      BY DEF LiveIn
    <2>3. ui'.busyId # None =>
              \E i \in Slots : job'[i].does = "revoke" /\ job'[i].live /\ job'[i].arg = ui'.busyId
      BY <1>1, <1>4 DEF Spin
    <2> QED
      BY <1>1, <1>5, <2>1, <2>2, <2>3 DEF Spin
  <1> QED
    BY <1>2, <1>6, StaysKeeps DEF Stays, ScreensInv, ScreensTyped

\* A handler starts in an idle slot.
LEMMA StartStays ==
    ASSUME ScreensInv, NEW k \in Slots, NEW j, job[k] = Idle, job' = [job EXCEPT ![k] = j],
           JobOK(j, screen.name), UNCHANGED <<screen, userId, late, saved, pending>>,
           ui' \in UiType, ui'.draft = ui.draft,
           ui'.busy => ui.busy \/ (j.live /\ j.does \in BusyDoes),
           ui'.scanning => ui.scanning \/ (j.live /\ j.does = "scan"),
           ui'.busyId = ui.busyId \/ (j.live /\ j.does = "revoke" /\ ui'.busyId = j.arg),
           ui'.listed = ui.listed, ui'.number = ui.number,
           screen.name \in {"devices", "safety"} => ui'.error = ui.error \/ (j.live /\ j.does = "revoke")
    PROVE  ScreensInv'
  <1>1. JobsOK(job, screen.name) /\ Spin(screen.name, ui, job)
    BY DEF ScreensInv, ScreensTyped
  <1>2. JobsOK(job', screen.name)
    BY <1>1, PutOK
  <1>3. job'[k] = j /\ Keeps(job, job')
    <2>1. job'[k] = j
      BY <1>1 DEF JobsOK
    <2>2. ~job[k].live
      BY DEF Idle
    <2> QED
      BY <1>1, <2>1, <2>2, PutKeeps
  <1>4. Spin(screen.name, ui, job')
    BY <1>1, <1>3, KeepsSpin
  <1>5. j.live => LiveIn(job', j.does)
    BY <1>3 DEF LiveIn
  <1>6. screen.name = "safety" => ~(j.live /\ j.does = "revoke")
    BY DEF JobOK, HomeOf
  <1>7. Spin(screen.name, ui', job')
    <2>1. ui'.busyId # None =>
              \E i \in Slots : job'[i].does = "revoke" /\ job'[i].live /\ job'[i].arg = ui'.busyId
      BY <1>3, <1>4 DEF Spin
    <2>2. /\ screen.name = "splash" => LiveIn(job', "launch")
          /\ ui'.busy => \E does \in BusyDoes : LiveIn(job', does)
          /\ ui'.scanning => LiveIn(job', "scan")
      BY <1>4, <1>5 DEF Spin
    <2>3. /\ screen.name = "devices" /\ ui'.listed = None /\ ~ui'.error =>
                 LiveIn(job', "load") \/ LiveIn(job', "revoke")
          /\ screen.name = "safety" /\ ~ui'.number /\ ~ui'.error => LiveIn(job', "number")
      BY <1>4, <1>5, <1>6 DEF Spin
    <2> QED
      BY <2>1, <2>2, <2>3 DEF Spin
  <1> QED
    BY <1>2, <1>7, StaysKeeps DEF Stays, ScreensInv, ScreensTyped

\* A tap that only changes what does not show that something is under way.
LEMMA ShowStays ==
    ASSUME ScreensInv, UNCHANGED <<screen, userId, late, saved, pending, job>>,
           ui' \in UiType, ui'.busy = ui.busy, ui'.scanning = ui.scanning, ui'.busyId = ui.busyId,
           ui'.listed = ui.listed, ui'.number = ui.number \/ ui'.number,
           screen.name \in {"devices", "safety"} => ui'.error = ui.error,
           \/ ui'.draft \in {ui.draft, None}
           \/ screen.name = "chat" /\ ui'.draft = screen.peer
    PROVE  ScreensInv'
  <1>1. Spin(screen.name, ui', job')
    BY DEF Spin, ScreensInv
  <1> QED
    BY <1>1, StaysKeeps DEF Stays, ScreensInv, ScreensTyped

-----------------------------------------------------------------------------
(* The answers. *)

LEMMA JobFacts ==
    ASSUME ScreensInv, NEW k \in Slots
    PROVE  JobOK(job[k], screen.name) /\ ui \in UiType
BY DEF ScreensInv, ScreensTyped, JobsOK

LEMMA FailedStays ==
    ASSUME ScreensInv, NEW k \in Slots, End(k, Failed), job[k].does \in BusyDoes,
           pending' \in Accounts \union {None}
    PROVE  ScreensInv'
  <1>1. Sets(Failed, FALSE, ui.scanning, TRUE, ui.listed, ui.busyId, ui.number, ui.draft)
    BY JobFacts, UiFields DEF Failed
  <1>2. EndsIt(screen.name, job[k].does, ui, Failed)
    BY <1>1 DEF EndsIt, Sets, BusyDoes
  <1> QED
    BY <1>1, <1>2, EndStays DEF Sets

LEMMA RequestStep ==
    ASSUME ScreensInv, NEW k \in Slots, RequestBack(k)
    PROVE  ScreensInv'
  <1>0. job[k].does = "request" /\ pending \in Accounts \union {None} /\ ui \in UiType
    BY DEF RequestBack, Is, ScreensInv, ScreensTyped
  <1>1. CASE End(k, Failed) /\ UNCHANGED <<pending, used>>
    BY <1>0, <1>1, FailedStays DEF BusyDoes
  <1> DEFINE u == [ui EXCEPT !.busy = FALSE, !.phase = "code"]
  <1>2. ASSUME NEW a \in Accounts, pending' = a, End(k, u)
        PROVE  ScreensInv'
    <2>1. Sets(u, FALSE, ui.scanning, ui.error, ui.listed, ui.busyId, ui.number, ui.draft)
      BY <1>0, UiPairs
    <2> HIDE DEF u
    <2>2. u.busy = FALSE /\ u.draft = ui.draft /\ u \in UiType
      BY <2>1 DEF Sets
    <2>3. EndsIt(screen.name, job[k].does, ui, u)
      BY <1>0, <2>1 DEF EndsIt, Sets, BusyDoes
    <2> QED
      BY <1>2, <2>2, <2>3, EndStays
  <1> QED
    BY <1>1, <1>2 DEF RequestBack

LEMMA VerifyLinkStep ==
    ASSUME ScreensInv, NEW k \in Slots, VerifyBack(k) \/ LinkBack(k)
    PROVE  ScreensInv'
  <1>0. /\ job[k].does \in {"verify", "link"} /\ pending \in Accounts \union {None}
        /\ ui \in UiType /\ JobOK(job[k], screen.name)
    BY JobFacts DEF VerifyBack, LinkBack, Is, ScreensInv, ScreensTyped
  <1>1. ASSUME End(k, Failed), pending' \in {pending, None}
        PROVE  ScreensInv'
    BY <1>0, <1>1, FailedStays DEF BusyDoes
  <1>2. ASSUME NEW a \in Accounts, Saving(k, a), pending' \in {pending, None},
               UNCHANGED <<screen, userId, ui, late, saved>>
        PROVE  ScreensInv'
    <2>1. JobOK([does |-> job[k].does, at |-> "save", arg |-> a, live |-> job[k].live], screen.name)
      BY <1>0 DEF JobOK, JobType
    <2> QED
      BY <1>0, <1>2, <2>1, OnwardStays DEF Saving
  <1>3. CASE VerifyBack(k)
    BY <1>0, <1>1, <1>2, <1>3 DEF VerifyBack
  <1>4. CASE LinkBack(k)
    BY <1>0, <1>1, <1>2, <1>4 DEF LinkBack
  <1> QED
    BY <1>3, <1>4

\* saveAccount of onboarding: the home screen is never the one that asked.
LEMMA SavedStep ==
    ASSUME ScreensInv, NEW k \in Slots, Saved(k)
    PROVE  ScreensInv'
  <1>0. /\ JobOK(job[k], screen.name) /\ job[k].does \in {"verify", "link"}
        /\ job[k].arg \in Accounts /\ (job[k].live => screen.name = "onboarding")
        /\ pending \in Accounts \union {None} /\ saved \in Accounts \union {None}
        /\ late \in BOOLEAN
    BY JobFacts DEF Saved, JobOK, HomeOf, ScreensInv, ScreensTyped
  <1>1. CASE End(k, Failed) /\ UNCHANGED <<pending, used>>
    BY <1>0, <1>1, FailedStays DEF BusyDoes
  <1>2. CASE /\ saved' = job[k].arg /\ userId' = job[k].arg
             /\ SetScreen("home", None, Ended(k))
             /\ UNCHANGED <<alert, threads, pending, used, late>>
    <2>1. Left(Ended(k), "home")
      BY <1>0 DEF Left
    <2>2. Moved("home", None, Ended(k))
      BY <1>0, <1>2, <2>1, ScreensAssumption DEF Moved, Names, Chats
    <2> QED
      BY <2>2, MovedKeeps
  <1> QED
    BY <1>1, <1>2 DEF Saved

\* A lookup that answers: the chat opens from contacts, or the lookup is late.
LEMMA FindStep ==
    ASSUME ScreensInv, NEW k \in Slots, FindBack(k)
    PROVE  ScreensInv'
  <1>0. /\ job[k].does = "find" /\ (job[k].live => screen.name = "contacts")
        /\ userId \in Accounts \union {None}
        /\ pending \in Accounts \union {None} /\ saved \in Accounts \union {None}
        /\ late \in BOOLEAN /\ job[k].live \in BOOLEAN
    BY JobFacts DEF FindBack, Is, JobOK, JobType, HomeOf, ScreensInv, ScreensTyped
  <1>1. CASE End(k, Failed) /\ UNCHANGED <<pending, used>>
    BY <1>0, <1>1, FailedStays DEF BusyDoes
  <1>2. ASSUME NEW p \in Peers, SetScreen("chat", p, Ended(k)), late' = (late \/ ~job[k].live),
               UNCHANGED <<userId, alert, saved, pending, used>>
        PROVE  ScreensInv'
    <2>1. Left(Ended(k), "chat")
      BY <1>0 DEF Left
    <2>2. late' \/ (~late /\ userId' # None /\ screen.name # "chat")
      BY <1>0, <1>2 DEF ScreensInv, Honest, Public
    <2>3. late' \in BOOLEAN
      BY <1>0, <1>2
    <2>4. userId' = userId /\ saved' = saved /\ pending' = pending
      BY <1>2
    <2>5. "chat" \in Names \ {"splash"} /\ p \in Chats
      BY DEF Names, Chats
    <2>6. Moved("chat", p, Ended(k))
      BY <1>0, <1>2, <2>1, <2>2, <2>3, <2>4, <2>5 DEF Moved
    <2> QED
      BY <2>6, MovedKeeps
  <1> QED
    BY <1>1, <1>2 DEF FindBack

LEMMA ScanStep ==
    ASSUME ScreensInv, NEW k \in Slots, ContactsRead(k) \/ ScanBack(k)
    PROVE  ScreensInv'
  <1>0. /\ job[k].does = "scan" /\ JobOK(job[k], screen.name) /\ ui \in UiType
        /\ pending \in Accounts \union {None}
    BY JobFacts DEF ContactsRead, ScanBack, Is, JobOK, ScreensInv, ScreensTyped
  <1>1. ASSUME NEW found \in SUBSET Peers, End(k, Scanned(found)), pending' = pending
        PROVE  ScreensInv'
    <2> DEFINE u == Scanned(found)
    <2>1. Sets(u, ui.busy, FALSE, ui.error, ui.listed, ui.busyId, ui.number, ui.draft)
      BY <1>0, UiPairs DEF Scanned
    <2> HIDE DEF u
    <2>2. u.draft = ui.draft /\ u \in UiType
      BY <2>1 DEF Sets
    <2>3. EndsIt(screen.name, job[k].does, ui, u)
      BY <1>0, <2>1 DEF EndsIt, Sets, BusyDoes
    <2> QED
      BY <1>0, <1>1, <2>2, <2>3, EndStays DEF u
  <1>2. ASSUME Onward(k, "intersect", job[k].arg),
               UNCHANGED <<screen, userId, ui, late, saved, pending>>
        PROVE  ScreensInv'
    <2>1. JobOK([does |-> job[k].does, at |-> "intersect", arg |-> job[k].arg,
                 live |-> job[k].live], screen.name)
      BY <1>0 DEF JobOK, JobType
    <2> QED
      BY <1>0, <1>2, <2>1, OnwardStays
  <1>3. CASE ContactsRead(k)
    BY <1>1, <1>2, <1>3 DEF ContactsRead
  <1>4. CASE ScanBack(k)
    BY <1>1, <1>4 DEF ScanBack
  <1> QED
    BY <1>3, <1>4

LEMMA NumberStep ==
    ASSUME ScreensInv, NEW k \in Slots, NumberBack(k)
    PROVE  ScreensInv'
  <1>0. job[k].does = "number" /\ ui \in UiType /\ pending \in Accounts \union {None}
    BY DEF NumberBack, Is, ScreensInv, ScreensTyped
  <1> DEFINE e == [ui EXCEPT !.error = TRUE]
             u == [ui EXCEPT !.number = TRUE]
  <1>1. /\ Sets(e, ui.busy, ui.scanning, TRUE, ui.listed, ui.busyId, ui.number, ui.draft)
        /\ Sets(u, ui.busy, ui.scanning, ui.error, ui.listed, ui.busyId, TRUE, ui.draft)
    BY <1>0, UiFields
  <1>2. \/ End(k, e) \/ End(k, u)
        \/ ui' = u /\ UNCHANGED <<screen, userId, alert, job, threads, saved, late>>
    BY DEF NumberBack
  <1>3. pending' = pending
    BY DEF NumberBack
  <1> HIDE DEF e, u
  <1>4. /\ EndsIt(screen.name, job[k].does, ui, e) /\ e \in UiType /\ e.draft = ui.draft
        /\ EndsIt(screen.name, job[k].does, ui, u) /\ u \in UiType /\ u.draft = ui.draft
    BY <1>0, <1>1 DEF EndsIt, Sets, BusyDoes
  <1>5. CASE End(k, e)
    BY <1>0, <1>3, <1>4, <1>5, EndStays
  <1>6. CASE End(k, u)
    BY <1>0, <1>3, <1>4, <1>6, EndStays
  <1>7. CASE ui' = u /\ UNCHANGED <<screen, userId, alert, job, threads, saved, late>>
    BY <1>1, <1>3, <1>7, ShowStays DEF Sets
  <1> QED
    BY <1>2, <1>5, <1>6, <1>7

LEMMA GenerateStep ==
    ASSUME ScreensInv, NEW k \in Slots, GenerateBack(k)
    PROVE  ScreensInv'
  <1>0. job[k].does = "generate" /\ ui \in UiType /\ pending' \in Accounts \union {None}
    BY DEF GenerateBack, Is, ScreensInv, ScreensTyped
  <1> DEFINE u == [ui EXCEPT !.busy = FALSE, !.code = TRUE]
  <1>1. Sets(u, FALSE, ui.scanning, ui.error, ui.listed, ui.busyId, ui.number, ui.draft)
    BY <1>0, UiPairs
  <1>2. End(k, Failed) \/ End(k, u)
    BY DEF GenerateBack
  <1> HIDE DEF u
  <1>3. EndsIt(screen.name, job[k].does, ui, u) /\ u \in UiType /\ u.draft = ui.draft
    BY <1>0, <1>1 DEF EndsIt, Sets, BusyDoes
  <1>4. CASE End(k, Failed)
    BY <1>0, <1>4, FailedStays DEF BusyDoes
  <1>5. CASE End(k, u)
    BY <1>0, <1>3, <1>5, EndStays
  <1> QED
    BY <1>2, <1>4, <1>5

\* load, whoever called it: the list or an error is shown, and a revoke's row is free.
LEMMA LoadStep ==
    ASSUME ScreensInv, NEW k \in Slots, LoadBack(k)
    PROVE  ScreensInv'
  <1>0. job[k].does \in {"load", "revoke"} /\ ui \in UiType /\ pending' \in Accounts \union {None}
    BY JobFacts DEF LoadBack, Is, JobOK, ScreensInv, ScreensTyped
  <1> DEFINE row == IF job[k].does = "revoke" THEN None ELSE ui.busyId
             e == [ui EXCEPT !.busyId = row, !.error = TRUE]
  <1>1. row \in Devices \union {None} /\ (row # None => row = ui.busyId /\ job[k].does # "revoke")
    BY <1>0 DEF UiType
  <1>2. End(k, e) \/ \E ds \in SUBSET Devices : End(k, [ui EXCEPT !.busyId = row, !.listed = ds])
    BY DEF LoadBack
  <1> HIDE DEF row
  <1>3. ASSUME End(k, e)
        PROVE  ScreensInv'
    <2>1. Sets(e, ui.busy, ui.scanning, TRUE, ui.listed, row, ui.number, ui.draft)
      BY <1>0, <1>1, UiPairs
    <2> HIDE DEF e
    <2>2. EndsIt(screen.name, job[k].does, ui, e) /\ e \in UiType /\ e.draft = ui.draft
      BY <1>0, <1>1, <2>1 DEF EndsIt, Sets, BusyDoes
    <2> QED
      BY <1>0, <1>3, <2>2, EndStays
  <1>4. ASSUME NEW ds \in SUBSET Devices, End(k, [ui EXCEPT !.busyId = row, !.listed = ds])
        PROVE  ScreensInv'
    <2> DEFINE u == [ui EXCEPT !.busyId = row, !.listed = ds]
    <2>1. Sets(u, ui.busy, ui.scanning, ui.error, ds, row, ui.number, ui.draft) /\ ds # None
      BY <1>0, <1>1, UiPairs, ScreensAssumption
    <2>2. End(k, u)
      BY <1>4
    <2> HIDE DEF u
    <2>3. EndsIt(screen.name, job[k].does, ui, u) /\ u \in UiType /\ u.draft = ui.draft
      BY <1>0, <1>1, <2>1 DEF EndsIt, Sets, BusyDoes
    <2> QED
      BY <1>0, <2>2, <2>3, EndStays
  <1> QED
    BY <1>2, <1>3, <1>4

LEMMA RevokeBackStep ==
    ASSUME ScreensInv, NEW k \in Slots, RevokeBack(k)
    PROVE  ScreensInv'
  <1>0. /\ job[k].does = "revoke" /\ ui \in UiType /\ pending' \in Accounts \union {None}
        /\ JobOK(job[k], screen.name)
    BY JobFacts DEF RevokeBack, End, Is, ScreensInv, ScreensTyped
  <1> DEFINE e == [ui EXCEPT !.busyId = None, !.error = TRUE]
             u == [ui EXCEPT !.error = FALSE]
  <1>1. /\ Sets(e, ui.busy, ui.scanning, TRUE, ui.listed, None, ui.number, ui.draft)
        /\ Sets(u, ui.busy, ui.scanning, FALSE, ui.listed, ui.busyId, ui.number, ui.draft)
    BY <1>0, UiFields, UiPairs
  <1>2. \/ End(k, e)
        \/ /\ Onward(k, "load", job[k].arg) /\ ui' = IF job[k].live THEN u ELSE ui
           /\ UNCHANGED <<screen, userId, late, saved>>
    BY DEF RevokeBack
  <1> HIDE DEF e, u
  <1>3. EndsIt(screen.name, job[k].does, ui, e) /\ e \in UiType /\ e.draft = ui.draft
    BY <1>0, <1>1 DEF EndsIt, Sets, BusyDoes
  <1>4. CASE End(k, e)
    BY <1>0, <1>3, <1>4, EndStays
  <1>5. CASE /\ Onward(k, "load", job[k].arg) /\ ui' = IF job[k].live THEN u ELSE ui
             /\ UNCHANGED <<screen, userId, late, saved>>
    <2>1. JobOK([does |-> job[k].does, at |-> "load", arg |-> job[k].arg,
                 live |-> job[k].live], screen.name)
      BY <1>0 DEF JobOK, JobType
    <2> QED
      BY <1>0, <1>1, <1>5, <2>1, OnwardStays DEF Sets
  <1> QED
    BY <1>2, <1>4, <1>5

\* The account is deleted, the stores are wiped.
LEMMA LeaveStep ==
    ASSUME ScreensInv, NEW k \in Slots, DeleteBack(k) \/ Wiped(k)
    PROVE  ScreensInv'
  <1>0. /\ job[k].does \in {"leave", "delete"} /\ ui \in UiType
        /\ pending \in Accounts \union {None} /\ JobOK(job[k], screen.name)
    BY JobFacts DEF DeleteBack, Wiped, Is, JobOK, ScreensInv, ScreensTyped
  <1>1. ASSUME End(k, ui), pending' = pending
        PROVE  ScreensInv'
    <2>1. EndsIt(screen.name, job[k].does, ui, ui)
      BY <1>0 DEF EndsIt, BusyDoes
    <2> QED
      BY <1>0, <1>1, <2>1, EndStays
  <1>2. ASSUME NEW at \in {"wipe", "native"}, Onward(k, at, job[k].arg),
               UNCHANGED <<screen, userId, ui, late, saved, pending>>
        PROVE  ScreensInv'
    <2>1. JobOK([does |-> job[k].does, at |-> at, arg |-> job[k].arg,
                 live |-> job[k].live], screen.name)
      BY <1>0 DEF JobOK, JobType
    <2> QED
      BY <1>0, <1>2, <2>1, OnwardStays
  <1>3. CASE DeleteBack(k)
    BY <1>1, <1>2, <1>3 DEF DeleteBack
  <1>4. CASE Wiped(k)
    BY <1>2, <1>4 DEF Wiped
  <1> QED
    BY <1>3, <1>4

LEMMA ShellStep ==
    ASSUME ScreensInv, NEW k \in Slots, Launched(k) \/ SignedOut(k)
    PROVE  ScreensInv'
  <1>0. /\ job[k].live => screen.name \in {"splash", "settings"}
        /\ userId \in Accounts \union {None}
        /\ pending \in Accounts \union {None} /\ saved \in Accounts \union {None}
        /\ late \in BOOLEAN
    BY JobFacts DEF Launched, SignedOut, Is, JobOK, HomeOf, ScreensInv, ScreensTyped
  <1>1. ASSUME NEW n \in {"welcome", "home"}, SetScreen(n, None, Ended(k)),
               userId' \in Accounts \union {None}, userId' = None => n = "welcome",
               saved' \in Accounts \union {None}, UNCHANGED <<pending, late>>
        PROVE  ScreensInv'
    <2>1. Left(Ended(k), n)
      BY <1>0 DEF Left
    <2>2. Moved(n, None, Ended(k))
      BY <1>0, <1>1, <2>1 DEF Moved, Names, Chats, Public
    <2> QED
      BY <2>2, MovedKeeps
  <1>2. CASE Launched(k)
    BY <1>0, <1>1, <1>2, ScreensAssumption DEF Launched
  <1>3. CASE SignedOut(k)
    BY <1>0, <1>1, <1>3 DEF SignedOut
  <1> QED
    BY <1>2, <1>3

-----------------------------------------------------------------------------
(* The taps. *)

\* A tap on m that opens n.
LEMMA TapMoves ==
    ASSUME ScreensInv, NEW m, At(m), NEW n \in Names \ {"splash"}, NEW p \in Chats,
           SetScreen(n, p, job), UNCHANGED <<userId, saved, pending, late>>,
           m \in Public => n \in Public, n = "chat" => m # "chat"
    PROVE  ScreensInv'
  <1>1. Left(job, n) /\ screen.name = m
    BY DEF Left, At, Rendered
  <1>2. late \/ (userId = None => n \in Public)
    BY <1>1 DEF ScreensInv, Honest
  <1>3. late \in BOOLEAN /\ userId \in Accounts \union {None}
        /\ saved \in Accounts \union {None} /\ pending \in Accounts \union {None}
    BY DEF ScreensInv, ScreensTyped
  <1>4. Moved(n, p, job)
    BY <1>1, <1>2, <1>3 DEF Moved
  <1> QED
    BY <1>4, MovedKeeps

LEMMA NoneIsChat == None \in Chats /\ Peers \subseteq Chats /\ Groups \subseteq Chats
BY DEF Chats

LEMMA TapStep ==
    ASSUME ScreensInv,
           \/ Agree \/ NewChat \/ Back \/ BackToChat \/ Verify
           \/ \E n \in {"contacts", "newgroup", "starred", "settings"} :
                  At("home") /\ Goto(n, None)
           \/ \E t \in Peers \union Groups : OpenThread(t) \/ OpenStarred(t)
           \/ \E p \in Peers : OpenMatch(p)
           \/ \E g \in Groups : Create(g)
           \/ \E n \in {"linkdevice", "devices"} : OpenSetting(n)
    PROVE  ScreensInv'
  <1>0. screen.peer \in Chats
    BY DEF ScreensInv, ScreensTyped
  <1>1. ASSUME NEW m, At(m), NEW n \in Names \ {"splash"}, NEW p \in Chats, Goto(n, p),
               m \in Public => n \in Public, n = "chat" => m # "chat"
        PROVE  ScreensInv'
    BY <1>1, TapMoves DEF Goto
  <1>2. CASE Agree
    BY <1>1, <1>2, NoneIsChat DEF Agree, Names, Public
  <1>3. CASE NewChat \/ \E n \in {"contacts", "newgroup", "starred", "settings"} :
                            At("home") /\ Goto(n, None)
    BY <1>1, <1>3, NoneIsChat DEF NewChat, AtHome, Names, Public
  <1>4. CASE Back
    BY <1>1, <1>4, NoneIsChat DEF Back, Names, Public
  <1>5. CASE BackToChat \/ Verify
    BY <1>0, <1>1, <1>5 DEF BackToChat, Verify, Names, Public
  <1>6. CASE \E t \in Peers \union Groups : OpenThread(t) \/ OpenStarred(t)
    BY <1>1, <1>6, NoneIsChat DEF OpenThread, OpenStarred, AtHome, Names, Public
  <1>7. CASE \E n \in {"linkdevice", "devices"} : OpenSetting(n)
    BY <1>1, <1>7, NoneIsChat DEF OpenSetting, Names, Public
  <1>8. CASE \E p \in Peers : OpenMatch(p)
    BY <1>8, TapMoves, NoneIsChat DEF OpenMatch, Names, Public
  <1>9. CASE \E g \in Groups : Create(g)
    BY <1>9, TapMoves, NoneIsChat DEF Create, Names, Public
  <1> QED
    BY <1>2, <1>3, <1>4, <1>5, <1>6, <1>7, <1>8, <1>9

LEMMA ShowStep ==
    ASSUME ScreensInv,
           \/ HandleEditNumber \/ SwitchPhase \/ OpenMenu
           \/ \E t \in {"chats", "updates", "discover", "calls"} : SelectTab(t)
           \/ At("home") /\ Show([ui EXCEPT !.menu = FALSE])
           \/ \E p \in Peers : Toggle(p)
           \/ Type \/ HandleSend
    PROVE  ScreensInv'
  <1>0. ui \in UiType /\ screen.peer \in Chats /\ ui.selected \in SUBSET Peers
    BY DEF ScreensInv, ScreensTyped, UiType
  <1>1. ASSUME NEW u, UNCHANGED <<screen, userId, late, saved, pending, job>>, ui' = u, NEW e, NEW dr,
               Sets(u, ui.busy, ui.scanning, e, ui.listed, ui.busyId, ui.number, dr),
               screen.name \in {"devices", "safety"} => e = ui.error,
               dr \in {ui.draft, None} \/ (screen.name = "chat" /\ dr = screen.peer)
        PROVE  ScreensInv'
    BY <1>1, ShowStays DEF Sets
  <1>2. CASE HandleEditNumber \/ SwitchPhase
    <2>1. ASSUME NEW ph \in {"phone", "code", "link"}, screen.name = "onboarding",
                 Show([ui EXCEPT !.phase = ph, !.error = FALSE])
          PROVE  ScreensInv'
      <3>1. Sets([ui EXCEPT !.phase = ph, !.error = FALSE],
                 ui.busy, ui.scanning, FALSE, ui.listed, ui.busyId, ui.number, ui.draft)
        BY <1>0, UiPairs
      <3> QED
        BY <1>1, <2>1, <3>1 DEF Show
    <2> QED
      BY <1>2, <2>1 DEF HandleEditNumber, SwitchPhase, Free, At, Rendered
  <1>3. ASSUME NEW b \in BOOLEAN, Show([ui EXCEPT !.menu = b])
        PROVE  ScreensInv'
    <2>1. Sets([ui EXCEPT !.menu = b],
               ui.busy, ui.scanning, ui.error, ui.listed, ui.busyId, ui.number, ui.draft)
      BY <1>0, UiFields
    <2> QED
      BY <1>1, <1>3, <2>1 DEF Show
  <1>4. ASSUME NEW t \in {"chats", "updates", "discover", "calls"}, Show([ui EXCEPT !.tab = t])
        PROVE  ScreensInv'
    <2>1. Sets([ui EXCEPT !.tab = t],
               ui.busy, ui.scanning, ui.error, ui.listed, ui.busyId, ui.number, ui.draft)
      BY <1>0, UiPairs
    <2> QED
      BY <1>1, <1>4, <2>1 DEF Show
  <1>5. ASSUME NEW s \in SUBSET Peers, Show([ui EXCEPT !.selected = s])
        PROVE  ScreensInv'
    <2>1. Sets([ui EXCEPT !.selected = s],
               ui.busy, ui.scanning, ui.error, ui.listed, ui.busyId, ui.number, ui.draft)
      BY <1>0, UiFields
    <2> QED
      BY <1>1, <1>5, <2>1 DEF Show
  <1>6. CASE Type \/ HandleSend
    <2>1. ASSUME NEW dr \in Chats, dr = None \/ (screen.name = "chat" /\ dr = screen.peer),
                 UNCHANGED <<screen, userId, late, saved, pending, job>>,
                 ui' = [ui EXCEPT !.draft = dr]
          PROVE  ScreensInv'
      <3>1. Sets([ui EXCEPT !.draft = dr],
                 ui.busy, ui.scanning, ui.error, ui.listed, ui.busyId, ui.number, dr)
        BY <1>0, UiFields
      <3> QED
        BY <1>1, <2>1, <3>1
    <2> QED
      BY <1>0, <1>6, <2>1, NoneIsChat DEF Type, HandleSend, Show, At, Rendered
  <1>7. ASSUME NEW p \in Peers, Toggle(p)
        PROVE  ScreensInv'
    BY <1>0, <1>5, <1>7 DEF Toggle
  <1> QED
    BY <1>2, <1>3, <1>4, <1>6, <1>7 DEF OpenMenu, SelectTab

\* The local state v, when the handler does has started.
Starts(does, v) ==
    /\ v \in UiType
    /\ v.busy => ui.busy \/ does \in BusyDoes
    /\ v.scanning => ui.scanning \/ does = "scan"
    /\ v.listed = ui.listed /\ v.busyId = ui.busyId /\ v.number = ui.number /\ v.draft = ui.draft

\* A handler of the screen m starts.
LEMMA BeginStays ==
    ASSUME ScreensInv, NEW m, At(m), NEW does \in BusyDoes \union {"scan"}, HomeOf(does) = m,
           NEW v, Begin(does, None, v), Starts(does, v)
    PROVE  ScreensInv'
  <1> DEFINE j == Job(does, None)
             u == [v EXCEPT !.error = FALSE]
  <1>1. PICK k \in Slots : job[k] = Idle /\ job' = [job EXCEPT ![k] = j]
    BY DEF Begin
  <1>2. v \in UiType
    BY DEF Starts
  <1>3. Sets(u, v.busy, v.scanning, FALSE, v.listed, v.busyId, v.number, v.draft)
    BY <1>2, UiFields
  <1>4. screen.name = m /\ ui' = u /\ UNCHANGED <<screen, userId, late, saved, pending>>
    BY DEF Begin, At, Rendered
  <1>5. JobOK(j, screen.name) /\ j.live /\ j.does = does
    BY <1>4 DEF JobOK, Job, JobType, Does, BusyDoes
  <1>6. m \notin {"devices", "safety"}
    BY DEF HomeOf, BusyDoes
  <1> HIDE DEF u, j
  <1> QED
    BY <1>1, <1>3, <1>4, <1>5, <1>6, StartStays DEF Sets, Starts

LEMMA BeginStep ==
    ASSUME ScreensInv,
           HandleRequestCode \/ HandleVerify \/ HandleLink \/ HandleFind \/ HandleScan \/ Generate
    PROVE  ScreensInv'
  <1>0. ui \in UiType
    BY DEF ScreensInv, ScreensTyped
  <1>1. /\ \A does \in BusyDoes : Starts(does, [ui EXCEPT !.busy = TRUE])
        /\ Starts("scan", [ui EXCEPT !.scanning = TRUE, !.matches = {}])
    <2> DEFINE u == [ui EXCEPT !.busy = TRUE]
               v == [ui EXCEPT !.scanning = TRUE, !.matches = {}]
    <2>1. /\ Sets(u, TRUE, ui.scanning, ui.error, ui.listed, ui.busyId, ui.number, ui.draft)
          /\ Sets(v, ui.busy, TRUE, ui.error, ui.listed, ui.busyId, ui.number, ui.draft)
      BY <1>0, UiFields, UiPairs
    <2> HIDE DEF u, v
    <2>2. (\A does \in BusyDoes : Starts(does, u)) /\ Starts("scan", v)
      BY <2>1 DEF Sets, Starts
    <2> QED
      BY <2>2 DEF u, v
  <1>2. ASSUME NEW m, At(m), NEW does \in BusyDoes, HomeOf(does) = m,
               Begin(does, None, [ui EXCEPT !.busy = TRUE])
        PROVE  ScreensInv'
    BY <1>1, <1>2, BeginStays
  <1>3. CASE HandleRequestCode \/ HandleVerify \/ HandleLink
    BY <1>2, <1>3 DEF HandleRequestCode, HandleVerify, HandleLink, Free, HomeOf, BusyDoes
  <1>4. CASE HandleFind \/ Generate
    BY <1>2, <1>4 DEF HandleFind, Generate, HomeOf, BusyDoes
  <1>5. CASE HandleScan
    <2>1. HomeOf("scan") = "contacts" /\ At("contacts")
          /\ Begin("scan", None, [ui EXCEPT !.scanning = TRUE, !.matches = {}])
      BY <1>5 DEF HandleScan, HomeOf
    <2> QED
      BY <1>1, <2>1, BeginStays
  <1> QED
    BY <1>3, <1>4, <1>5

\* An Alert is answered: revoke, sign out, delete the account.
LEMMA ConfirmedStep ==
    ASSUME ScreensInv, (\E d \in Devices : Revoke(d)) \/ SignOut \/ DeleteAccount
    PROVE  ScreensInv'
  <1>0. ui \in UiType
    BY DEF ScreensInv, ScreensTyped
  <1>1. CASE SignOut \/ DeleteAccount
    <2>1. PICK does \in {"leave", "delete"}, at \in {"wipe", "call"} :
              /\ Confirmed(does, None, at) /\ (at = "wipe" => does = "leave")
              /\ UNCHANGED <<screen, userId, ui, late, saved, pending>>
      BY <1>1 DEF SignOut, DeleteAccount
    <2> DEFINE live == Rendered("settings")
               j == [does |-> does, at |-> at, arg |-> None, live |-> live]
    <2>2. PICK k \in Slots : job[k] = Idle /\ job' = [job EXCEPT ![k] = j]
      BY <2>1 DEF Confirmed
    <2>3. live \in BOOLEAN /\ (live => screen.name = "settings")
      BY Zenon DEF Rendered
    <2> HIDE DEF live
    <2>4. JobOK(j, screen.name)
      BY <2>1, <2>3 DEF JobOK, JobType, Does, HomeOf
    <2> HIDE DEF j
    <2> QED
      BY <1>0, <2>1, <2>2, <2>4, StartStays
  <1>2. ASSUME NEW d \in Devices, Revoke(d)
        PROVE  ScreensInv'
    <2> DEFINE live == Rendered("devices")
               j == [does |-> "revoke", at |-> "call", arg |-> d, live |-> live]
               u == [ui EXCEPT !.busyId = d, !.error = FALSE]
    <2>2. PICK k \in Slots : job[k] = Idle /\ job' = [job EXCEPT ![k] = j]
      BY <1>2 DEF Revoke, Confirmed
    <2>3. live \in BOOLEAN /\ (live => screen.name = "devices")
      BY Zenon DEF Rendered
    <2>4. Sets(u, ui.busy, ui.scanning, FALSE, ui.listed, d, ui.number, ui.draft)
      BY <1>0, UiPairs
    <2>5. ui' = (IF live THEN u ELSE ui) /\ UNCHANGED <<screen, userId, late, saved, pending>>
      BY <1>2 DEF Revoke
    <2> HIDE DEF live
    <2>6. JobOK(j, screen.name) /\ j.does = "revoke" /\ j.arg = d /\ j.live = live
      BY <2>3 DEF JobOK, JobType, Does, HomeOf
    <2> HIDE DEF j, u
    <2>7. CASE live
      BY <2>2, <2>4, <2>5, <2>6, <2>7, StartStays DEF Sets
    <2>8. CASE ~live
      BY <1>0, <2>2, <2>5, <2>6, <2>8, StartStays
    <2> QED
      BY <2>7, <2>8
  <1> QED
    BY <1>1, <1>2

\* The rest changes neither the screen nor the handlers, or starts over.
LEMMA OtherStep ==
    ASSUME ScreensInv,
           \/ Restart \/ ConfirmSignOut \/ ConfirmDeleteAccount \/ Cancel
           \/ \E d \in Devices : ConfirmRevoke(d)
           \/ \E p \in Peers : Incoming(p)
           \/ UNCHANGED vars
    PROVE  ScreensInv'
  <1>1. CASE Restart
    <2>1. PICK k \in Slots : job' = [i \in Slots |-> IF i = k THEN Job("launch", None) ELSE Idle]
      BY <1>1 DEF Restart
    <2>2. /\ screen' = [name |-> "splash", peer |-> None] /\ userId' = None /\ ui' = Fresh
          /\ pending' = None /\ late' = FALSE /\ saved' = saved
      BY <1>1 DEF Restart
    <2>3. JobOK(Job("launch", None), "splash") /\ JobOK(Idle, "splash")
      BY IdleOK DEF JobOK, Job, JobType, Does, HomeOf
    <2>4. JobsOK(job', "splash") /\ LiveIn(job', "launch")
      BY <2>1, <2>3 DEF JobsOK, LiveIn, Job
    <2>5. Spin("splash", Fresh, job')
      BY <2>4 DEF Spin, Fresh
    <2> QED
      BY <2>2, <2>4, <2>5, FreshTyped
      DEF ScreensInv, ScreensTyped, Honest, Fresh, Names, Chats, Public
  <1>2. CASE UNCHANGED <<screen, userId, ui, job, saved, pending, late>>
    BY <1>2 DEF ScreensInv, ScreensTyped, Honest
  <1> QED
    BY <1>1, <1>2 DEF ConfirmSignOut, ConfirmDeleteAccount, ConfirmRevoke, Ask, Cancel, Incoming, vars

LEMMA ScreensStep == ScreensInv /\ [Next]_vars => ScreensInv'
  <1> SUFFICES ASSUME ScreensInv, [Next]_vars PROVE ScreensInv'
    OBVIOUS
  <1>1. ASSUME NEW n \in {"home", "contacts", "newgroup", "starred", "settings"}, MenuItem(n)
        PROVE  \/ At("home") /\ Show([ui EXCEPT !.menu = FALSE])
               \/ \E m \in {"contacts", "newgroup", "starred", "settings"} :
                      At("home") /\ Goto(m, None)
    BY <1>1 DEF MenuItem
  <1> QED
    BY <1>1, RequestStep, VerifyLinkStep, SavedStep, FindStep, ScanStep, NumberStep, GenerateStep,
       LoadStep, RevokeBackStep, LeaveStep, ShellStep, TapStep, ShowStep, BeginStep, ConfirmedStep,
       OtherStep DEF Next

LEMMA ScreensStart == Init => ScreensInv
  <1> SUFFICES ASSUME Init PROVE ScreensInv
    OBVIOUS
  <1>1. PICK k \in Slots : job = [i \in Slots |-> IF i = k THEN Job("launch", None) ELSE Idle]
    BY DEF Init
  <1>2. JobOK(Job("launch", None), "splash") /\ JobOK(Idle, "splash")
    BY IdleOK DEF JobOK, Job, JobType, Does, HomeOf
  <1>3. JobsOK(job, "splash") /\ LiveIn(job, "launch")
    BY <1>1, <1>2 DEF JobsOK, LiveIn, Job
  <1>4. Spin("splash", Fresh, job)
    BY <1>3 DEF Spin, Fresh
  <1> QED
    BY <1>3, <1>4, FreshTyped
    DEF Init, ScreensInv, ScreensTyped, Honest, Fresh, Names, Chats, Public

-----------------------------------------------------------------------------
\* The splash, every busy button and spinner, the empty list of devices and the
\* number that is being computed have a handler of the mounted screen that will end
\* them, for any number of handlers suspended at a time.
THEOREM SpinnersEnd == Spec => []SpinnerHasHandler
  <1>1. ScreensInv => SpinnerHasHandler
    BY SpinIs DEF ScreensInv
  <1> QED
    BY <1>1, ScreensStart, ScreensStep, PTL DEF Spec

\* Only handleFind, answering after its screen was left, leads to a screen that App
\* does not render, to a chat without an account or to a draft under another name.
THEOREM OnlyLateFind == Spec => []OnlyLateFindMisleads
  <1>1. ScreensInv => OnlyLateFindMisleads
    BY DEF ScreensInv, ScreensTyped, Honest, OnlyLateFindMisleads, Blank, Rendered, Guarded,
           Public, Names
  <1> QED
    BY <1>1, ScreensStart, ScreensStep, PTL DEF Spec
=============================================================================
