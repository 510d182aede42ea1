----------------------------- MODULE CallProofs -----------------------------
(***************************************************************************)
(* What is proved of the call manager, for any users, call ids, suspended  *)
(* functions, kinds of tracks and length of the log.                       *)
(***************************************************************************)
EXTENDS Call, SequenceTheorems, TLAPS

-----------------------------------------------------------------------------
(* The pieces of the manager.                                              *)

\* What the invariants say of one manager.
Answerable(x) ==
    x.status = "incoming" =>
        x.direction = "incoming" /\ x.offer /\ x.callId # None /\ x.peerId # None

Handed(x) == x.pc = "remote" => x.ice = {}

\* A manager with a peer has a call: what a signal to that peer carries.
Named(x) == x.peerId # None => x.callId # None

Good(x) == x \in Manager /\ Answerable(x) /\ Handed(x) /\ Named(x)

CallInv == TypeOK /\ \A u \in Users : Good(m[u])

\* What a step may do to the call of a manager.
Owned(x, y) ==
    x.callId # None /\ y.callId \notin {x.callId, None}
        => y.direction = "outgoing" /\ y.status = "outgoing"

OnlyOwn == \A u \in Users : Owned(m[u], m'[u])

\* The fields the properties speak of; a task alone changes none of them.
SameCall(x, y) ==
    /\ y.pc = x.pc /\ y.ice = x.ice /\ y.offer = x.offer /\ y.local = x.local
    /\ y.callId = x.callId /\ y.peerId = x.peerId
    /\ y.direction = x.direction /\ y.status = x.status

\* A manager that differs in its tasks is as good.
LEMMA SameIsGood ==
    ASSUME NEW x, NEW y, Good(x), y \in Manager, SameCall(x, y)
    PROVE  Good(y)
  BY DEF Good, Answerable, Handed, Named, SameCall

\* The log takes an entry and keeps its type.
LEMMA AddLogTyped ==
    ASSUME NEW x \in Manager, NEW outcome \in LogEntry
    PROVE  AddLog(x, outcome) \in Seq(LogEntry)
  <1> DEFINE log == <<outcome>> \o x.log
             n == Min({Len(log), LogMax})
  <1>1. x.log \in Seq(LogEntry)
    BY DEF Manager
  <1>2. log \in Seq(LogEntry) /\ Len(log) \in Nat /\ LogMax \in Nat
    BY <1>1, CallAssumption
  <1> HIDE DEF log
  <1>3. n \in Nat /\ n <= Len(log)
    <2>1. \E k \in {Len(log), LogMax} : \A j \in {Len(log), LogMax} : k =< j
      <3>1. CASE Len(log) <= LogMax
        BY <1>2, <3>1
      <3>2. CASE ~(Len(log) <= LogMax)
        BY <1>2, <3>2
      <3> QED
        BY <3>1, <3>2
    <2>2. n \in {Len(log), LogMax} /\ \A j \in {Len(log), LogMax} : n =< j
      BY <2>1 DEF Min
    <2> QED
      BY <1>2, <2>2
  <1> HIDE DEF n
  <1>4. SubSeq(log, 1, n) \in Seq(LogEntry)
    BY <1>2, <1>3
  <1> QED
    BY <1>1, <1>4 DEF AddLog, log, n

\* A task that is suspended, moved on or ended changes nothing else.
LEMMA SuspendSame ==
    ASSUME NEW x \in Manager, NEW s \in Slots, NEW t \in Tasks
    PROVE  /\ [x EXCEPT !.tasks[s] = t] \in Manager
           /\ SameCall(x, [x EXCEPT !.tasks[s] = t])
  BY DEF Manager, SameCall

LEMMA TaskSame ==
    ASSUME NEW x \in Manager, NEW s \in Slots
    PROVE  /\ Ends(x, s) \in Manager /\ SameCall(x, Ends(x, s))
           /\ \A at \in {"media", "offer", "remote", "drain", "answer", "local"} :
                Goto(x, s, at) \in Manager /\ SameCall(x, Goto(x, s, at))
  <1>1. Idle \in Tasks
    BY DEF Idle, Tasks
  <1>2. x.tasks[s] \in Tasks
    BY DEF Manager
  <1>3. ASSUME NEW at \in {"media", "offer", "remote", "drain", "answer", "local"}
        PROVE  [op |-> x.tasks[s].op, at |-> at, peer |-> None, own |-> at = "remote"] \in Tasks
    BY <1>2 DEF Tasks
  <1> QED
    BY <1>1, <1>3, SuspendSame DEF Ends, Goto, Suspend

\* Closing or replacing the peer connection keeps every task's type.
LEMMA DisownedTyped ==
    ASSUME NEW x \in Manager
    PROVE  Disowned(x) \in [Slots -> Tasks]
  BY DEF Disowned, Manager, Tasks

\* The record finish makes, of values of the right types.
LEMMA FinishTyped ==
    ASSUME NEW x \in Manager, NEW log \in Seq(LogEntry), NEW tasks \in [Slots -> Tasks],
           NEW stray \in BOOLEAN, NEW timers \in Nat
    PROVE  [x EXCEPT !.log = log, !.stray = stray,
                     !.pc = None, !.local = None, !.callId = None, !.peerId = None,
                     !.answered = FALSE, !.ice = {}, !.offer = FALSE,
                     !.tasks = tasks, !.status = "ended", !.timers = timers] \in Manager
  BY DEF Manager

\* finish leaves no call, no peer connection and no queue behind.
LEMMA FinishGood ==
    ASSUME NEW x \in Manager, NEW outcome \in LogEntry
    PROVE  Good(Finish(x, outcome)) /\ Finish(x, outcome).callId = None
  <1>1. AddLog(x, outcome) \in Seq(LogEntry) /\ Disowned(x) \in [Slots -> Tasks]
    BY AddLogTyped, DisownedTyped
  <1>2. (x.stray \/ x.pc # None) \in BOOLEAN /\ x.timers + 1 \in Nat
    BY DEF Manager
  <1>3. Finish(x, outcome) \in Manager
    BY <1>1, <1>2, FinishTyped, Zenon DEF Finish
  <1>4. /\ Finish(x, outcome).status = "ended" /\ Finish(x, outcome).ice = {}
        /\ Finish(x, outcome).callId = None /\ Finish(x, outcome).peerId = None
    BY DEF Finish, Manager
  <1> QED
    BY <1>3, <1>4 DEF Good, Answerable, Handed, Named

\* The overlay shows "ended", or nothing, with another number of resets armed.
LEMMA OverlayGood ==
    ASSUME NEW x, Good(x), NEW timers \in Nat
    PROVE  /\ Good([x EXCEPT !.status = "ended", !.timers = timers])
           /\ [x EXCEPT !.status = "ended", !.timers = timers].callId = x.callId
           /\ Good(Reset([x EXCEPT !.timers = timers]))
           /\ Reset([x EXCEPT !.timers = timers]).callId = x.callId
  <1> DEFINE y == [x EXCEPT !.status = "ended", !.timers = timers]
             w == [x EXCEPT !.timers = timers]
             z == [w EXCEPT !.status = "idle", !.off = {}]
  <1>1. x \in Manager
    BY DEF Good
  <1>2. /\ y \in Manager /\ y.status = "ended" /\ y.pc = x.pc /\ y.ice = x.ice
        /\ y.callId = x.callId /\ y.peerId = x.peerId
    BY <1>1 DEF Manager
  <1>3. w \in Manager /\ w.pc = x.pc /\ w.ice = x.ice /\ w.callId = x.callId /\ w.peerId = x.peerId
    BY <1>1 DEF Manager
  <1> HIDE DEF w
  <1>4. /\ z \in Manager /\ z.status = "idle" /\ z.pc = w.pc /\ z.ice = w.ice
        /\ z.callId = w.callId /\ z.peerId = w.peerId
    BY <1>3 DEF Manager
  <1> HIDE DEF y, z
  <1>5. Good(y) /\ Good(z)
    BY <1>2, <1>3, <1>4 DEF Good, Answerable, Handed, Named
  <1> QED
    BY <1>2, <1>3, <1>4, <1>5 DEF Reset, y, z, w

\* A new peer connection has no remote description.
LEMMA NewGood ==
    ASSUME NEW x, Good(x)
    PROVE  /\ Good(NewPeerConnection(x))
           /\ NewPeerConnection(x).pc = "new"
           /\ NewPeerConnection(x).callId = x.callId
  <1>1. Disowned(x) \in [Slots -> Tasks]
    BY DisownedTyped DEF Good
  <1> QED
    BY <1>1 DEF NewPeerConnection, Good, Manager, Answerable, Handed, Named

-----------------------------------------------------------------------------
(* Steps.                                                                  *)

\* A step that gives one manager a good record keeps the invariant.
LEMMA UpdateKeeps ==
    ASSUME CallInv, NEW u \in Users, NEW x, Good(x), Owned(m[u], x), Update(u, x),
           net' \subseteq Signals, fresh' \subseteq fresh
    PROVE  CallInv' /\ OnlyOwn
  <1>1. m \in [Users -> Manager] /\ x \in Manager /\ m' = [m EXCEPT ![u] = x]
    BY DEF CallInv, TypeOK, Good, Update
  <1>2. \A v \in Users : m'[v] = IF v = u THEN x ELSE m[v]
    BY <1>1
  <1>3. TypeOK'
    BY <1>1 DEF CallInv, TypeOK
  <1>4. \A v \in Users : Good(m'[v])
    BY <1>2 DEF CallInv
  <1>5. \A v \in Users : Owned(m[v], m'[v])
    BY <1>2 DEF Owned
  <1> QED
    BY <1>3, <1>4, <1>5 DEF CallInv, OnlyOwn

\* A step that changes only tasks does too.
LEMMA TaskKeeps ==
    ASSUME CallInv, NEW u \in Users, NEW x \in Manager, SameCall(m[u], x), Update(u, x),
           net' \subseteq Signals, fresh' \subseteq fresh
    PROVE  CallInv' /\ OnlyOwn
  <1>1. Good(x)
    BY SameIsGood DEF CallInv
  <1>2. Owned(m[u], x)
    BY DEF SameCall, Owned
  <1> QED
    BY <1>1, <1>2, UpdateKeeps

\* A step that changes no manager.
LEMMA NetKeeps ==
    ASSUME CallInv, m' = m, net' \subseteq Signals, fresh' \subseteq fresh
    PROVE  CallInv' /\ OnlyOwn
  <1>1. TypeOK'
    BY DEF CallInv, TypeOK
  <1>2. OnlyOwn
    BY DEF OnlyOwn, Owned
  <1>3. \A u \in Users : Good(m'[u])
    BY DEF CallInv
  <1> QED
    BY <1>1, <1>2, <1>3 DEF CallInv

\* A signal to the peer names the call.
LEMMA SignalPeerTyped ==
    ASSUME CallInv, NEW u \in Users,
           NEW type \in {"ring", "accept", "ice", "decline", "hangup"}
    PROVE  net \union SignalPeer(u, type) \subseteq Signals
  <1>1. m[u] \in Manager /\ Named(m[u]) /\ net \subseteq Signals
    BY DEF CallInv, Good, TypeOK
  <1>2. m[u].peerId # None => m[u].peerId \in Users /\ m[u].callId \in CallIds
    BY <1>1 DEF Manager, Named
  <1> QED
    BY <1>1, <1>2 DEF SignalPeer, Signal, Signals

\* finish as a step.
LEMMA FinishKeeps ==
    ASSUME CallInv, NEW u \in Users, NEW x \in Manager, NEW outcome \in LogEntry,
           Update(u, Finish(x, outcome)), net' \subseteq Signals, fresh' \subseteq fresh
    PROVE  CallInv' /\ OnlyOwn
  <1>1. Good(Finish(x, outcome)) /\ Owned(m[u], Finish(x, outcome))
    BY FinishGood DEF Owned
  <1> QED
    BY <1>1, UpdateKeeps

\* start: its awaits and its end.
LEMMA StartKeeps ==
    ASSUME CallInv, NEW u \in Users, NEW s \in Slots,
           \/ \E p \in Users : TapStart(u, p, s)
           \/ \E c \in CallIds : StartPermitted(u, s, c)
           \/ StartDenied(u, s)
    PROVE  CallInv' /\ OnlyOwn
  <1>1. m[u] \in Manager /\ Good(m[u]) /\ net \subseteq Signals /\ fresh \subseteq CallIds
    BY DEF CallInv, TypeOK
  <1>2. ASSUME NEW p \in Users, TapStart(u, p, s)
        PROVE  CallInv' /\ OnlyOwn
    <2>1. [op |-> "start", at |-> "perm", peer |-> p, own |-> FALSE] \in Tasks
      BY DEF Tasks
    <2>2. /\ Suspend(m[u], s, "start", "perm", p, FALSE) \in Manager
          /\ SameCall(m[u], Suspend(m[u], s, "start", "perm", p, FALSE))
      BY <1>1, <2>1, SuspendSame DEF Suspend
    <2> QED
      BY <1>1, <1>2, <2>2, TaskKeeps DEF TapStart
  <1>3. ASSUME NEW c \in CallIds, StartPermitted(u, s, c)
        PROVE  CallInv' /\ OnlyOwn
    <2> DEFINE x == NewPeerConnection(m[u])
               y == [x EXCEPT !.callId = c, !.peerId = m[u].tasks[s].peer,
                              !.direction = "outgoing", !.answered = FALSE,
                              !.status = "outgoing", !.off = {}]
               z == Goto(y, s, "media")
    <2>1. Good(x) /\ x.pc = "new"
      BY <1>1, NewGood
    <2>2. m[u].tasks[s].peer \in Users \union {None}
      BY <1>1 DEF Manager, Tasks
    <2> HIDE DEF x
    <2>3. /\ y \in Manager /\ y.pc = "new" /\ y.callId = c
          /\ y.status = "outgoing" /\ y.direction = "outgoing"
      BY <2>1, <2>2 DEF Good, Manager
    <2> HIDE DEF y
    <2>4. z \in Manager /\ SameCall(y, z)
      BY <2>3, TaskSame
    <2>5. Good(y)
      BY <2>3, CallAssumption DEF Good, Answerable, Handed, Named
    <2>6. Good(z) /\ Owned(m[u], z)
      BY <2>3, <2>4, <2>5, SameIsGood DEF Owned, SameCall
    <2>7. Update(u, z) /\ fresh' \subseteq fresh /\ net' = net
      BY <1>3 DEF StartPermitted, x, y
    <2> HIDE DEF z
    <2> QED
      BY <1>1, <2>6, <2>7, UpdateKeeps
  <1>4. CASE StartDenied(u, s)
    <2> DEFINE y == [m[u] EXCEPT !.status = "ended", !.timers = @ + 1]
    <2>1. m[u].timers + 1 \in Nat
      BY <1>1 DEF Manager
    <2>2. Good(y) /\ y.callId = m[u].callId
      BY <1>1, <2>1, OverlayGood, Zenon
    <2>3. Update(u, Ends(y, s)) /\ fresh' = fresh /\ net' = net
      BY <1>4 DEF StartDenied
    <2> HIDE DEF y
    <2>4. y \in Manager
      BY <2>2 DEF Good
    <2>5. Good(Ends(y, s)) /\ Owned(m[u], Ends(y, s))
      BY <2>2, <2>4, TaskSame, SameIsGood DEF Owned, SameCall
    <2> QED
      BY <1>1, <2>3, <2>5, UpdateKeeps
  <1> QED
    BY <1>2, <1>3, <1>4

\* The awaits that start and accept share, and their failures.
LEMMA AwaitKeeps ==
    ASSUME CallInv, NEW u \in Users, NEW s \in Slots,
           MediaReady(u, s) \/ DescriptionReady(u, s) \/ OfferSet(u, s) \/ TaskFails(u, s)
    PROVE  CallInv' /\ OnlyOwn
  <1>1. m[u] \in Manager /\ Good(m[u]) /\ net \subseteq Signals /\ fresh \subseteq CallIds
    BY DEF CallInv, TypeOK
  <1>2. CASE MediaReady(u, s)
    <2> DEFINE x == [m[u] EXCEPT !.local = Kinds]
               isStart == x.tasks[s].op = "start"
    <2>1. /\ x \in Manager /\ x.status = m[u].status /\ x.pc = m[u].pc /\ x.ice = m[u].ice
          /\ x.callId = m[u].callId /\ x.peerId = m[u].peerId
          /\ x.direction = m[u].direction /\ x.offer = m[u].offer
      BY <1>1 DEF Manager
    <2>2. PICK y \in {Ends(x, s), Goto(x, s, "offer"), Goto(x, s, "remote")} :
            Update(u, y) /\ net' = net /\ fresh' = fresh
      <3>1. Update(u, IF x.pc = None \/ (~isStart /\ ~x.offer) THEN Ends(x, s)
                      ELSE Goto(x, s, IF isStart THEN "offer" ELSE "remote"))
        BY <1>2 DEF MediaReady
      <3>2. net' = net /\ fresh' = fresh
        BY <1>2 DEF MediaReady
      <3> HIDE DEF x, isStart
      <3> QED
        BY <3>1, <3>2
    <2> HIDE DEF x
    <2>3. Good(x)
      BY <1>1, <2>1 DEF Good, Answerable, Handed, Named
    <2>4. y \in Manager /\ SameCall(x, y)
      BY <2>1, <2>2, TaskSame
    <2>5. Good(y) /\ Owned(m[u], y)
      BY <2>1, <2>3, <2>4, SameIsGood DEF SameCall, Owned
    <2> QED
      BY <1>1, <2>2, <2>5, UpdateKeeps
  <1>3. CASE DescriptionReady(u, s)
    BY <1>1, <1>3, TaskSame, TaskKeeps DEF DescriptionReady
  <1>4. CASE OfferSet(u, s)
    BY <1>1, <1>4, TaskSame, TaskKeeps, SignalPeerTyped DEF OfferSet
  <1>5. CASE TaskFails(u, s)
    BY <1>1, <1>5, TaskSame, TaskKeeps DEF TaskFails
  <1> QED
    BY <1>2, <1>3, <1>4, <1>5

\* accept: its awaits and its end.
LEMMA AcceptKeeps ==
    ASSUME CallInv, NEW u \in Users, NEW s \in Slots,
           \/ TapAccept(u, s) \/ AcceptPermitted(u, s) \/ AcceptDenied(u, s)
           \/ RemoteSet(u, s) \/ Drained(u, s) \/ AnswerSet(u, s)
    PROVE  CallInv' /\ OnlyOwn
  <1>1. m[u] \in Manager /\ Good(m[u]) /\ net \subseteq Signals /\ fresh \subseteq CallIds
    BY DEF CallInv, TypeOK
  <1>2. CASE TapAccept(u, s)
    <2>1. [op |-> "accept", at |-> "perm", peer |-> None, own |-> FALSE] \in Tasks
      BY DEF Tasks
    <2>2. /\ Suspend(m[u], s, "accept", "perm", None, FALSE) \in Manager
          /\ SameCall(m[u], Suspend(m[u], s, "accept", "perm", None, FALSE))
      BY <1>1, <2>1, SuspendSame DEF Suspend
    <2> QED
      BY <1>1, <1>2, <2>2, TaskKeeps DEF TapAccept
  <1>3. CASE AcceptPermitted(u, s)
    <2> DEFINE x == NewPeerConnection(m[u])
    <2>1. Good(x) /\ x.callId = m[u].callId
      BY <1>1, NewGood
    <2>2. Update(u, Goto(x, s, "media")) /\ net' = net /\ fresh' = fresh
      BY <1>3 DEF AcceptPermitted
    <2> HIDE DEF x
    <2>3. x \in Manager
      BY <2>1 DEF Good
    <2>4. Good(Goto(x, s, "media")) /\ Owned(m[u], Goto(x, s, "media"))
      BY <2>1, <2>3, TaskSame, SameIsGood DEF SameCall, Owned
    <2> QED
      BY <1>1, <2>2, <2>4, UpdateKeeps
  <1>4. CASE AcceptDenied(u, s)
    <2>1. Ends(m[u], s) \in Manager /\ "declined" \in LogEntry
      BY <1>1, TaskSame DEF LogEntry
    <2> QED
      BY <1>4, <2>1, FinishKeeps, SignalPeerTyped DEF AcceptDenied, Decline
  <1>5. CASE RemoteSet(u, s)
    <2> DEFINE x == [m[u] EXCEPT !.pc = IF m[u].tasks[s].own THEN "remote" ELSE @]
               y == IF x.pc = None THEN x ELSE [x EXCEPT !.ice = {}]
    <2>1. /\ x \in Manager /\ x.status = m[u].status /\ x.ice = m[u].ice
          /\ x.callId = m[u].callId /\ x.peerId = m[u].peerId
          /\ x.direction = m[u].direction /\ x.offer = m[u].offer
          /\ x.pc \in {m[u].pc, "remote"}
      BY <1>1 DEF Manager
    <2>2. Update(u, Goto(y, s, "drain")) /\ net' = net /\ fresh' = fresh
      BY <1>5 DEF RemoteSet
    <2> HIDE DEF x
    <2>3. /\ y \in Manager /\ y.status = x.status /\ y.callId = x.callId /\ y.peerId = x.peerId
          /\ y.direction = x.direction /\ y.offer = x.offer /\ y.pc = x.pc
          /\ (y.ice = {} \/ (x.pc = None /\ y.ice = x.ice))
      BY <2>1 DEF Manager
    <2> HIDE DEF y
    <2>4. Handed(y)
      <3>1. CASE y.ice = {}
        BY <3>1 DEF Handed
      <3>2. CASE x.pc = None /\ y.ice = x.ice
        BY <2>3, <3>2, CallAssumption DEF Handed
      <3> QED
        BY <2>3, <3>1, <3>2
    <2>5. Good(y)
      BY <1>1, <2>1, <2>3, <2>4 DEF Good, Answerable, Named
    <2>6. Good(Goto(y, s, "drain")) /\ Owned(m[u], Goto(y, s, "drain"))
      <3> DEFINE z == Goto(y, s, "drain")
      <3>1. z \in Manager /\ SameCall(y, z)
        BY <2>3, TaskSame
      <3> HIDE DEF z
      <3>2. Good(z)
        BY <2>5, <3>1, SameIsGood
      <3>3. z.callId = m[u].callId
        BY <2>1, <2>3, <3>1 DEF SameCall
      <3>4. Owned(m[u], z)
        BY <3>3 DEF Owned
      <3> QED
        BY <3>2, <3>4 DEF z
    <2> QED
      BY <1>1, <2>2, <2>6, UpdateKeeps
  <1>6. CASE Drained(u, s) \/ AnswerSet(u, s)
    <2> DEFINE x == [m[u] EXCEPT !.answered = TRUE, !.status = "active"]
    <2>1. /\ x \in Manager /\ x.status = "active" /\ x.pc = m[u].pc /\ x.ice = m[u].ice
          /\ x.callId = m[u].callId /\ x.peerId = m[u].peerId
      BY <1>1 DEF Manager
    <2>2. /\ net' \in {net, net \union SignalPeer(u, "accept")} /\ fresh' = fresh
          /\ Update(u, Ends(x, s)) \/ Update(u, Ends(m[u], s)) \/ Update(u, Goto(m[u], s, "answer"))
      BY <1>6, Zenon DEF Drained, AnswerSet
    <2> HIDE DEF x
    <2>3. Good(x)
      BY <1>1, <2>1 DEF Good, Answerable, Handed, Named
    <2>4. Good(Ends(x, s)) /\ Owned(m[u], Ends(x, s))
      BY <2>1, <2>3, TaskSame, SameIsGood DEF SameCall, Owned
    <2>5. net' \subseteq Signals
      BY <1>1, <2>2, SignalPeerTyped
    <2>6. CASE Update(u, Ends(x, s))
      BY <2>2, <2>4, <2>5, <2>6, UpdateKeeps
    <2>7. CASE Update(u, Ends(m[u], s)) \/ Update(u, Goto(m[u], s, "answer"))
      BY <1>1, <2>2, <2>5, <2>7, TaskSame, TaskKeeps
    <2> QED
      BY <2>2, <2>6, <2>7
  <1> QED
    BY <1>2, <1>3, <1>4, <1>5, <1>6

\* The buttons and the toggles of the overlay.
LEMMA TapKeeps ==
    ASSUME CallInv, NEW u \in Users,
           TapDecline(u) \/ TapHangup(u) \/ \E k \in Kinds : Toggle(u, k)
    PROVE  CallInv' /\ OnlyOwn
  <1>1. m[u] \in Manager /\ Good(m[u]) /\ net \subseteq Signals /\ fresh \subseteq CallIds
    BY DEF CallInv, TypeOK
  <1>2. "declined" \in LogEntry /\ Outcome(m[u], "missed") \in LogEntry
    BY DEF LogEntry, Outcome
  <1>3. CASE TapDecline(u)
    BY <1>1, <1>2, <1>3, FinishKeeps, SignalPeerTyped DEF TapDecline, Decline
  <1>4. CASE TapHangup(u)
    BY <1>1, <1>2, <1>4, FinishKeeps, SignalPeerTyped DEF TapHangup
  <1>5. ASSUME NEW k \in Kinds, Toggle(u, k)
        PROVE  CallInv' /\ OnlyOwn
    <2> DEFINE l == IF k \in m[u].local THEN m[u].local \ {k} ELSE m[u].local \union {k}
               o == IF k \in m[u].local THEN m[u].off \union {k} ELSE m[u].off \ {k}
    <2>1. /\ l \in SUBSET Kinds /\ o \in SUBSET Kinds
          /\ Update(u, [m[u] EXCEPT !.local = l, !.off = o]) /\ net' = net /\ fresh' = fresh
      <3>1. m[u].local \in SUBSET Kinds /\ m[u].off \in SUBSET Kinds
        BY <1>1, <1>5 DEF Manager, Toggle
      <3>2. Update(u, [m[u] EXCEPT !.local = l, !.off = o]) /\ net' = net /\ fresh' = fresh
        BY <1>5, Zenon DEF Toggle
      <3> QED
        BY <3>1, <3>2
    <2> HIDE DEF l, o
    <2> DEFINE x == [m[u] EXCEPT !.local = l, !.off = o]
    <2>2. /\ x \in Manager /\ x.status = m[u].status /\ x.pc = m[u].pc /\ x.ice = m[u].ice
          /\ x.callId = m[u].callId /\ x.peerId = m[u].peerId
          /\ x.direction = m[u].direction /\ x.offer = m[u].offer
      BY <1>1, <2>1 DEF Manager
    <2>3. Update(u, x) /\ net' = net /\ fresh' = fresh
      BY <2>1
    <2> HIDE DEF x
    <2>4. Good(x) /\ Owned(m[u], x)
      BY <1>1, <2>2 DEF Good, Answerable, Handed, Named, Owned
    <2> QED
      BY <1>1, <2>3, <2>4, UpdateKeeps
  <1> QED
    BY <1>3, <1>4, <1>5

\* Inbound signals.
LEMMA SignalKeeps ==
    ASSUME CallInv, NEW u \in Users, NEW g \in net, OnSignal(u, g)
    PROVE  CallInv' /\ OnlyOwn
  <1>1. m[u] \in Manager /\ Good(m[u]) /\ net \subseteq Signals /\ fresh' = fresh
    BY DEF CallInv, TypeOK, OnSignal
  <1>2. g \in Signals /\ g.from \in Users /\ g.callId \in CallIds
    BY <1>1 DEF Signals
  <1>3. Receive(g) => net' \subseteq Signals
    BY <1>1 DEF Receive
  <1>4. CASE OnRing(u, g)
    <2>1. CASE m[u].pc # None \/ m[u].callId # None
      <3>1. m' = m /\ net' = (net \ {g}) \union {Signal("decline", u, g.from, g.callId)}
        BY <1>4, <2>1 DEF OnRing
      <3>2. net' \subseteq Signals
        BY <1>1, <1>2, <3>1 DEF Signal, Signals
      <3> QED
        BY <1>1, <3>1, <3>2, NetKeeps
    <2>2. CASE m[u].pc = None /\ m[u].callId = None
      <3> DEFINE x == [m[u] EXCEPT !.callId = g.callId, !.peerId = g.from,
                                   !.direction = "incoming", !.offer = TRUE,
                                   !.status = "incoming", !.off = {}]
      <3>1. Receive(g) /\ Update(u, x)
        BY <1>4, <2>2 DEF OnRing
      <3>2. /\ x \in Manager /\ x.status = "incoming" /\ x.pc = m[u].pc /\ x.ice = m[u].ice
            /\ x.callId = g.callId /\ x.peerId = g.from
            /\ x.direction = "incoming" /\ x.offer = TRUE
        BY <1>1, <1>2 DEF Manager
      <3> HIDE DEF x
      <3>3. Good(x) /\ Owned(m[u], x)
        BY <1>1, <1>2, <2>2, <3>2, CallAssumption DEF Good, Answerable, Handed, Named, Owned
      <3> QED
        BY <1>1, <1>3, <3>1, <3>3, UpdateKeeps
    <2> QED
      BY <2>1, <2>2
  <1>5. CASE OnAccept(u, g)
    <2>1. ASSUME NEW s \in Slots, Update(u, Suspend(m[u], s, "accepted", "remote", None, TRUE)),
                 Receive(g)
          PROVE  CallInv' /\ OnlyOwn
      <3>1. [op |-> "accepted", at |-> "remote", peer |-> None, own |-> TRUE] \in Tasks
        BY DEF Tasks
      <3>2. /\ Suspend(m[u], s, "accepted", "remote", None, TRUE) \in Manager
            /\ SameCall(m[u], Suspend(m[u], s, "accepted", "remote", None, TRUE))
        BY <1>1, <3>1, SuspendSame DEF Suspend
      <3> QED
        BY <1>1, <1>3, <2>1, <3>2, TaskKeeps
    <2> QED
      BY <1>1, <1>3, <1>5, <2>1, NetKeeps DEF OnAccept
  <1>6. CASE OnIce(u, g)
    <2>1. CASE g.callId = m[u].callId /\ m[u].pc # "remote"
      <3> DEFINE x == [m[u] EXCEPT !.ice = @ \union {g.callId}]
      <3>1. Receive(g) /\ Update(u, x)
        BY <1>6, <2>1 DEF OnIce
      <3>2. /\ x \in Manager /\ x.status = m[u].status /\ x.pc = m[u].pc
            /\ x.callId = m[u].callId /\ x.peerId = m[u].peerId
            /\ x.direction = m[u].direction /\ x.offer = m[u].offer
        BY <1>1, <1>2 DEF Manager
      <3> HIDE DEF x
      <3>3. Good(x) /\ Owned(m[u], x)
        BY <1>1, <2>1, <3>2 DEF Good, Answerable, Handed, Named, Owned
      <3> QED
        BY <1>1, <1>3, <3>1, <3>3, UpdateKeeps
    <2>2. CASE ~(g.callId = m[u].callId /\ m[u].pc # "remote")
      BY <1>1, <1>3, <1>6, <2>2, NetKeeps DEF OnIce
    <2> QED
      BY <2>1, <2>2
  <1>7. CASE OnEnd(u, g)
    <2> DEFINE outcome == IF g.type = "decline" THEN "declined" ELSE Outcome(m[u], "missed")
    <2>1. outcome \in LogEntry
      BY DEF LogEntry, Outcome
    <2>2. Receive(g) /\ (Update(u, Finish(m[u], outcome)) \/ m' = m)
      BY <1>7 DEF OnEnd
    <2> HIDE DEF outcome
    <2> QED
      BY <1>1, <1>3, <2>1, <2>2, FinishKeeps, NetKeeps
  <1> QED
    BY <1>4, <1>5, <1>6, <1>7 DEF OnSignal

\* Events of a peer connection, of the clock and of the network.
LEMMA EventKeeps ==
    ASSUME CallInv, NEW u \in Users, EmitIce(u) \/ ConnectionLost(u) \/ ResetFires(u)
    PROVE  CallInv' /\ OnlyOwn
  <1>1. m[u] \in Manager /\ Good(m[u]) /\ net \subseteq Signals /\ fresh \subseteq CallIds
    BY DEF CallInv, TypeOK
  <1>2. CASE EmitIce(u)
    BY <1>2, NetKeeps, SignalPeerTyped DEF EmitIce
  <1>3. CASE ConnectionLost(u)
    <2>1. Outcome(m[u], "failed") \in LogEntry
      BY DEF LogEntry, Outcome
    <2> QED
      BY <1>1, <1>3, <2>1, FinishKeeps DEF ConnectionLost
  <1>4. CASE ResetFires(u)
    <2> DEFINE x == Reset([m[u] EXCEPT !.timers = @ - 1])
    <2>1. m[u].timers - 1 \in Nat
      BY <1>1, <1>4 DEF Manager, ResetFires
    <2>2. Good(x) /\ x.callId = m[u].callId
      BY <1>1, <2>1, OverlayGood, Zenon
    <2>3. Update(u, x) /\ net' = net /\ fresh' = fresh
      BY <1>4 DEF ResetFires
    <2> HIDE DEF x
    <2>4. Owned(m[u], x)
      BY <2>2 DEF Owned
    <2> QED
      BY <1>1, <2>2, <2>3, <2>4, UpdateKeeps
  <1> QED
    BY <1>2, <1>3, <1>4

\* Every step keeps the invariant and replaces a call only by an own start.
LEMMA CallStep ==
    ASSUME CallInv, Next
    PROVE  CallInv' /\ OnlyOwn
  <1>1. ASSUME NEW g \in net, Lose(g)
        PROVE  CallInv' /\ OnlyOwn
    BY <1>1, NetKeeps DEF Lose, CallInv, TypeOK
  <1> QED
    BY <1>1, StartKeeps, AwaitKeeps, AcceptKeeps, TapKeeps, SignalKeeps, EventKeeps DEF Next

-----------------------------------------------------------------------------
(* Theorems.                                                               *)

\* The invariant holds at the start and of every step.
LEMMA CallInvariant == Spec => []CallInv
  <1>1. Init => CallInv
    <2> SUFFICES ASSUME Init
                 PROVE  CallInv
      OBVIOUS
    <2>1. Idle \in Tasks
      BY DEF Idle, Tasks
    <2>2. InitManager \in Manager
      BY <2>1 DEF InitManager, Manager
    <2>3. InitManager.status = "idle" /\ InitManager.ice = {} /\ InitManager.peerId = None
      BY DEF InitManager
    <2>4. Good(InitManager)
      BY <2>2, <2>3 DEF Good, Answerable, Handed, Named
    <2> QED
      BY <2>2, <2>4 DEF Init, CallInv, TypeOK
  <1>2. CallInv /\ UNCHANGED vars => CallInv'
    <2> SUFFICES ASSUME CallInv, UNCHANGED vars
                 PROVE  CallInv'
      OBVIOUS
    <2> QED
      BY NetKeeps DEF vars, CallInv, TypeOK
  <1>3. CallInv /\ [Next]_vars => CallInv'
    BY <1>2, CallStep
  <1> QED
    BY <1>1, <1>3, PTL DEF Spec

\* Every manager, signal and call id keeps its type; a reset that fires was armed,
\* and a signal to a peer always names a call.
THEOREM CallTyped == Spec => []TypeOK
  <1>1. CallInv => TypeOK
    BY DEF CallInv
  <1> QED
    BY <1>1, CallInvariant, PTL

\* While the overlay offers Accept, accept() does not return early.
THEOREM RingStaysAnswerable == Spec => []RingAnswerable
  <1>1. CallInv => RingAnswerable
    BY DEF CallInv, RingAnswerable, Good, Answerable
  <1> QED
    BY <1>1, CallInvariant, PTL

\* No candidate is left in pendingIce once the remote description is set.
THEOREM IceHandedOver == Spec => []NoStrandedIce
  <1>1. CallInv => NoStrandedIce
    BY DEF CallInv, NoStrandedIce, Good, Handed
  <1> QED
    BY <1>1, CallInvariant, PTL

\* onSignal: a ring never replaces a call; only the user's own start does.
THEOREM RingNeverHijacks == Spec => NotHijacked
  <1>1. CallInv /\ [Next]_vars => [OnlyOwn]_vars
    BY CallStep
  <1> QED
    BY <1>1, CallInvariant, PTL DEF Spec, NotHijacked, OnlyOwn, Owned

=============================================================================
