--------------------------- MODULE PresenceProofs ---------------------------
(***************************************************************************)
(* What is proved of the three small stores of the app: typing indicators, *)
(* status updates and scam reports, for any senders, groups, limits, users *)
(* and operations under way.                                               *)
(***************************************************************************)
EXTENDS Typing, Statuses, Reports, TLAPS

-----------------------------------------------------------------------------
(* Counting down.                                                          *)

\* A count-down stays a natural number: it stops at zero.
LEMMA CountDown ==
    ASSUME NEW x \in Nat
    PROVE  Max({x, 1}) - 1 \in Nat
  <1>1. \E m \in {x, 1} : \A y \in {x, 1} : m >= y
    <2>1. CASE x >= 1
      BY <2>1
    <2>2. CASE ~(x >= 1)
      BY <2>2
    <2> QED
      BY <2>1, <2>2
  <1>2. Max({x, 1}) \in {x, 1} /\ \A y \in {x, 1} : Max({x, 1}) >= y
    BY <1>1 DEF Max
  <1> QED
    BY <1>2

-----------------------------------------------------------------------------
(* Typing indicators.                                                      *)

\* Every entry has a count-down, and while there is an entry the interval runs: the
\* fact that receiveTyping starts it and that only a sweep of nothing stops it.
EntriesSwept ==
    /\ DOMAIN byConv = Convs /\ DOMAIN snapshots = Convs
    /\ \A c \in Convs : byConv[c] \in [DOMAIN byConv[c] -> Nat]
    /\ sweepTimer \in {"off", "ran", "due"}
    /\ \A c \in Convs : sweepTimer = "off" => DOMAIN byConv[c] = {}

TypingInv == EntriesSwept /\ ShownIsLive

\* The interval of the receiver is started with the first entry.
LEMMA ReceiveKeeps ==
    ASSUME NEW g \in Signals, TypingInv, ReceiveTyping(g)
    PROVE  TypingInv'
  <1> DEFINE c == IF g.gid = None THEN g.from ELSE g.gid
             senders == IF g.typing
                        THEN [s \in DOMAIN byConv[c] \union {g.from} |->
                                 IF s = g.from THEN Expiry ELSE byConv[c][s]]
                        ELSE Without(byConv[c], {g.from})
  <1>1. c \in Convs
    BY DEF Signals, Convs
  <1>2. /\ byConv' = [byConv EXCEPT ![c] = senders]
        /\ snapshots' = [snapshots EXCEPT ![c] = Live(senders)]
        /\ sweepTimer' = IF g.typing THEN EnsureSweep ELSE sweepTimer
    BY DEF ReceiveTyping
  <1>3. senders \in [DOMAIN senders -> Nat]
    <2>1. Expiry \in Nat
      BY TypingAssumption DEF Expiry
    <2>2. byConv[c] \in [DOMAIN byConv[c] -> Nat]
      BY <1>1 DEF TypingInv, EntriesSwept
    <2>3. CASE g.typing
      BY <2>1, <2>2, <2>3
    <2>4. CASE ~g.typing
      BY <2>2, <2>4 DEF Without
    <2> QED
      BY <2>3, <2>4
  <1>4. sweepTimer' \in {"off", "ran", "due"} /\ (sweepTimer = "due" => sweepTimer' = "due")
    BY <1>2 DEF TypingInv, EntriesSwept, EnsureSweep
  <1>5. sweepTimer' = "off" => sweepTimer = "off" /\ DOMAIN senders = {}
    <2>1. CASE g.typing
      BY <1>2, <2>1 DEF EnsureSweep
    <2>2. CASE ~g.typing
      BY <1>1, <1>2, <2>2 DEF TypingInv, EntriesSwept, Without
    <2> QED
      BY <2>1, <2>2
  <1>6. Live(senders) = {s \in DOMAIN senders : senders[s] > 0}
    BY DEF Live
  <1> HIDE DEF senders, c
  <1>7. \A d \in Convs : /\ byConv'[d] = IF d = c THEN senders ELSE byConv[d]
                         /\ snapshots'[d] = IF d = c THEN Live(senders) ELSE snapshots[d]
    BY <1>2 DEF TypingInv, EntriesSwept
  <1>8. DOMAIN byConv' = Convs /\ DOMAIN snapshots' = Convs
    BY <1>2 DEF TypingInv, EntriesSwept
  <1>9. EntriesSwept'
    BY <1>3, <1>4, <1>5, <1>7, <1>8 DEF TypingInv, EntriesSwept, Convs
  <1>10. ShownIsLive'
    BY <1>4, <1>6, <1>7 DEF TypingInv, ShownIsLive, Convs
  <1> QED
    BY <1>9, <1>10 DEF TypingInv

\* A sweep that leaves a conversation as it is found no expired entry in it.
LEMMA SweepKeepsLive ==
    ASSUME TypingInv, Sweep
    PROVE  TypingInv'
  <1>1. /\ \A c \in Convs : /\ byConv'[c] = Swept(c)
                            /\ snapshots'[c] = IF Swept(c) = byConv[c] THEN snapshots[c]
                                               ELSE Live(Swept(c))
        /\ DOMAIN byConv' = Convs /\ DOMAIN snapshots' = Convs
        /\ sweepTimer' = IF \A c \in Convs : Swept(c) = <<>> THEN "off" ELSE "ran"
    BY DEF Sweep
  <1>2. ASSUME NEW c \in Convs
        PROVE  /\ Swept(c) \in [DOMAIN Swept(c) -> Nat]
               /\ \A s \in DOMAIN Swept(c) : s \in DOMAIN byConv[c] /\ Swept(c)[s] > 0
    BY <1>2 DEF TypingInv, EntriesSwept, Swept, Without
  <1>3. EntriesSwept'
    <2>1. ASSUME NEW c \in Convs, Swept(c) = <<>>
          PROVE  DOMAIN Swept(c) = {}
      BY <2>1
    <2> QED
      BY <1>1, <1>2, <2>1 DEF EntriesSwept, Convs
  <1>4. ASSUME NEW c \in Convs, NEW s \in snapshots'[c]
        PROVE  s \in DOMAIN byConv'[c] /\ byConv'[c][s] > 0
    <2>1. CASE Swept(c) = byConv[c]
      BY <1>1, <1>2, <1>4, <2>1 DEF TypingInv, ShownIsLive
    <2>2. CASE Swept(c) # byConv[c]
      BY <1>1, <1>4, <2>2 DEF Live
    <2> QED
      BY <2>1, <2>2
  <1>5. ShownIsLive'
    BY <1>4 DEF ShownIsLive, Convs
  <1> QED
    BY <1>3, <1>5 DEF TypingInv

\* The end of a period makes the interval due before an entry has expired in vain.
LEMMA TickKeeps ==
    ASSUME TypingInv, Tick
    PROVE  TypingInv'
  <1>1. /\ \A c \in Convs : byConv'[c] = [s \in DOMAIN byConv[c] |-> Max({byConv[c][s], 1}) - 1]
        /\ DOMAIN byConv' = Convs /\ snapshots' = snapshots
        /\ sweepTimer # "due" /\ sweepTimer' = IF sweepTimer = "ran" THEN "due" ELSE "off"
    BY DEF Tick
  <1>2. ASSUME NEW c \in Convs
        PROVE  DOMAIN byConv'[c] = DOMAIN byConv[c] /\ byConv'[c] \in [DOMAIN byConv[c] -> Nat]
    <2>1. \A s \in DOMAIN byConv[c] : byConv[c][s] \in Nat
      BY DEF TypingInv, EntriesSwept
    <2>2. \A s \in DOMAIN byConv[c] : Max({byConv[c][s], 1}) - 1 \in Nat
      BY <2>1, CountDown
    <2> QED
      BY <1>1, <2>2
  <1>3. EntriesSwept'
    BY <1>1, <1>2 DEF TypingInv, EntriesSwept, Convs
  <1>4. ASSUME NEW c \in Convs, NEW s \in snapshots[c]
        PROVE  s \in DOMAIN byConv[c] /\ sweepTimer' = "due"
    BY <1>1 DEF TypingInv, EntriesSwept, ShownIsLive
  <1>5. ShownIsLive'
    BY <1>1, <1>2, <1>4 DEF ShownIsLive, Convs
  <1> QED
    BY <1>3, <1>5 DEF TypingInv

\* Every step keeps the invariant.
LEMMA TypingStep ==
    ASSUME TypingInv, [TypingNext]_typingVars
    PROVE  TypingInv'
  <1>1. CASE UNCHANGED <<byConv, snapshots, sweepTimer>>
    BY <1>1 DEF TypingInv, EntriesSwept, ShownIsLive, Convs
  <1>2. ASSUME NEW s \in Senders, NEW t \in Threads, Open(s, t) \/ Message(s, t)
        PROVE  TypingInv'
    BY <1>1, <1>2 DEF Open, Message
  <1>3. ASSUME NEW s \in Senders,
               \/ DraftChange(s) \/ DraftEmpty(s) \/ IdleFires(s) \/ Close(s) \/ SenderReset(s)
        PROVE  TypingInv'
    BY <1>1, <1>3 DEF DraftChange, DraftEmpty, IdleFires, Close, SenderReset, StopTyping
  <1>4. ASSUME NEW g \in Signals, Deliver(g) \/ Lose(g)
        PROVE  TypingInv'
    BY <1>1, <1>4, ReceiveKeeps DEF Deliver, Lose
  <1>5. CASE Clear
    <2>1. /\ \A c \in Convs : byConv'[c] = <<>> /\ snapshots'[c] = {}
          /\ DOMAIN byConv' = Convs /\ DOMAIN snapshots' = Convs /\ sweepTimer' = sweepTimer
      BY <1>5 DEF Clear
    <2>2. ASSUME NEW c \in Convs, byConv'[c] = <<>>
          PROVE  DOMAIN byConv'[c] = {} /\ byConv'[c] \in [DOMAIN byConv'[c] -> Nat]
      BY <2>2
    <2>3. EntriesSwept'
      BY <2>1, <2>2 DEF TypingInv, EntriesSwept, Convs
    <2>4. ShownIsLive'
      BY <2>1 DEF ShownIsLive, Convs
    <2> QED
      BY <2>3, <2>4 DEF TypingInv
  <1>6. CASE Sweep
    BY <1>6, SweepKeepsLive
  <1>7. CASE Tick
    BY <1>7, TickKeeps
  <1>8. CASE UNCHANGED typingVars
    BY <1>1, <1>8 DEF typingVars
  <1> QED
    BY <1>2, <1>3, <1>4, <1>5, <1>6, <1>7, <1>8 DEF TypingNext

\* The typing store: no indicator outlives its entry, for any senders, groups and
\* any TYPING_TTL_MS, and whatever signals are lost, doubled or overtaken.
THEOREM IndicatorIsLive == TypingSpec => []ShownIsLive
  <1>1. TypingInit => TypingInv
    <2> SUFFICES ASSUME TypingInit
                 PROVE  TypingInv
      OBVIOUS
    <2>1. \A c \in Convs : byConv[c] = <<>> /\ snapshots[c] = {}
      BY DEF TypingInit
    <2> QED
      BY <2>1 DEF TypingInit, TypingInv, EntriesSwept, ShownIsLive
  <1>2. TypingInv /\ [TypingNext]_typingVars => TypingInv'
    BY TypingStep
  <1>3. TypingInv => ShownIsLive
    BY DEF TypingInv
  <1> QED
    BY <1>1, <1>2, <1>3, PTL DEF TypingSpec

-----------------------------------------------------------------------------
(* Status updates.                                                         *)

\* Stores, tabs and notes are of statuses that were posted.
StatusTypeOK ==
    /\ ttl \in [DOMAIN ttl -> Nat]
    /\ items \in [Users -> SUBSET DOMAIN ttl]
    /\ tab \in [Users -> [open : BOOLEAN, active : SUBSET DOMAIN ttl, busy : BOOLEAN]]
    /\ notes \subseteq [id : DOMAIN ttl, from : Users, to : Users]

\* Every step keeps the types.
LEMMA StatusTypeStep ==
    ASSUME StatusTypeOK, [StatusesNext]_statusVars
    PROVE  StatusTypeOK'
  <1>1. ASSUME NEW u \in Users, OpenTab(u) \/ CloseTab(u) \/ Shared(u)
        PROVE  StatusTypeOK'
    <2>1. CASE OpenTab(u)
      BY <2>1 DEF StatusTypeOK, OpenTab, Unexpired
    <2>2. CASE CloseTab(u)
      BY <2>2 DEF StatusTypeOK, CloseTab, NoTab
    <2>3. CASE Shared(u)
      BY <2>3 DEF StatusTypeOK, Shared
    <2> QED
      BY <1>1, <2>1, <2>2, <2>3
  <1>2. ASSUME NEW u \in Users, NEW i \in StatusIds, Share(u, i)
        PROVE  StatusTypeOK'
    <2>1. PICK peers \in SUBSET (Users \ {u}) :
            notes' = notes \union {[id |-> i, from |-> u, to |-> p] : p \in peers}
      BY <1>2 DEF Share
    <2>2. DOMAIN ttl' = DOMAIN ttl \union {i} /\ ttl' \in [DOMAIN ttl' -> Nat]
      BY <1>2, StatusesAssumption DEF Share, StatusTypeOK
    <2>3. notes' \subseteq [id : DOMAIN ttl', from : Users, to : Users]
      BY <2>1, <2>2 DEF StatusTypeOK
    <2>4. items' \in [Users -> SUBSET DOMAIN ttl']
      BY <1>2, <2>2 DEF Share, StatusTypeOK, Unexpired
    <2>5. tab' \in [Users -> [open : BOOLEAN, active : SUBSET DOMAIN ttl', busy : BOOLEAN]]
      BY <1>2, <2>2 DEF Share, StatusTypeOK, Unexpired
    <2> QED
      BY <2>2, <2>3, <2>4, <2>5 DEF StatusTypeOK
  <1>3. ASSUME NEW n \in notes, NEW again \in BOOLEAN, ReceiveStatus(n, again)
        PROVE  StatusTypeOK'
    <2>1. n.to \in Users /\ Upsert(n.to, n.id) \subseteq DOMAIN ttl
      BY DEF StatusTypeOK, Upsert, Unexpired
    <2>2. items' \in [Users -> SUBSET DOMAIN ttl] /\ ttl' = ttl /\ notes' \subseteq notes
      BY <1>3, <2>1 DEF StatusTypeOK, ReceiveStatus, Emitted
    <2>3. tab' \in [Users -> [open : BOOLEAN, active : SUBSET DOMAIN ttl, busy : BOOLEAN]]
      BY <1>3, <2>1 DEF StatusTypeOK, ReceiveStatus, Emitted, Unexpired
    <2> QED
      BY <2>2, <2>3 DEF StatusTypeOK
  <1>4. ASSUME NEW n \in notes, LoseNote(n)
        PROVE  StatusTypeOK'
    BY <1>4 DEF StatusTypeOK, LoseNote
  <1>5. CASE Age
    <2>1. \A i \in DOMAIN ttl : Max({ttl[i], 1}) - 1 \in Nat
      BY CountDown DEF StatusTypeOK
    <2>2. DOMAIN ttl' = DOMAIN ttl /\ ttl' \in [DOMAIN ttl -> Nat]
      BY <1>5, <2>1 DEF Age
    <2> QED
      BY <1>5, <2>2 DEF Age, StatusTypeOK
  <1>6. CASE UNCHANGED statusVars
    BY <1>6 DEF StatusTypeOK, statusVars
  <1> QED
    BY <1>1, <1>2, <1>3, <1>4, <1>5, <1>6 DEF StatusesNext

\* What a step may never do to a status that has expired.
StaysGone ==
    \A u \in Users, i \in DOMAIN ttl :
        ttl[i] = 0 => /\ i \in items'[u] => i \in items[u]
                      /\ i \in tab'[u].active => i \in tab[u].active

\* No step brings an expired status back.
LEMMA NoRevival ==
    ASSUME StatusTypeOK, StatusesNext
    PROVE  StaysGone
  <1> SUFFICES ASSUME NEW u \in Users, NEW i \in DOMAIN ttl, ttl[i] = 0
               PROVE  /\ i \in items'[u] => i \in items[u]
                      /\ i \in tab'[u].active => i \in tab[u].active
    BY DEF StaysGone
  <1>1. ASSUME NEW v \in Users, OpenTab(v) \/ CloseTab(v) \/ Shared(v)
        PROVE  /\ items' = items
               /\ i \in tab'[u].active => i \in tab[u].active
    BY <1>1 DEF StatusTypeOK, OpenTab, CloseTab, Shared, NoTab, Unexpired
  <1>2. ASSUME NEW v \in Users, NEW j \in StatusIds, Share(v, j)
        PROVE  /\ i \in items'[u] => i \in items[u]
               /\ i \in tab'[u].active => i \in tab[u].active
    <2>1. i # j
      BY <1>2 DEF Share
    <2> QED
      BY <1>2, <2>1 DEF Share, StatusTypeOK, Unexpired
  <1>3. ASSUME NEW n \in notes, NEW again \in BOOLEAN, ReceiveStatus(n, again)
        PROVE  /\ i \in items'[u] => i \in items[u]
               /\ i \in tab'[u].active => i \in tab[u].active
    <2>1. i \notin Upsert(n.to, n.id) /\ i \notin Unexpired(Upsert(n.to, n.id))
      BY DEF Upsert, Unexpired
    <2> QED
      BY <1>3, <2>1 DEF ReceiveStatus, Emitted, StatusTypeOK
  <1>4. CASE Age \/ \E n \in notes : LoseNote(n)
    BY <1>4 DEF Age, LoseNote
  <1> QED
    BY <1>1, <1>2, <1>3, <1>4 DEF StatusesNext

\* The status store and the Updates tab: an expired status that is gone never comes
\* back, for any users and statuses, however often and late its copies arrive.
THEOREM ExpiredStaysGone == StatusesSpec => NotRevived
  <1>1. StatusesInit => StatusTypeOK
    <2> SUFFICES ASSUME StatusesInit
                 PROVE  StatusTypeOK
      OBVIOUS
    <2>1. DOMAIN ttl = {} /\ ttl \in [{} -> Nat]
      BY DEF StatusesInit
    <2> QED
      BY <2>1 DEF StatusesInit, StatusTypeOK, NoTab
  <1>2. StatusTypeOK /\ [StatusesNext]_statusVars => StatusTypeOK'
    BY StatusTypeStep
  <1>3. StatusTypeOK /\ [StatusesNext]_statusVars => [StaysGone]_statusVars
    BY NoRevival
  <1> QED
    BY <1>1, <1>2, <1>3, PTL DEF StatusesSpec, NotRevived, StaysGone

-----------------------------------------------------------------------------
(* The log of reports. *)

\* The log, the file, the batch and what a load read are reports; an operation is
\* idle, loading or back from the native store, and whoever loads asked early.
ReportInv ==
    /\ pending \subseteq ReportIds /\ disk \subseteq ReportIds /\ batch \subseteq ReportIds
    /\ op \in [Ops -> [does : Does, at : {"idle", "load", "read"},
                       read : SUBSET ReportIds, early : BOOLEAN]]
    /\ \A k \in Ops : op[k].at # "idle" => op[k].early

\* What the action property says of one step.
LosesNone == \A r \in Held : r \in Held' \/ DiedUnsaved(r) \/ WipedByEarlyLoad(r)

\* What an operation does to the log of its moment: all of it is in the log or with
\* the caller afterwards, and what the caller had is.
LEMMA BodyKeeps ==
    ASSUME NEW does \in Does, NEW log \in SUBSET ReportIds, Body(does, log),
           disk \subseteq ReportIds, batch \subseteq ReportIds
    PROVE  /\ log \union batch \subseteq pending' \union batch'
           /\ pending' \subseteq ReportIds /\ disk' \subseteq ReportIds /\ batch' \subseteq ReportIds
  <1>1. CASE does = "flush"
    BY <1>1 DEF Body, Save
  <1>2. CASE does = "restore"
    BY <1>2 DEF Body, Save
  <1>3. CASE does = "count"
    BY <1>3 DEF Body, Save
  <1>4. CASE does \notin {"flush", "restore", "count"}
    <2>1. does \in ReportIds
      BY <1>4 DEF Does
    <2> QED
      BY <1>4, <2>1 DEF Body, Save
  <1> QED
    BY <1>1, <1>2, <1>3, <1>4

\* Every step keeps the invariant and loses a report only as the property says.
LEMMA ReportStep ==
    ASSUME ReportInv, [ReportsNext]_reportVars
    PROVE  ReportInv' /\ LosesNone
  <1> USE DEF ReportInv
  <1>1. ASSUME NEW k \in Ops, NEW does \in Does, Begin(k, does)
        PROVE  ReportInv' /\ LosesNone
    <2>1. CASE loaded
      <3>1. Body(does, pending) /\ op' = op /\ loaded' = loaded
        BY <1>1, <2>1 DEF Begin
      <3> QED
        BY <2>1, <3>1, BodyKeeps DEF LosesNone, Held
    <2>2. CASE ~loaded
      <3>1. /\ op' = [op EXCEPT ![k] = Asking(does)]
            /\ UNCHANGED <<pending, loaded, disk, batch>>
        BY <1>1, <2>2 DEF Begin
      <3>2. Asking(does) \in [does : Does, at : {"idle", "load", "read"},
                              read : SUBSET ReportIds, early : BOOLEAN]
            /\ Asking(does).early
        BY <2>2 DEF Asking
      <3> QED
        BY <3>1, <3>2 DEF LosesNone, Held
    <2> QED
      BY <2>1, <2>2
  <1>2. ASSUME NEW k \in Ops, Read(k)
        PROVE  ReportInv' /\ LosesNone
    <2>1. PICK log \in {disk, {}} : op' = [op EXCEPT ![k] = Answered(k, log)]
      BY <1>2 DEF Read
    <2>2. op[k].early /\ UNCHANGED <<pending, loaded, disk, batch>>
      BY <1>2 DEF Read
    <2> QED
      BY <2>1, <2>2 DEF Answered, LosesNone, Held
  <1>3. ASSUME NEW k \in Ops, Resume(k)
        PROVE  ReportInv' /\ LosesNone
    <2> DEFINE log == op[k].read
    <2>1. /\ op[k].does \in Does /\ log \in SUBSET ReportIds
          /\ op[k].at = "read" /\ op[k].early /\ Body(op[k].does, log)
          /\ loaded' = TRUE /\ op' = [op EXCEPT ![k] = NoOp]
      BY <1>3 DEF Resume
    <2>2. op'[k].at = "idle"
      BY <2>1 DEF NoOp
    <2>3. /\ log \union batch \subseteq pending' \union batch'
          /\ pending' \subseteq ReportIds /\ disk' \subseteq ReportIds /\ batch' \subseteq ReportIds
      <3> HIDE DEF log
      <3> QED
        BY <2>1, BodyKeeps
    <2>4. LosesNone
      BY <2>1, <2>2, <2>3 DEF LosesNone, Held, WipedByEarlyLoad
    <2>5. NoOp \in [does : Does, at : {"idle", "load", "read"},
                    read : SUBSET ReportIds, early : BOOLEAN] /\ NoOp.at = "idle"
      BY DEF NoOp, Does
    <2> QED
      BY <2>1, <2>3, <2>4, <2>5
  <1>4. CASE Restart
    <2>1. ReportInv'
      BY <1>4 DEF Restart, NoOp, Does
    <2>2. LosesNone
      BY <1>4 DEF Restart, LosesNone, Held, DiedUnsaved
    <2> QED
      BY <2>1, <2>2
  <1>5. CASE UNCHANGED reportVars
    BY <1>5 DEF reportVars, LosesNone, Held
  <1> QED
    BY <1>1, <1>2, <1>3, <1>4, <1>5 DEF ReportsNext

\* FalsePositiveReporter: a recorded report is lost only with a process that died
\* before saving it, or to a load that was asked for before the log was there, for
\* any number of reports and of operations under way.
THEOREM OnlyEarlyLoads == ReportsSpec => OnlyEarlyLoadWipes
  <1>1. ReportsInit => ReportInv
    BY DEF ReportsInit, ReportInv, NoOp, Does
  <1>2. ReportInv /\ [ReportsNext]_reportVars => ReportInv'
    BY ReportStep
  <1>3. ReportInv /\ [ReportsNext]_reportVars => [LosesNone]_reportVars
    BY ReportStep
  <1> QED
    BY <1>1, <1>2, <1>3, PTL DEF ReportsSpec, OnlyEarlyLoadWipes, LosesNone
=============================================================================
