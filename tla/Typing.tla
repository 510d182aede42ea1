------------------------------- MODULE Typing -------------------------------
(***************************************************************************)
(* Typing indicators: the composer of ChatScreen on the side of each       *)
(* sender, and the typing store on the side of one receiver.               *)
(*                                                                         *)
(* Time is counted down in periods of the sweep (1 s): a timer that is due *)
(* runs before the next period ends.  A signal rides on sendText, best     *)
(* effort; nothing orders two of them.  A cached snapshot is a set, and    *)
(* one that is not cached yet is the empty one it would be computed to.    *)
(***************************************************************************)
EXTENDS Naturals, FiniteSetsExt

CONSTANTS
    Senders,
    Groups,    \* threads shared by everybody; the other thread of a sender is its 1:1 chat
    TTL,       \* TYPING_TTL_MS in periods (6)
    Throttle,  \* TYPING_THROTTLE_MS (3)
    Idle,      \* TYPING_IDLE_MS (4)
    None

ASSUME TypingAssumption ==
    /\ {TTL, Throttle, Idle} \subseteq Nat \ {0}
    /\ Senders \intersect Groups = {} /\ None \notin Senders \union Groups

VARIABLES
    byConv,      \* conversation of the receiver -> sender -> time to its expiry
    snapshots,   \* conversation of the receiver -> the senders shown
    sweepTimer,  \* "off", "ran" in this period, or "due"
    composer,    \* sender -> the refs of its ChatScreen
    begun,       \* sender -> its threads that have a message
    pings        \* signal -> how many of it are under way

typingVars == <<byConv, snapshots, sweepTimer, composer, begun, pings>>

\* The receiver files a 1:1 chat under its peer.
Convs == Senders \union Groups
Threads == Groups \union {"direct"}
Signals == [from : Senders, gid : Groups \union {None}, typing : BOOLEAN]

\* since: the time since lastTypingSent, up to where the throttle is over; idle:
\* the time left on idleTimer.
NoScreen == [thread |-> None, active |-> FALSE, since |-> Throttle + 1, idle |-> None]

TypingInit ==
    /\ byConv = [c \in Convs |-> <<>>]
    /\ snapshots = [c \in Convs |-> {}]
    /\ sweepTimer = "off"
    /\ composer = [s \in Senders |-> NoScreen]
    /\ begun = [s \in Senders |-> {}]
    /\ pings = [g \in Signals |-> 0]

-----------------------------------------------------------------------------
(* The sender.                                                             *)

\* sendTyping: only in a thread that has a message.
SendTyping(s, t, typing) ==
    LET g == [from |-> s, gid |-> IF t = "direct" THEN None ELSE t, typing |-> typing]
    IN  pings' = IF t \in begun[s] THEN [pings EXCEPT ![g] = @ + 1] ELSE pings

Open(s, t) ==
    /\ composer[s].thread = None
    /\ composer' = [composer EXCEPT ![s].thread = t]
    /\ UNCHANGED <<byConv, snapshots, sweepTimer, begun, pings>>

\* A message arrives in a thread, or is sent after stopTyping.
Message(s, t) ==
    /\ t \notin begun[s]
    /\ begun' = [begun EXCEPT ![s] = @ \union {t}]
    /\ UNCHANGED <<byConv, snapshots, sweepTimer, composer, pings>>

\* handleDraftChange with a draft.
DraftChange(s) ==
    LET x == composer[s] IN
    /\ x.thread # None
    /\ IF x.since > Throttle
       THEN /\ composer' = [composer EXCEPT ![s] = [thread |-> x.thread, active |-> TRUE,
                                                    since |-> 0, idle |-> Idle]]
            /\ SendTyping(s, x.thread, TRUE)
       ELSE /\ composer' = [composer EXCEPT ![s].idle = Idle]
            /\ UNCHANGED pings
    /\ UNCHANGED <<byConv, snapshots, sweepTimer, begun>>

\* stopTyping, which leaves the screen on the thread or goes with it.
StopTyping(s, thread) ==
    /\ composer' = [composer EXCEPT ![s] = [NoScreen EXCEPT !.thread = thread]]
    /\ IF composer[s].active THEN SendTyping(s, composer[s].thread, FALSE) ELSE UNCHANGED pings
    /\ UNCHANGED <<byConv, snapshots, sweepTimer, begun>>

\* The draft is emptied or sent.
DraftEmpty(s) == composer[s].thread # None /\ StopTyping(s, composer[s].thread)

IdleFires(s) == composer[s].idle = 0 /\ StopTyping(s, composer[s].thread)

\* The thread closes, or another takes its place.
Close(s) == composer[s].thread # None /\ StopTyping(s, None)

\* conversationStore.reset on the sender's side.
SenderReset(s) ==
    /\ begun' = [begun EXCEPT ![s] = {}]
    /\ UNCHANGED <<byConv, snapshots, sweepTimer, composer, pings>>

-----------------------------------------------------------------------------
(* The receiver.                                                           *)

\* compute: the senders whose entry has not expired.
Live(senders) == {s \in DOMAIN senders : senders[s] > 0}

Without(senders, gone) == [s \in DOMAIN senders \ gone |-> senders[s]]

EnsureSweep == IF sweepTimer = "off" THEN "ran" ELSE sweepTimer

\* How long a signal is live.
Expiry == TTL

\* Mutant of ReceiveTyping: the expiry is the conversation's, not the sender's.
ReceiveTypingAll(g) ==
    LET c == IF g.gid = None THEN g.from ELSE g.gid
        senders == IF g.typing THEN [s \in DOMAIN byConv[c] \union {g.from} |-> Expiry]
                   ELSE Without(byConv[c], {g.from})
    IN  /\ byConv' = [byConv EXCEPT ![c] = senders]
        /\ snapshots' = [snapshots EXCEPT ![c] = Live(senders)]
        /\ sweepTimer' = IF g.typing THEN EnsureSweep ELSE sweepTimer

\* receiveTyping, by way of the conversation store's receive.
ReceiveTyping(g) ==
    LET c == IF g.gid = None THEN g.from ELSE g.gid
        senders == IF g.typing
                   THEN [s \in DOMAIN byConv[c] \union {g.from} |->
                            IF s = g.from THEN Expiry ELSE byConv[c][s]]
                   ELSE Without(byConv[c], {g.from})
    IN  /\ byConv' = [byConv EXCEPT ![c] = senders]
        /\ snapshots' = [snapshots EXCEPT ![c] = Live(senders)]
        /\ sweepTimer' = IF g.typing THEN EnsureSweep ELSE sweepTimer

Deliver(g) ==
    /\ pings[g] > 0
    /\ pings' = [pings EXCEPT ![g] = @ - 1]
    /\ ReceiveTyping(g)
    /\ UNCHANGED <<composer, begun>>

Lose(g) ==
    /\ pings[g] > 0
    /\ pings' = [pings EXCEPT ![g] = @ - 1]
    /\ UNCHANGED <<byConv, snapshots, sweepTimer, composer, begun>>

\* clear, from the receiver's own reset: the interval goes on.
Clear ==
    /\ \E c \in Convs : byConv[c] # <<>>
    /\ byConv' = [c \in Convs |-> <<>>]
    /\ snapshots' = [c \in Convs |-> {}]
    /\ UNCHANGED <<sweepTimer, composer, begun, pings>>

\* What a sweep leaves of a conversation's entries.
Swept(c) == Without(byConv[c], {s \in DOMAIN byConv[c] : byConv[c][s] = 0})

\* Mutant of Sweep: the snapshot is computed anew only when entries are left.
SweepKeeps ==
    /\ sweepTimer = "due"
    /\ byConv' = [c \in Convs |-> Swept(c)]
    /\ snapshots' = [c \in Convs |-> IF Swept(c) = <<>> THEN snapshots[c] ELSE Live(Swept(c))]
    /\ sweepTimer' = IF \A c \in Convs : Swept(c) = <<>> THEN "off" ELSE "ran"
    /\ UNCHANGED <<composer, begun, pings>>

\* The interval fires: expired entries go, and with the last of all, the interval.
\* changed is not reset between conversations: those after the first that changed
\* are computed anew as well, to what they were.
Sweep ==
    /\ sweepTimer = "due"
    /\ byConv' = [c \in Convs |-> Swept(c)]
    /\ snapshots' = [c \in Convs |-> IF Swept(c) = byConv[c] THEN snapshots[c] ELSE Live(Swept(c))]
    /\ sweepTimer' = IF \A c \in Convs : Swept(c) = <<>> THEN "off" ELSE "ran"
    /\ UNCHANGED <<composer, begun, pings>>

-----------------------------------------------------------------------------
\* A period ends.
Tick ==
    /\ sweepTimer # "due" /\ \A s \in Senders : composer[s].idle # 0
    /\ byConv' = [c \in Convs |-> [s \in DOMAIN byConv[c] |-> Max({byConv[c][s], 1}) - 1]]
    /\ sweepTimer' = IF sweepTimer = "ran" THEN "due" ELSE "off"
    /\ composer' = [s \in Senders |->
        [composer[s] EXCEPT !.since = Min({@ + 1, Throttle + 1}),
                            !.idle = IF @ = None THEN None ELSE @ - 1]]
    /\ UNCHANGED <<snapshots, begun, pings>>

TypingNext ==
    \/ \E s \in Senders :
        \/ \E t \in Threads : Open(s, t) \/ Message(s, t)
        \/ DraftChange(s) \/ DraftEmpty(s) \/ IdleFires(s) \/ Close(s) \/ SenderReset(s)
    \/ \E g \in Signals : Deliver(g) \/ Lose(g)
    \/ Clear \/ Sweep \/ Tick

TypingSpec == TypingInit /\ [][TypingNext]_typingVars

\* Time passes and timers that are due fire.
TypingFairness ==
    /\ WF_typingVars(Tick)
    /\ WF_typingVars(Sweep)
    /\ \A s \in Senders : WF_typingVars(IdleFires(s))

-----------------------------------------------------------------------------
(* Properties.                                                             *)

\* An indicator on the screen is backed by an entry that is live, or that a sweep
\* due now takes away: whatever signals are lost or overtake each other in however
\* many threads, the cached snapshot never outlives its entry.
ShownIsLive ==
    \A c \in Convs : \A s \in snapshots[c] :
        s \in DOMAIN byConv[c] /\ (byConv[c][s] > 0 \/ sweepTimer = "due")

\* An indicator lapses on its own when the stop signal is lost: a sender who
\* presses no key in the thread is not shown typing for ever.
IndicatorLapses ==
    \A s \in Senders : \A t \in Threads :
        LET shown == s \in snapshots[IF t = "direct" THEN s ELSE t]
        IN  shown ~> ~shown \/ (composer[s].thread = t /\ composer[s].idle = Idle)
=============================================================================
