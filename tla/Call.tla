-------------------------------- MODULE Call --------------------------------
(***************************************************************************)
(* Encrypted calls (apps/mobile/src/call and the overlay of CallScreen).   *)
(*                                                                         *)
(* Every user runs one CallManager.  Its async functions start, accept and *)
(* the accept branch of onSignal run up to an await and go on when it is   *)
(* settled; meanwhile signals, taps, timers and events of the peer         *)
(* connection run, and change the fields the function reads afterwards.    *)
(* A task is such a suspended function.  Signals ride on sendText, best    *)
(* effort: they may be lost and may overtake each other.                   *)
(*                                                                         *)
(* SDP and candidates are abstracted to their presence, audio and video    *)
(* tracks to their kind, and the display name and the clock are left out.  *)
(***************************************************************************)
EXTENDS Naturals, Sequences, FiniteSetsExt

CONSTANTS
    Users,
    CallIds,  \* bound: the ids newCallId may return
    Slots,    \* bound: the functions of one manager that may be suspended
    LogMax,   \* entries of the call log that are kept (100)
    Kinds,    \* kinds of local tracks: audio and, for a video call, video
    None

ASSUME CallAssumption ==
    None \notin Users \union CallIds \union {"new", "remote"} /\ LogMax \in Nat

VARIABLES
    m,     \* user -> its CallManager and callStore
    net,   \* the signals under way
    fresh  \* the call ids not used yet

vars == <<m, net, fresh>>

\* A suspended function: which one, the await it is at, the peer it calls, and
\* whether the peer connection it awaits is still the manager's.
Idle == [op |-> "none", at |-> "none", peer |-> None, own |-> FALSE]
Tasks == [op : {"none", "start", "accept", "accepted"},
          at : {"none", "perm", "media", "offer", "remote", "drain", "answer", "local"},
          peer : Users \union {None}, own : BOOLEAN]

\* An entry of the call log, abstracted to its outcome.
LogEntry == {"completed", "missed", "declined", "failed"}

\* The fields of the manager.  pc: "new", or "remote" once the remote
\* description is set; stray: an earlier peer connection may still raise events.
Manager == [pc : {None, "new", "remote"}, stray : BOOLEAN,
            local : {None} \union SUBSET Kinds,
            callId : CallIds \union {None}, peerId : Users \union {None},
            direction : {"outgoing", "incoming"}, answered : BOOLEAN,
            ice : SUBSET CallIds, offer : BOOLEAN,
            tasks : [Slots -> Tasks],
            status : {"idle", "outgoing", "incoming", "active", "ended"},
            off : SUBSET Kinds, timers : Nat, log : Seq(LogEntry)]

Signal(type, u, to, c) == [type |-> type, from |-> u, to |-> to, callId |-> c]

InitManager ==
    [pc |-> None, stray |-> FALSE, local |-> None, callId |-> None, peerId |-> None,
     direction |-> "outgoing", answered |-> FALSE, ice |-> {}, offer |-> FALSE,
     tasks |-> [s \in Slots |-> Idle], status |-> "idle", off |-> {}, timers |-> 0,
     log |-> <<>>]

Signals == [type : {"ring", "accept", "ice", "decline", "hangup"},
            from : Users, to : Users, callId : CallIds]

Init ==
    /\ m = [u \in Users |-> InitManager]
    /\ net = {}
    /\ fresh = CallIds

-----------------------------------------------------------------------------
(* Pieces of the manager, as functions of its record.                      *)

\* callStore.reset: the overlay disappears.
Reset(x) == [x EXCEPT !.status = "idle", !.off = {}]

\* callStore.addLog: the newest first, the last LogMax kept.
AddLog(x, outcome) ==
    IF x.callId = None \/ x.peerId = None THEN x.log
    ELSE LET log == <<outcome>> \o x.log
         IN  SubSeq(log, 1, Min({Len(log), LogMax}))

\* The peer connection is replaced or closed under the tasks that await it.
Disowned(x) == [s \in Slots |-> [x.tasks[s] EXCEPT !.own = FALSE]]

\* Mutant of Finish: the screen is ended only if media was set up.
FinishQuiet(x, outcome) ==
    [x EXCEPT !.log = AddLog(x, outcome), !.stray = x.stray \/ x.pc # None,
              !.pc = None, !.local = None, !.callId = None, !.peerId = None,
              !.answered = FALSE, !.ice = {}, !.offer = FALSE, !.tasks = Disowned(x),
              !.status = IF x.pc = None THEN @ ELSE "ended", !.timers = x.timers + 1]

\* finish: log, stop the tracks, close, clear, show the ended card, arm its reset.
Finish(x, outcome) ==
    [x EXCEPT !.log = AddLog(x, outcome), !.stray = x.stray \/ x.pc # None,
              !.pc = None, !.local = None, !.callId = None, !.peerId = None,
              !.answered = FALSE, !.ice = {}, !.offer = FALSE,
              !.tasks = Disowned(x), !.status = "ended", !.timers = x.timers + 1]

NewPeerConnection(x) ==
    [x EXCEPT !.pc = "new", !.stray = x.stray \/ x.pc # None, !.tasks = Disowned(x)]

\* signal: to the current peer, if there is one.
SignalPeer(u, type) ==
    IF m[u].peerId = None THEN {} ELSE {Signal(type, u, m[u].peerId, m[u].callId)}

Outcome(x, otherwise) == IF x.answered THEN "completed" ELSE otherwise

Suspend(x, s, op, at, peer, own) ==
    [x EXCEPT !.tasks[s] = [op |-> op, at |-> at, peer |-> peer, own |-> own]]
Goto(x, s, at) ==
    Suspend(x, s, x.tasks[s].op, at, None, at = "remote")
Ends(x, s) == [x EXCEPT !.tasks[s] = Idle]

\* The first free slot: the functions in flight are told apart by nothing else.
Free(u, s) == m[u].tasks[s] = Idle /\ \A r \in Slots : m[u].tasks[r] = Idle => r >= s

At(u, s, ops, at) == m[u].tasks[s].op \in ops /\ m[u].tasks[s].at = at

Update(u, x) == m' = [m EXCEPT ![u] = x]

-----------------------------------------------------------------------------
(* Placing a call.                                                         *)

\* The call buttons of the chat header and of the call log.  The overlay covers
\* them unless it is idle; start returns when there is a peer connection.
TapStart(u, p, s) ==
    /\ m[u].status = "idle" /\ m[u].pc = None /\ p # u /\ Free(u, s)
    /\ Update(u, Suspend(m[u], s, "start", "perm", p, FALSE))
    /\ UNCHANGED <<net, fresh>>

\* start after the permission: whatever callId is by now, it is overwritten.
StartPermitted(u, s, c) ==
    /\ At(u, s, {"start"}, "perm") /\ c \in fresh
    /\ LET x == NewPeerConnection(m[u])
       IN  Update(u, Goto([x EXCEPT !.callId = c, !.peerId = m[u].tasks[s].peer,
                                    !.direction = "outgoing", !.answered = FALSE,
                                    !.status = "outgoing", !.off = {}], s, "media"))
    /\ fresh' = fresh \ {c}
    /\ UNCHANGED net

StartDenied(u, s) ==
    /\ At(u, s, {"start"}, "perm")
    /\ Update(u, Ends([m[u] EXCEPT !.status = "ended", !.timers = @ + 1], s))
    /\ UNCHANGED <<net, fresh>>

\* attachLocalMedia: the stream is kept before the tracks are added to this.pc!,
\* which throws when the call has ended meanwhile; start goes on with createOffer,
\* accept with the stashed offer, which throws when there is none any more.
MediaReady(u, s) ==
    /\ At(u, s, {"start", "accept"}, "media")
    /\ LET x == [m[u] EXCEPT !.local = Kinds]
           isStart == x.tasks[s].op = "start"
       IN  Update(u, IF x.pc = None \/ (~isStart /\ ~x.offer) THEN Ends(x, s)
                     ELSE Goto(x, s, IF isStart THEN "offer" ELSE "remote"))
    /\ UNCHANGED <<net, fresh>>

\* createOffer or createAnswer is there: setLocalDescription on this.pc.
DescriptionReady(u, s) ==
    /\ \/ At(u, s, {"start"}, "offer")
       \/ At(u, s, {"accept"}, "answer")
    /\ Update(u, IF m[u].pc = None THEN Ends(m[u], s) ELSE Goto(m[u], s, "local"))
    /\ UNCHANGED <<net, fresh>>

\* The end of start: the ring carries the offer and the callId of this moment.
OfferSet(u, s) ==
    /\ At(u, s, {"start"}, "local")
    /\ Update(u, Ends(m[u], s))
    /\ net' = net \union SignalPeer(u, "ring")
    /\ UNCHANGED fresh

\* An awaited call of the platform rejects; nothing catches it.
TaskFails(u, s) ==
    /\ m[u].tasks[s].at \in {"media", "offer", "remote", "answer", "local"}
    /\ Update(u, Ends(m[u], s))
    /\ UNCHANGED <<net, fresh>>

-----------------------------------------------------------------------------
(* Answering and ending, by the buttons of the overlay.                    *)

TapAccept(u, s) ==
    /\ m[u].status = "incoming" /\ Free(u, s)
    /\ m[u].direction = "incoming" /\ m[u].offer /\ m[u].callId # None /\ m[u].peerId # None
    /\ Update(u, Suspend(m[u], s, "accept", "perm", None, FALSE))
    /\ UNCHANGED <<net, fresh>>

AcceptPermitted(u, s) ==
    /\ At(u, s, {"accept"}, "perm")
    /\ Update(u, Goto(NewPeerConnection(m[u]), s, "media"))
    /\ UNCHANGED <<net, fresh>>

\* decline, by the button or because the permission was denied.
Decline(u, x) ==
    /\ Update(u, Finish(x, "declined"))
    /\ net' = net \union SignalPeer(u, "decline")
    /\ UNCHANGED fresh

AcceptDenied(u, s) == At(u, s, {"accept"}, "perm") /\ Decline(u, Ends(m[u], s))

TapDecline(u) == m[u].status = "incoming" /\ Decline(u, m[u])

\* Mutant of RemoteSet: drainIce is not called.
RemoteSetUndrained(u, s) ==
    /\ At(u, s, {"accept", "accepted"}, "remote")
    /\ LET x == [m[u] EXCEPT !.pc = IF m[u].tasks[s].own THEN "remote" ELSE @]
       IN  Update(u, Goto(x, s, "drain"))
    /\ UNCHANGED <<net, fresh>>

\* setRemoteDescription is done: drainIce takes the queue and adds it to this.pc.
RemoteSet(u, s) ==
    /\ At(u, s, {"accept", "accepted"}, "remote")
    /\ LET x == [m[u] EXCEPT !.pc = IF m[u].tasks[s].own THEN "remote" ELSE @]
       IN  Update(u, Goto(IF x.pc = None THEN x ELSE [x EXCEPT !.ice = {}], s, "drain"))
    /\ UNCHANGED <<net, fresh>>

\* accept goes on with createAnswer on this.pc; the accept signal makes it active.
Drained(u, s) ==
    /\ At(u, s, {"accept", "accepted"}, "drain")
    /\ Update(u, IF m[u].tasks[s].op = "accepted"
                 THEN Ends([m[u] EXCEPT !.answered = TRUE, !.status = "active"], s)
                 ELSE IF m[u].pc = None THEN Ends(m[u], s) ELSE Goto(m[u], s, "answer"))
    /\ UNCHANGED <<net, fresh>>

\* The end of accept.
AnswerSet(u, s) ==
    /\ At(u, s, {"accept"}, "local")
    /\ Update(u, Ends([m[u] EXCEPT !.answered = TRUE, !.status = "active"], s))
    /\ net' = net \union SignalPeer(u, "accept")
    /\ UNCHANGED fresh

TapHangup(u) ==
    /\ m[u].status \in {"outgoing", "active"}
    /\ Update(u, Finish(m[u], Outcome(m[u], "missed")))
    /\ net' = net \union SignalPeer(u, "hangup")
    /\ UNCHANGED fresh

\* toggleMute and toggleCamera.
Toggle(u, k) ==
    /\ m[u].status = "active" /\ m[u].local # None
    /\ LET x == m[u]
           enabled == k \in x.local
       IN  Update(u, [x EXCEPT !.local = IF enabled THEN x.local \ {k} ELSE x.local \union {k},
                               !.off = IF enabled THEN x.off \union {k} ELSE x.off \ {k}])
    /\ UNCHANGED <<net, fresh>>

-----------------------------------------------------------------------------
(* Inbound signals: routed by the store, one branch of onSignal each.      *)

Receive(g) == net' = net \ {g}

\* Mutant of OnRing: only a peer connection makes busy.
OnRingPcOnly(u, g) ==
    /\ g.type = "ring"
    /\ IF m[u].pc # None
       THEN /\ net' = (net \ {g}) \union {Signal("decline", u, g.from, g.callId)}
            /\ UNCHANGED m
       ELSE /\ Receive(g)
            /\ Update(u, [m[u] EXCEPT !.callId = g.callId, !.peerId = g.from,
                                      !.direction = "incoming", !.offer = TRUE,
                                      !.status = "incoming", !.off = {}])

\* The offer of a ring is there: start signals it only once it has one.
OnRing(u, g) ==
    /\ g.type = "ring"
    /\ IF m[u].pc # None \/ m[u].callId # None
       THEN /\ net' = (net \ {g}) \union {Signal("decline", u, g.from, g.callId)}
            /\ UNCHANGED m
       ELSE /\ Receive(g)
            /\ Update(u, [m[u] EXCEPT !.callId = g.callId, !.peerId = g.from,
                                      !.direction = "incoming", !.offer = TRUE,
                                      !.status = "incoming", !.off = {}])

OnAccept(u, g) ==
    /\ g.type = "accept"
    /\ Receive(g)
    /\ IF g.callId = m[u].callId /\ m[u].pc # None
       THEN \E s \in Slots : Free(u, s) /\ Update(u, Suspend(m[u], s, "accepted", "remote", None, TRUE))
       ELSE UNCHANGED m

OnIce(u, g) ==
    /\ g.type = "ice"
    /\ Receive(g)
    /\ IF g.callId = m[u].callId /\ m[u].pc # "remote"
       THEN Update(u, [m[u] EXCEPT !.ice = @ \union {g.callId}])
       ELSE UNCHANGED m

OnEnd(u, g) ==
    /\ g.type \in {"decline", "hangup"}
    /\ Receive(g)
    /\ IF g.callId = m[u].callId
       THEN Update(u, Finish(m[u], IF g.type = "decline" THEN "declined"
                                   ELSE Outcome(m[u], "missed")))
       ELSE UNCHANGED m

OnSignal(u, g) ==
    /\ g.to = u
    /\ \/ OnRing(u, g)
       \/ OnAccept(u, g)
       \/ OnIce(u, g)
       \/ OnEnd(u, g)
    /\ UNCHANGED fresh

-----------------------------------------------------------------------------
(* Events of a peer connection, of the clock and of the network.           *)

\* icecandidate.
EmitIce(u) ==
    /\ m[u].pc # None \/ m[u].stray
    /\ m[u].callId # None
    /\ net' = net \union SignalPeer(u, "ice")
    /\ UNCHANGED <<m, fresh>>

\* connectionstatechange: failed, disconnected or closed.
ConnectionLost(u) ==
    /\ m[u].pc # None \/ m[u].stray
    /\ m[u].callId # None
    /\ Update(u, Finish(m[u], Outcome(m[u], "failed")))
    /\ UNCHANGED <<net, fresh>>

\* Mutant of ResetFires: it runs without having been armed.
ResetAnytime(u) ==
    /\ Update(u, Reset([m[u] EXCEPT !.timers = @ - 1]))
    /\ UNCHANGED <<net, fresh>>

\* A reset that finish or a denied permission armed; it is never cancelled.
ResetFires(u) ==
    /\ m[u].timers > 0
    /\ Update(u, Reset([m[u] EXCEPT !.timers = @ - 1]))
    /\ UNCHANGED <<net, fresh>>

\* sendText throws, or the relay loses the envelope.
Lose(g) == g \in net /\ net' = net \ {g} /\ UNCHANGED <<m, fresh>>

Next ==
    \/ \E u \in Users :
        \/ \E s \in Slots :
            \/ \E p \in Users : TapStart(u, p, s)
            \/ \E c \in CallIds : StartPermitted(u, s, c)
            \/ StartDenied(u, s) \/ MediaReady(u, s) \/ DescriptionReady(u, s)
            \/ OfferSet(u, s) \/ TaskFails(u, s)
            \/ TapAccept(u, s) \/ AcceptPermitted(u, s) \/ AcceptDenied(u, s)
            \/ RemoteSet(u, s) \/ Drained(u, s) \/ AnswerSet(u, s)
        \/ TapDecline(u) \/ TapHangup(u)
        \/ \E k \in Kinds : Toggle(u, k)
        \/ \E g \in net : OnSignal(u, g)
        \/ EmitIce(u) \/ ConnectionLost(u) \/ ResetFires(u)
    \/ \E g \in net : Lose(g)

Spec == Init /\ [][Next]_vars

-----------------------------------------------------------------------------
(* Properties.                                                             *)

\* Every manager, signal and call id has its type; a reset timer that fires was armed.
TypeOK ==
    /\ m \in [Users -> Manager]
    /\ net \subseteq Signals
    /\ fresh \subseteq CallIds

\* While the overlay offers Accept, accept() does not return early: no order of
\* rings, own starts, timers and late awaits takes the stashed offer or the call
\* away under the ringing screen.
RingAnswerable ==
    \A u \in Users : m[u].status = "incoming" =>
        m[u].direction = "incoming" /\ m[u].offer /\ m[u].callId # None /\ m[u].peerId # None

\* A candidate that came before the remote description is handed over once it is
\* set: pendingIce is empty as soon as onSignal stops filling it.
NoStrandedIce == \A u \in Users : m[u].pc = "remote" => m[u].ice = {}

\* A call is replaced only by the user's own start, never by a ring ("a second
\* incoming ring while busy is auto-declined").
NotHijacked ==
    [][\A u \in Users :
        m[u].callId # None /\ m'[u].callId \notin {m[u].callId, None}
            => m'[u].direction = "outgoing" /\ m'[u].status = "outgoing"]_vars

\* Violated: a manager with a peer connection is in a call, which is what start
\* takes it for ("already in a call") and what makes it decline every ring.
InACall == \A u \in Users : m[u].pc # None => m[u].callId # None

\* Violated: while an offer is stashed to be applied on accept, the overlay is there
\* to accept it ("incoming": "ringing, awaiting our accept/decline").
RingShown ==
    \A u \in Users : m[u].offer /\ m[u].callId # None => m[u].status # "idle"
=============================================================================
