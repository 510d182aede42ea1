------------------------------- MODULE Relay -------------------------------
(***************************************************************************)
(* The message relay (backend/relay): the Hub that routes envelopes or     *)
(* keeps them for offline devices, and the per-connection Client with its  *)
(* bounded `out` channel, its writePump and its readPump.                   *)
(*                                                                         *)
(* The hub's mutex protects conns, queue, pushTokens and nextID, and is    *)
(* never held while a message is put on a channel: every handler is        *)
(* therefore split exactly where the code unlocks, and a connection found  *)
(* under the lock may be gone when `target.send` runs.                     *)
(***************************************************************************)
EXTENDS Naturals, Sequences, FiniteSets, SequencesExt

CONSTANTS
    Devices,       \* the route keys (userID:deviceID)
    Conns,         \* the Client objects; one is reused once it is garbage
    NoConn,        \* a nil *Client
    PushDevices,   \* the devices whose app obtains a push token
    Traffic,       \* the <<sender, recipient>> pairs that write to each other
    Status,        \* the receipts devices send, of "delivered" and "read"
    DiskFaults,    \* whether saving and loading the file may fail
    OutCap,        \* capacity of Client.out (64 in the code)
    MaxQueue,      \* maxQueuePerRecipient (1000 in the code)
    QueueTTL,      \* queueTTL, in ticks of `now`
    MaxSends,      \* bound: how many envelopes the devices send
    MaxTime        \* bound: how far the server clock advances

ASSUME RelayAssumption ==
    /\ Devices # {}
    /\ NoConn \notin Conns
    /\ PushDevices \subseteq Devices
    /\ Traffic \subseteq Devices \X Devices
    /\ Status \subseteq {"delivered", "read"}
    /\ DiskFaults \in BOOLEAN
    /\ OutCap \in Nat \ {0}
    /\ MaxQueue \in Nat \ {0}
    /\ QueueTTL \in Nat
    /\ MaxSends \in Nat
    /\ MaxTime \in Nat

VARIABLES
    \* The Hub.
    now,         \* the server clock
    nextID,      \* Hub.nextID
    conns,       \* Hub.conns: device -> live connection, or NoConn
    queue,       \* Hub.queue: device -> the queued envelopes
    pushTokens,  \* Hub.pushTokens: the devices that registered a token
    disk,        \* the file at Hub.path
    lag,         \* "synced", "behind" (a save failed since the last good one)
                 \* or "rewound" (the relay restarted from such a file)
    \* Each connection.
    dev,         \* Client.routeKey
    sock,        \* whether the WebSocket still carries data
    pc,          \* where the connection's handler goroutine is
    flush,       \* register's `pending`: what is still to be sent
    job,         \* the target found under the lock and the message for it
    out,         \* Client.out
    writer,      \* whether writePump runs
    \* Outside the relay.
    pushing,     \* devices with a push request under way
    sent,        \* how many envelopes the devices have sent: the last clientRef
    delivered,   \* device -> the envelopes its sockets handed it, in order
    due          \* device -> the receipts it has still to send

hubVars == <<now, nextID, conns, queue, pushTokens, disk, lag>>
connVars == <<dev, sock, pc, flush, job, out, writer>>
outside == <<pushing, sent, delivered, due>>
vars == <<now, nextID, conns, queue, pushTokens, disk, lag,
          dev, sock, pc, flush, job, out, writer,
          pushing, sent, delivered, due>>

(***************************************************************************)
(* Envelopes and messages.  `ref` is the sender's clientRef, unique per    *)
(* send; `id` is the identity the relay assigns.  An ack carries the id    *)
(* and the ref, a status ("delivered" or "read") only the id; keeping the  *)
(* envelope in every message spares a second record shape.                 *)
(***************************************************************************)
Envelope == [id : Nat, ref : Nat, from : Devices, to : Devices]

Queued == [env : Envelope, at : Nat]

RelayMessage == [kind : {"deliver", "ack"} \cup Status, env : Envelope]

Message(k, e) == [kind |-> k, env |-> e]

(***************************************************************************)
(* A queue is the set of its entries.  The slice's order is the order of   *)
(* the ids: an id is taken and the entry appended under the same lock, and *)
(* the file holds both from the same moment.                               *)
(***************************************************************************)
Fresh(q) == {e \in q : e.at + QueueTTL >= now}

Newer(e, q) == {f \in q : f.env.id > e.env.id}

\* Mutant of Prune: with the cap at the wrong end.
PruneNewest(q) ==
    {e \in Fresh(q) : Cardinality({f \in Fresh(q) : f.env.id < e.env.id}) < MaxQueue}

\* pruneQueueLocked: drop what is past the TTL, then keep the newest MaxQueue.
Prune(q) == {e \in Fresh(q) : Cardinality(Newer(e, Fresh(q))) < MaxQueue}

\* Bound: the disk shows no more faults once the relay has restarted from a file
\* that was behind, or the same envelopes could be delivered without end.
DiskFails == DiskFaults /\ lag # "rewound"

\* Mutant of Persist: the id counter is left out of the file.
PersistQueueOnly(n, q) ==
    /\ disk' = [disk EXCEPT !.queue = q]
    /\ UNCHANGED lag

\* persistLocked, with the hub's state (n, q): the file is replaced by a rename,
\* or the save fails, which is only logged, or there is no file (path "").
Persist(n, q) ==
    \/ /\ disk' = [nextID |-> n, queue |-> q]
       /\ lag' = IF lag = "rewound" THEN lag ELSE "synced"
    \/ /\ DiskFails
       /\ lag' = "behind"
       /\ UNCHANGED disk

\* Client.send on an open channel: never blocks, drops when the channel is full.
Offer(s, m) == IF Len(s) < OutCap THEN Append(s, m) ELSE s

\* A Client nothing refers to any more: never used, or torn down, its writer
\* returned and no handler about to send to it.
Unused(c) ==
    \/ pc[c] = "none"
    \/ /\ pc[c] = "closed"
       /\ ~writer[c]
       /\ \A b \in Conns : pc[b] = "sending" => job[b].target # c

-----------------------------------------------------------------------------
NoJob == [target |-> NoConn, msg |-> NoConn]

Init ==
    /\ now = 0
    /\ nextID = 0
    /\ conns = [d \in Devices |-> NoConn]
    /\ queue = [d \in Devices |-> {}]
    /\ pushTokens = {}
    /\ disk = [nextID |-> 0, queue |-> [d \in Devices |-> {}]]
    /\ lag = "synced"
    /\ dev = [c \in Conns |-> CHOOSE d \in Devices : TRUE]
    /\ sock = [c \in Conns |-> FALSE]
    /\ pc = [c \in Conns |-> "none"]
    /\ flush = [c \in Conns |-> {}]
    /\ job = [c \in Conns |-> NoJob]
    /\ out = [c \in Conns |-> <<>>]
    /\ writer = [c \in Conns |-> FALSE]
    /\ pushing = {}
    /\ sent = 0
    /\ delivered = [d \in Devices |-> <<>>]
    /\ due = [d \in Devices |-> {}]

-----------------------------------------------------------------------------
(* Opening a connection: the /v1/relay handler and Hub.register.           *)

\* Mutants of Register: the queue is sent but not emptied; it is emptied but the
\* file is not written.
RegisterKeepsQueue(d, c) ==
    /\ Unused(c)
    /\ conns' = [conns EXCEPT ![d] = c]
    /\ dev' = [dev EXCEPT ![c] = d]
    /\ sock' = [sock EXCEPT ![c] = TRUE]
    /\ pc' = [pc EXCEPT ![c] = "flushing"]
    /\ flush' = [flush EXCEPT ![c] = Prune(queue[d])]
    /\ job' = [job EXCEPT ![c] = NoJob]
    /\ out' = [out EXCEPT ![c] = <<>>]
    /\ UNCHANGED <<now, nextID, queue, pushTokens, disk, lag, writer, outside>>

RegisterUnsaved(d, c) ==
    /\ Unused(c)
    /\ conns' = [conns EXCEPT ![d] = c]
    /\ dev' = [dev EXCEPT ![c] = d]
    /\ sock' = [sock EXCEPT ![c] = TRUE]
    /\ pc' = [pc EXCEPT ![c] = "flushing"]
    /\ flush' = [flush EXCEPT ![c] = Prune(queue[d])]
    /\ job' = [job EXCEPT ![c] = NoJob]
    /\ out' = [out EXCEPT ![c] = <<>>]
    /\ queue' = [queue EXCEPT ![d] = {}]
    /\ UNCHANGED <<now, nextID, pushTokens, disk, lag, writer, outside>>

\* The locked section of register: the new connection replaces any other of the
\* device, and the device's queue is taken out, saved without it, to be sent.
Register(d, c) ==
    /\ Unused(c)
    /\ conns' = [conns EXCEPT ![d] = c]
    /\ dev' = [dev EXCEPT ![c] = d]
    /\ sock' = [sock EXCEPT ![c] = TRUE]
    /\ pc' = [pc EXCEPT ![c] = "flushing"]
    /\ flush' = [flush EXCEPT ![c] = Prune(queue[d])]
    /\ job' = [job EXCEPT ![c] = NoJob]
    /\ out' = [out EXCEPT ![c] = <<>>]
    /\ queue' = [queue EXCEPT ![d] = {}]
    /\ \/ /\ Prune(queue[d]) # {}
          /\ Persist(nextID, queue')
       \/ /\ Prune(queue[d]) = {}
          /\ UNCHANGED <<disk, lag>>
    /\ UNCHANGED <<now, nextID, pushTokens, writer, pushing, sent, delivered, due>>

\* One turn of register's loop over `pending`, after the unlock and before the
\* writer starts.
Flush(c) ==
    /\ pc[c] = "flushing"
    /\ \E e \in flush[c] :
          /\ \A f \in flush[c] : e.env.id <= f.env.id
          /\ out' = [out EXCEPT ![c] = Offer(@, Message("deliver", e.env))]
          /\ flush' = [flush EXCEPT ![c] = @ \ {e}]
    /\ UNCHANGED <<hubVars, dev, sock, pc, job, writer, outside>>

\* register returned: `go client.writePump()`, then readPump.
StartPumps(c) ==
    /\ pc[c] = "flushing"
    /\ flush[c] = {}
    /\ pc' = [pc EXCEPT ![c] = "reading"]
    /\ writer' = [writer EXCEPT ![c] = TRUE]
    /\ UNCHANGED <<hubVars, dev, sock, flush, job, out, outside>>

-----------------------------------------------------------------------------
(* readPump: one frame at a time.                                          *)

Reading(c) == pc[c] = "reading" /\ sock[c]

\* "send", up to the unlock in Hub.route: the id is taken and the recipient
\* looked up; without a live connection the envelope is queued and a push for
\* the recipient is launched.
Route(c, d) ==
    LET env == [id |-> nextID + 1, ref |-> sent + 1, from |-> dev[c], to |-> d]
    IN  /\ Reading(c)
        /\ <<dev[c], d>> \in Traffic
        /\ sent < MaxSends
        /\ sent' = sent + 1
        /\ nextID' = nextID + 1
        /\ job' = [job EXCEPT ![c] = [target |-> conns[d], msg |-> Message("deliver", env)]]
        /\ \/ /\ conns[d] # NoConn
              /\ pc' = [pc EXCEPT ![c] = "sending"]
              /\ UNCHANGED <<queue, pushing>>
           \/ /\ conns[d] = NoConn
              /\ pc' = [pc EXCEPT ![c] = "acking"]
              /\ queue' = [queue EXCEPT ![d] = Prune(@ \cup {[env |-> env, at |-> now]})]
              /\ pushing' = IF d \in pushTokens THEN pushing \cup {d} ELSE pushing
        /\ Persist(nextID + 1, queue')
        /\ UNCHANGED <<now, conns, pushTokens, dev, sock, flush, out, writer,
                       delivered, due>>

\* Mutant of Receipt: the sender's connection is not checked for nil.
ReceiptUnchecked(c, r) ==
    /\ Reading(c)
    /\ r \in due[dev[c]]
    /\ due' = [due EXCEPT ![dev[c]] = @ \ {r}]
    /\ job' = [job EXCEPT ![c] = [target |-> conns[r.env.from], msg |-> r]]
    /\ pc' = [pc EXCEPT ![c] = "sending"]
    /\ UNCHANGED <<hubVars, dev, sock, flush, out, writer, pushing, sent, delivered>>

\* "receipt", up to the unlock in Hub.forwardStatus: a status for an envelope
\* goes to its sender, if connected.  The code forwards to whatever target the frame
\* names; the app's frame names the sender of the envelope (relay.ts), and no other
\* is sent here.
Receipt(c, r) ==
    LET target == conns[r.env.from]
    IN  /\ Reading(c)
        /\ r \in due[dev[c]]
        /\ due' = [due EXCEPT ![dev[c]] = @ \ {r}]
        /\ \/ /\ target # NoConn
              /\ job' = [job EXCEPT ![c] = [target |-> target, msg |-> r]]
              /\ pc' = [pc EXCEPT ![c] = "sending"]
           \/ /\ target = NoConn
              /\ UNCHANGED <<job, pc>>
        /\ UNCHANGED <<hubVars, dev, sock, flush, out, writer, pushing, sent, delivered>>

\* `target.send(...)` of route and forwardStatus, after the unlock.  A status
\* ends the frame; a deliver is followed by the ack.
SendTarget(c) ==
    LET j == job[c]
    IN  /\ pc[c] = "sending"
        /\ pc[j.target] # "closed"
        /\ out' = [out EXCEPT ![j.target] = Offer(@, j.msg)]
        /\ \/ /\ j.msg.kind = "deliver"
              /\ pc' = [pc EXCEPT ![c] = "acking"]
              /\ UNCHANGED job
           \/ /\ j.msg.kind # "deliver"
              /\ pc' = [pc EXCEPT ![c] = "reading"]
              /\ job' = [job EXCEPT ![c] = NoJob]
        /\ UNCHANGED <<hubVars, dev, sock, flush, writer, outside>>

\* The same send on a channel that has been closed panics: net/http recovers the
\* handler goroutine after its deferred calls have run.
SendPanics(c) ==
    /\ pc[c] = "sending"
    /\ pc[job[c].target] = "closed"
    /\ pc' = [pc EXCEPT ![c] = "unwinding"]
    /\ job' = [job EXCEPT ![c] = NoJob]
    /\ UNCHANGED <<hubVars, dev, sock, flush, out, writer, outside>>

\* Mutant of SendAck: the ack goes to the recipient's connection.
SendAckToTarget(c) ==
    /\ pc[c] = "acking"
    /\ out' = [x \in Conns |-> IF x = job[c].target
                               THEN Offer(out[x], Message("ack", job[c].msg.env)) ELSE out[x]]
    /\ pc' = [pc EXCEPT ![c] = "reading"]
    /\ job' = [job EXCEPT ![c] = NoJob]
    /\ UNCHANGED <<hubVars, dev, sock, flush, writer, outside>>

\* The ack that ends a "send" frame.
SendAck(c) ==
    /\ pc[c] = "acking"
    /\ out' = [out EXCEPT ![c] = Offer(@, Message("ack", job[c].msg.env))]
    /\ pc' = [pc EXCEPT ![c] = "reading"]
    /\ job' = [job EXCEPT ![c] = NoJob]
    /\ UNCHANGED <<hubVars, dev, sock, flush, writer, outside>>

\* "register-push" with a token.
RegisterPush(c) ==
    /\ Reading(c)
    /\ dev[c] \in PushDevices
    /\ pushTokens' = pushTokens \cup {dev[c]}
    /\ UNCHANGED <<now, nextID, conns, queue, disk, lag, connVars, outside>>

\* Mutant of Unregister: whatever connection the device has is taken out.
UnregisterAny(c) ==
    /\ \/ pc[c] = "reading" /\ ~sock[c]
       \/ pc[c] = "unwinding"
    /\ conns' = [conns EXCEPT ![dev[c]] = NoConn]
    /\ pc' = [pc EXCEPT ![c] = "closing"]
    /\ UNCHANGED <<now, nextID, queue, pushTokens, disk, lag,
                   dev, sock, flush, job, out, writer, outside>>

\* Mutant of Unregister: the test is inverted.
UnregisterOther(c) ==
    /\ \/ pc[c] = "reading" /\ ~sock[c]
       \/ pc[c] = "unwinding"
    /\ conns' = [conns EXCEPT ![dev[c]] = IF @ # c THEN NoConn ELSE @]
    /\ pc' = [pc EXCEPT ![c] = "closing"]
    /\ UNCHANGED <<now, nextID, queue, pushTokens, disk, lag,
                   dev, sock, flush, job, out, writer, outside>>

\* readPump's deferred calls: unregister, under the lock ...
Unregister(c) ==
    /\ \/ pc[c] = "reading" /\ ~sock[c]
       \/ pc[c] = "unwinding"
    /\ conns' = [conns EXCEPT ![dev[c]] = IF @ = c THEN NoConn ELSE @]
    /\ pc' = [pc EXCEPT ![c] = "closing"]
    /\ UNCHANGED <<now, nextID, queue, pushTokens, disk, lag,
                   dev, sock, flush, job, out, writer, outside>>

\* ... then close(c.out) and conn.Close().
CloseOut(c) ==
    /\ pc[c] = "closing"
    /\ pc' = [pc EXCEPT ![c] = "closed"]
    /\ sock' = [sock EXCEPT ![c] = FALSE]
    /\ UNCHANGED <<hubVars, dev, flush, job, out, writer, outside>>

-----------------------------------------------------------------------------
(* writePump, and the device at the other end of the socket.               *)

\* The head of `out` is written and reaches the device, which owes a receipt
\* for a delivered envelope: "delivered" at once, "read" when it is opened.
WriteOK(c) ==
    LET m == Head(out[c])
        d == dev[c]
    IN  /\ writer[c] /\ sock[c] /\ out[c] # <<>>
        /\ out' = [out EXCEPT ![c] = Tail(@)]
        /\ \/ /\ m.kind = "deliver"
              /\ delivered' = [delivered EXCEPT ![d] = Append(@, m.env)]
              /\ due' = [due EXCEPT ![d] = @ \cup {Message(s, m.env) : s \in Status}]
           \/ /\ m.kind # "deliver"
              /\ UNCHANGED <<delivered, due>>
        /\ UNCHANGED <<hubVars, dev, sock, pc, flush, job, writer, pushing, sent>>

\* A write into a dead socket: lost, whether WriteJSON notices (the writer
\* returns) or the kernel accepted the bytes.
WriteLost(c) ==
    /\ writer[c] /\ ~sock[c] /\ out[c] # <<>>
    /\ out' = [out EXCEPT ![c] = Tail(@)]
    /\ \/ writer' = [writer EXCEPT ![c] = FALSE]
       \/ UNCHANGED writer
    /\ UNCHANGED <<hubVars, dev, sock, pc, flush, job, outside>>

\* The range over a closed, empty channel ends.
WriteDone(c) ==
    /\ writer[c] /\ pc[c] = "closed" /\ out[c] = <<>>
    /\ writer' = [writer EXCEPT ![c] = FALSE]
    /\ UNCHANGED <<hubVars, dev, sock, pc, flush, job, out, outside>>

-----------------------------------------------------------------------------
(* The environment.                                                        *)

\* The socket dies: the device left, the network failed, or the AfterFunc timer
\* closed it at the access token's expiry.
Drop(c) ==
    /\ sock[c]
    /\ sock' = [sock EXCEPT ![c] = FALSE]
    /\ UNCHANGED <<hubVars, dev, pc, flush, job, out, writer, outside>>

\* The push goroutine ends; its outcome is only logged.
PushDone(d) ==
    /\ d \in pushing
    /\ pushing' = pushing \ {d}
    /\ UNCHANGED <<hubVars, connVars, sent, delivered, due>>

Tick ==
    /\ now < MaxTime
    /\ now' = now + 1
    /\ UNCHANGED <<nextID, conns, queue, pushTokens, disk, lag, connVars, outside>>

\* The relay process dies and starts again (NewPersistentHub): everything but
\* the file is lost.  A file that cannot be read means an empty hub.
Restart ==
    /\ \/ /\ nextID' = disk.nextID
          /\ queue' = [d \in Devices |-> Prune(disk.queue[d])]
          /\ lag' = IF lag = "synced" THEN "synced" ELSE "rewound"
       \/ /\ DiskFails
          /\ nextID' = 0
          /\ queue' = [d \in Devices |-> {}]
          /\ lag' = "rewound"
    /\ conns' = [d \in Devices |-> NoConn]
    /\ pushTokens' = {}
    /\ sock' = [c \in Conns |-> FALSE]
    /\ pc' = [c \in Conns |-> "none"]
    /\ flush' = [c \in Conns |-> {}]
    /\ job' = [c \in Conns |-> NoJob]
    /\ out' = [c \in Conns |-> <<>>]
    /\ writer' = [c \in Conns |-> FALSE]
    /\ pushing' = {}
    /\ UNCHANGED <<now, disk, dev, sent, delivered, due>>

-----------------------------------------------------------------------------
Handler(c) ==
    \/ Flush(c)
    \/ StartPumps(c)
    \/ SendTarget(c)
    \/ SendPanics(c)
    \/ SendAck(c)
    \/ Unregister(c)
    \/ CloseOut(c)

WritePump(c) ==
    \/ WriteOK(c)
    \/ WriteLost(c)
    \/ WriteDone(c)

Next ==
    \/ \E c \in Conns :
          \/ Handler(c)
          \/ WritePump(c)
          \/ RegisterPush(c)
          \/ Drop(c)
          \/ \E d \in Devices : Register(d, c) \/ Route(c, d)
          \/ \E r \in due[dev[c]] : Receipt(c, r)
    \/ \E d \in Devices : PushDone(d)
    \/ Tick
    \/ Restart

Spec == Init /\ [][Next]_vars

\* Go's scheduler runs every goroutine that is not blocked: the handler of a
\* connection goes on, and a failed read is noticed.  Nothing is assumed of the
\* devices, the network or the clock.
FairSpec == Spec /\ \A c \in Conns : WF_vars(Handler(c)) /\ WF_vars(WritePump(c))

-----------------------------------------------------------------------------
(* Properties.                                                             *)

PCs == {"none", "flushing", "reading", "sending", "acking", "unwinding",
        "closing", "closed"}

\* Every variable has its type; a handler between unlock and send has a job
\* with a real target.
TypeOK ==
    /\ now \in Nat
    /\ nextID \in Nat
    /\ conns \in [Devices -> Conns \cup {NoConn}]
    /\ queue \in [Devices -> SUBSET Queued]
    /\ pushTokens \subseteq Devices
    /\ disk \in [nextID : Nat, queue : [Devices -> SUBSET Queued]]
    /\ lag \in {"synced", "behind", "rewound"}
    /\ dev \in [Conns -> Devices]
    /\ sock \in [Conns -> BOOLEAN]
    /\ pc \in [Conns -> PCs]
    /\ flush \in [Conns -> SUBSET Queued]
    /\ DOMAIN job = Conns
    /\ \A c \in Conns :
          /\ pc[c] = "sending" => job[c] \in [target : Conns, msg : RelayMessage]
          /\ pc[c] = "acking" =>
                job[c] \in [target : Conns \cup {NoConn}, msg : RelayMessage]
    /\ out \in [Conns -> Seq(RelayMessage)]
    /\ writer \in [Conns -> BOOLEAN]
    /\ pushing \subseteq Devices
    /\ sent \in Nat
    /\ delivered \in [Devices -> Seq(Envelope)]
    /\ due \in [Devices -> SUBSET RelayMessage]

\* No envelope waits in the queue of a device that is connected: register takes
\* the queue and publishes the connection in one locked section, and route reads
\* conns in the section in which it queues (hub.go:167-175, 199-212).  Such an
\* envelope would stay until the device's next reconnect.
NoStranded == \A d \in Devices : conns[d] # NoConn => queue[d] = {}

\* The envelopes connection c still has to do with.
InHand(c) ==
    {e.env : e \in flush[c]}
        \cup {m.env : m \in ToSet(out[c])}
        \cup {j.msg.env : j \in {i \in {job[c]} : pc[c] \in {"sending", "acking"}}}

Stored(d) == {e.env : e \in queue[d] \cup disk.queue[d]}

Seen(d) == ToSet(delivered[d]) \cup {m.env : m \in due[d]}

AllInHand == UNION {InHand(c) : c \in Conns}
AllStored == UNION {Stored(d) : d \in Devices}
AllSeen == UNION {Seen(d) : d \in Devices}

InPlay == AllInHand \cup AllStored \cup AllSeen

\* The id is the envelope's identity everywhere (hub.go:194-195 "the single
\* source of truth for message identity"), across restarts at any step, as long
\* as no restart found a file that a failed save had left behind.
IdsUnique ==
    lag # "rewound" => \A e, f \in InPlay : e.id = f.id => e = f

\* A device receives an envelope at most once, whatever reconnects and restarts
\* happen between queueing, draining and writing (hub_test.go: "a later restart
\* must not re-deliver already-flushed messages").
DeliveredOnce ==
    lag # "rewound" => \A d \in Devices : IsInjective(delivered[d])

\* A restart at any moment finds in the file exactly the envelopes that are
\* queued and not past the TTL, and the last id, if the last save succeeded.
CrashKeepsQueue ==
    lag = "synced" =>
        /\ disk.nextID = nextID
        /\ \A d \in Devices : Fresh(disk.queue[d]) = Fresh(queue[d])

\* What is on a connection's channel is for the device behind it: an envelope
\* for its recipient, an ack or a status for the envelope's sender.  The target
\* pointer of a send is older than the send; it must not have become another
\* device's connection meanwhile.
Addressed ==
    \A c \in Conns : \A m \in ToSet(out[c]) :
        dev[c] = IF m.kind = "deliver" THEN m.env.to ELSE m.env.from

\* The cap and the TTL cost the oldest envelopes: one that is routed to an offline
\* device is kept, and what leaves the queue for it is older than all that stays.
QueueKeepsNewest ==
    [][\A c \in Conns : sent' # sent /\ pc[c] # pc'[c] /\ pc'[c] = "acking" =>
          LET e == job'[c].msg.env
              kept == queue'[e.to]
          IN  /\ e \in {q.env : q \in kept}
              /\ \A q \in queue[e.to] \ kept, r \in kept : r.env.id > q.env.id]_vars

\* A registered connection gives way only to a newer one of the same device, to
\* its own teardown or to a restart: the late teardown of an old connection
\* never takes the live one out of conns (unregister's guard, hub.go:186).
OwnTeardown ==
    [][\A d \in Devices :
          conns[d] # NoConn /\ conns'[d] # conns[d] =>
              \/ pc'[conns[d]] \in {"closing", "none"}
              \/ conns'[d] # NoConn /\ pc'[conns'[d]] = "flushing"]_vars

\* A connection whose socket is dead does not stay the device's target: its
\* handler gets back to the read, which fails, and unregisters it.  Until then
\* envelopes for the device are lost; if a send could block they always would be.
DeadSocketLeaves ==
    \A c \in Conns, d \in Devices :
        (conns[d] = c /\ ~sock[c]) ~> (conns[d] # c)

(* What a comment says, and the code does not do.                          *)

\* hub.go:164 "register attaches a client and immediately flushes any queued
\* envelopes that accumulated while it was offline": every turn of the loop
\* over `pending` puts its envelope on the channel.
FlushSendsAll ==
    [][\A c \in Conns : flush'[c] # flush[c] /\ flush[c] # {} /\ pc'[c] = "flushing"
          => Len(out'[c]) = Len(out[c]) + 1]_vars
=============================================================================
