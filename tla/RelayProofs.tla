---------------------------- MODULE RelayProofs ----------------------------
(***************************************************************************)
(* Proofs about the relay for any devices, connections, capacities and     *)
(* bounds.                                                                 *)
(***************************************************************************)
EXTENDS Relay, FiniteSetTheorems, WellFoundedInduction, TLAPS

\* Putting a message on an open channel keeps it a channel of messages.
LEMMA OfferType ==
    ASSUME NEW S, NEW s \in Seq(S), NEW m \in S
    PROVE  Offer(s, m) \in Seq(S)
BY DEF Offer

\* Pruning only removes entries (pruneQueueLocked, hub.go:93-118).
LEMMA PruneSubset ==
    ASSUME NEW q
    PROVE  Prune(q) \subseteq Fresh(q) /\ Fresh(q) \subseteq q
BY DEF Prune, Fresh

\* Taking the head off a non-empty channel.
LEMMA HeadTailType ==
    ASSUME NEW S, NEW s \in Seq(S), s # <<>>
    PROVE  Head(s) \in S /\ Tail(s) \in Seq(S)
OBVIOUS

DiskType == [nextID : Nat, queue : [Devices -> SUBSET Queued]]
LagType == {"synced", "behind", "rewound"}

\* A save leaves a well-formed file, whether it succeeds or not (persistLocked).
LEMMA PersistType ==
    ASSUME NEW n \in Nat, NEW q \in [Devices -> SUBSET Queued],
           disk \in DiskType, lag \in LagType, Persist(n, q)
    PROVE  disk' \in DiskType /\ lag' \in LagType
BY DEF Persist, DiskType, LagType

\* After a save the file holds the queues given, or what it held before.
LEMMA PersistQueue ==
    ASSUME NEW n, NEW q, Persist(n, q)
    PROVE  disk' = [nextID |-> n, queue |-> q] \/ disk' = disk
BY DEF Persist

-----------------------------------------------------------------------------
\* Every step of the relay keeps every variable in its type.
LEMMA TypeStep == TypeOK /\ [Next]_vars => TypeOK'
<1> SUFFICES ASSUME TypeOK, [Next]_vars
             PROVE  TypeOK'
  OBVIOUS
<1> USE RelayAssumption
<1>1. ASSUME NEW c \in Conns, NEW d \in Devices, Register(d, c)
      PROVE  TypeOK'
  <2>1. Prune(queue[d]) \subseteq Queued
    BY PruneSubset DEF TypeOK
  <2>2. queue' \in [Devices -> SUBSET Queued]
    BY <1>1 DEF Register, TypeOK
  <2>3. disk' \in DiskType /\ lag' \in LagType
    <3>1. disk \in DiskType /\ lag \in LagType /\ nextID \in Nat
      BY DEF TypeOK, DiskType, LagType
    <3>2. CASE Persist(nextID, queue')
      BY <2>2, <3>1, <3>2, PersistType
    <3>3. CASE UNCHANGED <<disk, lag>>
      BY <3>1, <3>3
    <3> QED
      BY <1>1, <3>2, <3>3 DEF Register
  <2> QED
    BY <1>1, <2>1, <2>2, <2>3 DEF Register, TypeOK, PCs, DiskType, LagType
<1>2. ASSUME NEW c \in Conns, Flush(c)
      PROVE  TypeOK'
  <2> PICK e \in flush[c] :
          /\ out' = [out EXCEPT ![c] = Offer(@, Message("deliver", e.env))]
          /\ flush' = [flush EXCEPT ![c] = @ \ {e}]
    BY <1>2 DEF Flush
  <2>1. Message("deliver", e.env) \in RelayMessage
    BY DEF Message, RelayMessage, TypeOK, Queued
  <2>2. Offer(out[c], Message("deliver", e.env)) \in Seq(RelayMessage)
    BY <2>1, OfferType DEF TypeOK
  <2> QED
    BY <1>2, <2>2 DEF Flush, TypeOK, PCs, hubVars, outside
<1>3. ASSUME NEW c \in Conns, StartPumps(c)
      PROVE  TypeOK'
  BY <1>3 DEF StartPumps, TypeOK, PCs, hubVars, outside
<1>4. ASSUME NEW c \in Conns, NEW d \in Devices, Route(c, d)
      PROVE  TypeOK'
  <2> DEFINE env == [id |-> nextID + 1, ref |-> sent + 1, from |-> dev[c], to |-> d]
             msg == Message("deliver", env)
  <2>1. env \in Envelope /\ msg \in RelayMessage
    BY DEF Envelope, TypeOK, Message, RelayMessage
  <2>2. queue' \in [Devices -> SUBSET Queued]
    <3>1. Prune(queue[d] \cup {[env |-> env, at |-> now]}) \subseteq queue[d] \cup {[env |-> env, at |-> now]}
      BY PruneSubset
    <3>2. [env |-> env, at |-> now] \in Queued
      BY <2>1 DEF Queued, TypeOK
    <3>3. Prune(queue[d] \cup {[env |-> env, at |-> now]}) \subseteq Queued
      BY <3>1, <3>2 DEF TypeOK
    <3>4. \/ queue' = queue
          \/ queue' = [queue EXCEPT ![d] = Prune(queue[d] \cup {[env |-> env, at |-> now]})]
      BY <1>4 DEF Route
    <3>5. queue \in [Devices -> SUBSET Queued]
      BY DEF TypeOK
    <3> HIDE DEF env
    <3> QED
      BY <3>3, <3>4, <3>5
  <2>3. disk' \in DiskType /\ lag' \in LagType
    <3>1. disk \in DiskType /\ lag \in LagType /\ nextID + 1 \in Nat
      BY DEF TypeOK, DiskType, LagType
    <3>2. Persist(nextID + 1, queue')
      BY <1>4 DEF Route
    <3> QED
      BY <2>2, <3>1, <3>2, PersistType
  <2>4. job' = [job EXCEPT ![c] = [target |-> conns[d], msg |-> msg]]
    BY <1>4 DEF Route
  <2>5. pc' \in [Conns -> PCs]
    BY <1>4 DEF Route, TypeOK, PCs
  <2>6. \A b \in Conns :
          /\ pc'[b] = "sending" => job'[b] \in [target : Conns, msg : RelayMessage]
          /\ pc'[b] = "acking" => job'[b] \in [target : Conns \cup {NoConn}, msg : RelayMessage]
    BY <1>4, <2>1, <2>4 DEF Route, TypeOK
  <2>7. DOMAIN job' = Conns /\ sent' \in Nat /\ nextID' \in Nat /\ pushing' \subseteq Devices
    BY <1>4, <2>4 DEF Route, TypeOK
  <2>8. UNCHANGED <<now, conns, pushTokens, dev, sock, flush, out, writer, delivered, due>>
    BY <1>4 DEF Route
  <2> HIDE DEF env, msg
  <2> QED
    BY <2>2, <2>3, <2>5, <2>6, <2>7, <2>8 DEF TypeOK, DiskType, LagType
<1>5. ASSUME NEW c \in Conns, NEW r \in due[dev[c]], Receipt(c, r)
      PROVE  TypeOK'
  <2>1. r \in RelayMessage /\ r.env.from \in Devices
    BY DEF TypeOK, RelayMessage, Envelope
  <2>2. due' \in [Devices -> SUBSET RelayMessage]
    BY <1>5 DEF Receipt, TypeOK
  <2>3. CASE conns[r.env.from] = NoConn
    BY <1>5, <2>2, <2>3 DEF Receipt, TypeOK, hubVars
  <2>4. CASE conns[r.env.from] # NoConn
    <3>1. conns[r.env.from] \in Conns
      BY <2>1, <2>4 DEF TypeOK
    <3>2. /\ job' = [job EXCEPT ![c] = [target |-> conns[r.env.from], msg |-> r]]
          /\ pc' = [pc EXCEPT ![c] = "sending"]
      BY <1>5, <2>4 DEF Receipt
    <3> QED
      BY <1>5, <2>1, <2>2, <3>1, <3>2 DEF Receipt, TypeOK, PCs, hubVars
  <2> QED
    BY <2>3, <2>4
<1>6. ASSUME NEW c \in Conns, SendTarget(c)
      PROVE  TypeOK'
  <2>1. job[c] \in [target : Conns, msg : RelayMessage]
    BY <1>6 DEF SendTarget, TypeOK
  <2>2. Offer(out[job[c].target], job[c].msg) \in Seq(RelayMessage)
    BY <2>1, OfferType DEF TypeOK
  <2>3. out' \in [Conns -> Seq(RelayMessage)] /\ pc' \in [Conns -> PCs]
    <3>1. out' \in [Conns -> Seq(RelayMessage)]
      BY <1>6, <2>1, <2>2 DEF SendTarget, TypeOK
    <3>2. pc' \in [Conns -> PCs]
      BY <1>6 DEF SendTarget, TypeOK, PCs
    <3> QED
      BY <3>1, <3>2
  <2>4. /\ DOMAIN job' = Conns
        /\ \A b \in Conns :
             /\ pc'[b] = "sending" => job'[b] \in [target : Conns, msg : RelayMessage]
             /\ pc'[b] = "acking" => job'[b] \in [target : Conns \cup {NoConn}, msg : RelayMessage]
    <3>1. CASE job[c].msg.kind = "deliver"
      BY <1>6, <2>1, <3>1 DEF SendTarget, TypeOK
    <3>2. CASE job[c].msg.kind # "deliver"
      <4>1. pc' = [pc EXCEPT ![c] = "reading"] /\ job' = [job EXCEPT ![c] = NoJob]
        BY <1>6, <3>2 DEF SendTarget
      <4>2. pc'[c] = "reading" /\ \A b \in Conns \ {c} : pc'[b] = pc[b] /\ job'[b] = job[b]
        BY <4>1 DEF TypeOK
      <4>3. DOMAIN job' = Conns
        BY <4>1 DEF TypeOK
      <4> QED
        BY <4>2, <4>3 DEF TypeOK
    <3> QED
      BY <3>1, <3>2
  <2> QED
    BY <1>6, <2>1, <2>2, <2>3, <2>4 DEF SendTarget, TypeOK, hubVars, outside
<1>7. ASSUME NEW c \in Conns, SendPanics(c)
      PROVE  TypeOK'
  BY <1>7 DEF SendPanics, TypeOK, PCs, hubVars, outside
<1>8. ASSUME NEW c \in Conns, SendAck(c)
      PROVE  TypeOK'
  <2>1. Message("ack", job[c].msg.env) \in RelayMessage
    BY <1>8 DEF SendAck, TypeOK, Message, RelayMessage
  <2>2. Offer(out[c], Message("ack", job[c].msg.env)) \in Seq(RelayMessage)
    BY <2>1, OfferType DEF TypeOK
  <2> QED
    BY <1>8, <2>2 DEF SendAck, TypeOK, PCs, hubVars, outside
<1>9. ASSUME NEW c \in Conns, RegisterPush(c) \/ Drop(c) \/ Unregister(c) \/ CloseOut(c)
      PROVE  TypeOK'
  <2>1. CASE RegisterPush(c)
    BY <2>1 DEF RegisterPush, TypeOK, connVars, outside
  <2>2. CASE Drop(c)
    BY <2>2 DEF Drop, TypeOK, hubVars, outside
  <2>3. CASE Unregister(c)
    BY <2>3 DEF Unregister, TypeOK, PCs, outside
  <2>4. CASE CloseOut(c)
    BY <2>4 DEF CloseOut, TypeOK, PCs, hubVars, outside
  <2> QED
    BY <1>9, <2>1, <2>2, <2>3, <2>4
<1>10. ASSUME NEW c \in Conns, WriteOK(c)
       PROVE  TypeOK'
  <2>1. Head(out[c]) \in RelayMessage /\ Tail(out[c]) \in Seq(RelayMessage)
    BY <1>10, HeadTailType DEF WriteOK, TypeOK
  <2>2. \A s \in Status : Message(s, Head(out[c]).env) \in RelayMessage
    BY <2>1, RelayAssumption DEF Message, RelayMessage
  <2>3. delivered' \in [Devices -> Seq(Envelope)]
    <3>1. Head(out[c]).env \in Envelope /\ dev[c] \in Devices
      BY <2>1 DEF RelayMessage, TypeOK
    <3>2. Append(delivered[dev[c]], Head(out[c]).env) \in Seq(Envelope)
      BY <3>1 DEF TypeOK
    <3>3. \/ delivered' = delivered
          \/ delivered' = [delivered EXCEPT ![dev[c]] = Append(delivered[dev[c]], Head(out[c]).env)]
      BY <1>10 DEF WriteOK
    <3>4. delivered \in [Devices -> Seq(Envelope)]
      BY DEF TypeOK
    <3> QED
      BY <3>2, <3>3, <3>4
  <2>4. due' \in [Devices -> SUBSET RelayMessage]
    <3>1. due[dev[c]] \cup {Message(s, Head(out[c]).env) : s \in Status} \subseteq RelayMessage
      BY <2>2 DEF TypeOK
    <3>2. \/ due' = due
          \/ due' = [due EXCEPT ![dev[c]] = due[dev[c]] \cup {Message(s, Head(out[c]).env) : s \in Status}]
      BY <1>10 DEF WriteOK
    <3>3. due \in [Devices -> SUBSET RelayMessage]
      BY DEF TypeOK
    <3> QED
      BY <3>1, <3>2, <3>3
  <2> QED
    BY <1>10, <2>1, <2>3, <2>4 DEF WriteOK, TypeOK, hubVars
<1>11. ASSUME NEW c \in Conns, WriteLost(c) \/ WriteDone(c)
       PROVE  TypeOK'
  <2>1. out[c] # <<>> => Tail(out[c]) \in Seq(RelayMessage)
    BY HeadTailType DEF TypeOK
  <2>2. CASE WriteLost(c)
    BY <2>1, <2>2 DEF WriteLost, TypeOK, hubVars, outside
  <2>3. CASE WriteDone(c)
    BY <2>3 DEF WriteDone, TypeOK, hubVars, outside
  <2> QED
    BY <1>11, <2>2, <2>3
<1>12. ASSUME Tick \/ \E d \in Devices : PushDone(d)
       PROVE  TypeOK'
  BY <1>12 DEF Tick, PushDone, TypeOK, hubVars, connVars, outside
<1>13. ASSUME Restart
       PROVE  TypeOK'
  <2>1. \A d \in Devices : Prune(disk.queue[d]) \subseteq Queued
    BY PruneSubset DEF TypeOK
  <2> QED
    BY <1>13, <2>1 DEF Restart, TypeOK, PCs
<1>14. CASE UNCHANGED vars
  BY <1>14 DEF vars, TypeOK
<1> QED
  BY <1>1, <1>2, <1>3, <1>4, <1>5, <1>6, <1>7, <1>8, <1>9, <1>10, <1>11, <1>12, <1>13, <1>14
     DEF Next, Handler, WritePump

\* The relay's type invariant, for every instance.
THEOREM TypeCorrect == Spec => []TypeOK
<1>1. Init => TypeOK
  BY RelayAssumption DEF Init, TypeOK, PCs, NoJob
<1> QED
  BY <1>1, TypeStep, PTL DEF Spec

-----------------------------------------------------------------------------
\* No envelope is left in the queue of a connected device: register and route
\* decide under the lock, so TypeOK is all the invariant needs.
LEMMA NoStrandedStep == TypeOK /\ NoStranded /\ [Next]_vars => NoStranded'
<1> SUFFICES ASSUME TypeOK, NoStranded, [Next]_vars
             PROVE  NoStranded'
  OBVIOUS
<1> USE RelayAssumption
<1>1. ASSUME NEW c \in Conns, NEW d \in Devices, Register(d, c)
      PROVE  NoStranded'
  BY <1>1 DEF Register, TypeOK, NoStranded
<1>2. ASSUME NEW c \in Conns, NEW d \in Devices, Route(c, d)
      PROVE  NoStranded'
  <2>1. conns' = conns
    BY <1>2 DEF Route
  <2>2. \A b \in Devices : conns[b] # NoConn => queue'[b] = queue[b]
    BY <1>2 DEF Route, TypeOK
  <2> QED
    BY <2>1, <2>2 DEF NoStranded
<1>3. ASSUME NEW c \in Conns, Unregister(c)
      PROVE  NoStranded'
  BY <1>3 DEF Unregister, TypeOK, NoStranded
<1>4. CASE Restart
  BY <1>4 DEF Restart, NoStranded
<1>5. ASSUME UNCHANGED <<conns, queue>>
      PROVE  NoStranded'
  BY <1>5 DEF NoStranded
<1>6. ASSUME NEW c \in Conns, Handler(c), ~Unregister(c)
      PROVE  UNCHANGED <<conns, queue>>
  BY <1>6 DEF Handler, Flush, StartPumps, SendTarget, SendPanics, SendAck, CloseOut, hubVars
<1>7. ASSUME NEW c \in Conns,
             WritePump(c) \/ RegisterPush(c) \/ Drop(c) \/ \E r \in due[dev[c]] : Receipt(c, r)
      PROVE  UNCHANGED <<conns, queue>>
  BY <1>7 DEF WritePump, WriteOK, WriteLost, WriteDone, RegisterPush, Drop, Receipt, hubVars
<1>8. ASSUME Tick \/ (\E d \in Devices : PushDone(d)) \/ UNCHANGED vars
      PROVE  UNCHANGED <<conns, queue>>
  BY <1>8 DEF Tick, PushDone, hubVars, vars
<1> QED
  BY <1>1, <1>2, <1>3, <1>4, <1>5, <1>6, <1>7, <1>8 DEF Next

\* hub.go:166-212: no envelope waits in the queue of a device that is connected.
THEOREM NothingStranded == Spec => []NoStranded
<1>1. Init => NoStranded
  BY DEF Init, NoStranded
<1> QED
  BY <1>1, TypeCorrect, NoStrandedStep, PTL DEF Spec

-----------------------------------------------------------------------------
(***************************************************************************)
(* Messages reach the device they are for.  The argument is about the      *)
(* `target` pointer a handler keeps after the unlock: it points to a       *)
(* connection of the right device, and that Client object is not reused    *)
(* for another connection while the pointer exists.                        *)
(***************************************************************************)
\* The device a message is for.
Dest(m) == IF m.kind = "deliver" THEN m.env.to ELSE m.env.from

ConnsRight ==
    \A d \in Devices : conns[d] # NoConn =>
        dev[conns[d]] = d /\ pc[conns[d]] \notin {"none", "closing", "closed"}

StoredRight ==
    \A d \in Devices : \A e \in queue[d] \cup disk.queue[d] : e.env.to = d

FlushRight == \A c \in Conns : \A e \in flush[c] : e.env.to = dev[c]

JobRight ==
    \A c \in Conns :
        /\ pc[c] = "sending" =>
              /\ pc[job[c].target] # "none"
              /\ dev[job[c].target] = Dest(job[c].msg)
              /\ job[c].msg.kind = "deliver" => job[c].msg.env.from = dev[c]
        /\ pc[c] = "acking" => job[c].msg.env.from = dev[c]

DueRight == \A d \in Devices : \A m \in due[d] : m.kind \in Status

OutRight == \A c \in Conns : \A i \in 1..Len(out[c]) : dev[c] = Dest(out[c][i])

AddressInv == ConnsRight /\ StoredRight /\ FlushRight /\ JobRight /\ DueRight /\ OutRight

\* What a send leaves on a channel: what was there, and the message.
LEMMA OfferElements ==
    ASSUME NEW S, NEW s \in Seq(S), NEW m \in S, NEW i \in 1..Len(Offer(s, m))
    PROVE  Offer(s, m)[i] = m \/ (i \in 1..Len(s) /\ Offer(s, m)[i] = s[i])
BY DEF Offer

\* What taking the head leaves.
LEMMA TailElements ==
    ASSUME NEW S, NEW s \in Seq(S), s # <<>>, NEW i \in 1..Len(Tail(s))
    PROVE  i + 1 \in 1..Len(s) /\ Tail(s)[i] = s[i + 1]
OBVIOUS

\* No step sends a message to a device it is not for.
LEMMA AddressStep == TypeOK /\ AddressInv /\ [Next]_vars => AddressInv'
<1> SUFFICES ASSUME TypeOK, AddressInv, [Next]_vars
             PROVE  AddressInv'
  OBVIOUS
<1> USE RelayAssumption
<1>1. ASSUME NEW c \in Conns, NEW d \in Devices, Register(d, c)
      PROVE  AddressInv'
  <2>1. /\ conns' = [conns EXCEPT ![d] = c] /\ dev' = [dev EXCEPT ![c] = d]
        /\ pc' = [pc EXCEPT ![c] = "flushing"] /\ job' = [job EXCEPT ![c] = NoJob]
        /\ out' = [out EXCEPT ![c] = <<>>] /\ queue' = [queue EXCEPT ![d] = {}]
        /\ flush' = [flush EXCEPT ![c] = Prune(queue[d])] /\ due' = due
    BY <1>1 DEF Register
  <2>2. pc[c] \in {"none", "closed"}
    BY <1>1 DEF Register, Unused
  <2>3. \A b \in Devices : conns[b] # c
    BY <2>2 DEF AddressInv, ConnsRight, TypeOK
  <2>4. \A b \in Conns : pc[b] = "sending" => job[b].target # c
    BY <1>1 DEF Register, Unused, AddressInv, JobRight
  <2>5. ConnsRight'
    BY <2>1, <2>3 DEF ConnsRight, AddressInv, TypeOK
  <2>6. StoredRight'
    <3>1. disk'.queue = queue' \/ disk' = disk
      <4>1. Persist(nextID, queue') \/ disk' = disk
        BY <1>1 DEF Register
      <4> QED
        BY <4>1, PersistQueue
    <3> QED
      BY <2>1, <3>1 DEF StoredRight, AddressInv, TypeOK
  <2>7. FlushRight'
    BY <2>1, PruneSubset DEF FlushRight, StoredRight, AddressInv, TypeOK
  <2>8. JobRight'
    BY <2>1, <2>2, <2>4 DEF JobRight, AddressInv, TypeOK
  <2>9. DueRight' /\ OutRight'
    BY <2>1 DEF DueRight, OutRight, AddressInv, TypeOK
  <2> QED
    BY <2>5, <2>6, <2>7, <2>8, <2>9 DEF AddressInv
<1>2. ASSUME NEW c \in Conns, Flush(c)
      PROVE  AddressInv'
  <2> PICK e \in flush[c] :
          /\ out' = [out EXCEPT ![c] = Offer(@, Message("deliver", e.env))]
          /\ flush' = [flush EXCEPT ![c] = @ \ {e}]
    BY <1>2 DEF Flush
  <2>1. UNCHANGED <<conns, queue, disk, dev, pc, job, due>>
    BY <1>2 DEF Flush, hubVars, outside
  <2>2. OutRight'
    <3> DEFINE m == Message("deliver", e.env)
    <3>1. m \in RelayMessage /\ Dest(m) = dev[c]
      BY DEF Message, RelayMessage, Dest, AddressInv, FlushRight, TypeOK, Queued
    <3>2. \A i \in 1..Len(Offer(out[c], m)) :
             Offer(out[c], m)[i] = m \/ (i \in 1..Len(out[c]) /\ Offer(out[c], m)[i] = out[c][i])
      BY <3>1, OfferElements DEF TypeOK
    <3> HIDE DEF m
    <3> QED
      BY <2>1, <3>1, <3>2 DEF OutRight, AddressInv, TypeOK, m
  <2> QED
    BY <2>1, <2>2 DEF AddressInv, ConnsRight, StoredRight, FlushRight, JobRight, DueRight, TypeOK
<1>3. ASSUME NEW c \in Conns, NEW d \in Devices, Route(c, d)
      PROVE  AddressInv'
  <2> DEFINE env == [id |-> nextID + 1, ref |-> sent + 1, from |-> dev[c], to |-> d]
             entry == [env |-> env, at |-> now]
  <2>1. UNCHANGED <<conns, dev, flush, out, due>>
    BY <1>3 DEF Route
  <2>2. pc[c] = "reading" /\ job' = [job EXCEPT ![c] = [target |-> conns[d], msg |-> Message("deliver", env)]]
    BY <1>3 DEF Route, Reading
  <2>3. \/ pc' = [pc EXCEPT ![c] = "sending"] /\ conns[d] # NoConn
        \/ pc' = [pc EXCEPT ![c] = "acking"]
    BY <1>3 DEF Route
  <2>4. StoredRight'
    <3>1. queue' = queue \/ queue' = [queue EXCEPT ![d] = Prune(queue[d] \cup {entry})]
      BY <1>3 DEF Route
    <3>2. Prune(queue[d] \cup {entry}) \subseteq queue[d] \cup {entry}
      BY PruneSubset
    <3>3. entry.env.to = d
      OBVIOUS
    <3>4. disk'.queue = queue' \/ disk' = disk
      <4>1. Persist(nextID + 1, queue')
        BY <1>3 DEF Route
      <4> QED
        BY <4>1, PersistQueue
    <3> HIDE DEF entry
    <3>5. \A b \in Devices : \A e \in queue'[b] : e.env.to = b
      <4>1. queue \in [Devices -> SUBSET Queued] /\ \A b \in Devices : \A e \in queue[b] : e.env.to = b
        BY DEF StoredRight, AddressInv, TypeOK
      <4>2. \A e \in Prune(queue[d] \cup {entry}) : e.env.to = d
        BY <3>2, <3>3, <4>1
      <4> QED
        BY <3>1, <4>1, <4>2
    <3> QED
      BY <3>4, <3>5 DEF StoredRight, AddressInv
  <2>5. ConnsRight'
    BY <2>1, <2>2, <2>3 DEF ConnsRight, AddressInv, TypeOK
  <2>6. JobRight'
    <3>1. CASE pc' = [pc EXCEPT ![c] = "sending"] /\ conns[d] # NoConn
      <4>1. dev[conns[d]] = d /\ conns[d] \in Conns /\ pc[conns[d]] # "none"
        BY <3>1 DEF AddressInv, ConnsRight, TypeOK
      <4>2. job'[c].target = conns[d] /\ job'[c].msg.kind = "deliver" /\ job'[c].msg.env.from = dev[c] /\ job'[c].msg.env.to = d
        BY <2>2 DEF Message, TypeOK
      <4>3. \A b \in Conns \ {c} : job'[b] = job[b] /\ pc'[b] = pc[b]
        BY <2>2, <3>1 DEF TypeOK
      <4> QED
        BY <2>1, <3>1, <4>1, <4>2, <4>3 DEF JobRight, AddressInv, TypeOK, Dest
    <3>2. CASE pc' = [pc EXCEPT ![c] = "acking"]
      <4>2. job'[c].msg.env.from = dev[c]
        BY <2>2 DEF Message, TypeOK
      <4>3. \A b \in Conns \ {c} : job'[b] = job[b] /\ pc'[b] = pc[b]
        BY <2>2, <3>2 DEF TypeOK
      <4> QED
        BY <2>1, <2>2, <3>2, <4>2, <4>3 DEF JobRight, AddressInv, TypeOK
    <3> QED
      BY <2>3, <3>1, <3>2
  <2>7. FlushRight' /\ DueRight' /\ OutRight'
    BY <2>1 DEF FlushRight, DueRight, OutRight, AddressInv
  <2> QED
    BY <2>4, <2>5, <2>6, <2>7 DEF AddressInv
<1>4. ASSUME NEW c \in Conns, NEW r \in due[dev[c]], Receipt(c, r)
      PROVE  AddressInv'
  <2>1. UNCHANGED <<conns, queue, disk, dev, flush, out>> /\ pc[c] = "reading"
    BY <1>4 DEF Receipt, Reading, hubVars
  <2>2. DueRight'
    BY <1>4 DEF Receipt, DueRight, AddressInv, TypeOK
  <2>3. r \in RelayMessage /\ r.kind \in Status /\ r.env.from \in Devices
    BY DEF AddressInv, DueRight, TypeOK, RelayMessage, Envelope
  <2>4. Dest(r) = r.env.from
    BY <2>3 DEF Dest
  <2>5. \/ UNCHANGED <<job, pc>>
        \/ /\ conns[r.env.from] # NoConn
           /\ job' = [job EXCEPT ![c] = [target |-> conns[r.env.from], msg |-> r]]
           /\ pc' = [pc EXCEPT ![c] = "sending"]
    BY <1>4 DEF Receipt
  <2>6. JobRight'
    BY <2>1, <2>3, <2>4, <2>5 DEF JobRight, ConnsRight, AddressInv, TypeOK
  <2>7. ConnsRight'
    BY <2>1, <2>5 DEF ConnsRight, AddressInv, TypeOK
  <2> QED
    BY <2>1, <2>2, <2>6, <2>7 DEF AddressInv, StoredRight, FlushRight, OutRight
<1>5. ASSUME NEW c \in Conns, SendTarget(c)
      PROVE  AddressInv'
  <2> DEFINE t == job[c].target
             m == job[c].msg
  <2>1. t \in Conns /\ m \in RelayMessage /\ dev[t] = Dest(m) /\ pc[c] = "sending"
    BY <1>5 DEF SendTarget, TypeOK, AddressInv, JobRight
  <2>2. UNCHANGED <<conns, queue, disk, dev, flush, due>> /\ out' = [out EXCEPT ![t] = Offer(out[t], m)]
    BY <1>5 DEF SendTarget, hubVars, outside
  <2>3. \/ pc' = [pc EXCEPT ![c] = "acking"] /\ job' = job /\ m.kind = "deliver"
        \/ pc' = [pc EXCEPT ![c] = "reading"] /\ job' = [job EXCEPT ![c] = NoJob]
    BY <1>5 DEF SendTarget
  <2>4. OutRight'
    <3>1. \A i \in 1..Len(Offer(out[t], m)) :
             Offer(out[t], m)[i] = m \/ (i \in 1..Len(out[t]) /\ Offer(out[t], m)[i] = out[t][i])
      BY <2>1, OfferElements DEF TypeOK
    <3> HIDE DEF m, t
    <3> QED
      BY <2>1, <2>2, <3>1 DEF OutRight, AddressInv, TypeOK
  <2>5. JobRight'
    <3>1. CASE pc' = [pc EXCEPT ![c] = "acking"] /\ job' = job /\ m.kind = "deliver"
      BY <2>1, <2>2, <3>1 DEF JobRight, AddressInv, TypeOK
    <3>2. CASE pc' = [pc EXCEPT ![c] = "reading"] /\ job' = [job EXCEPT ![c] = NoJob]
      BY <2>1, <2>2, <3>2 DEF JobRight, AddressInv, TypeOK
    <3> QED
      BY <2>3, <3>1, <3>2
  <2>6. ConnsRight'
    BY <2>1, <2>2, <2>3 DEF ConnsRight, AddressInv, TypeOK
  <2> QED
    BY <2>2, <2>4, <2>5, <2>6 DEF AddressInv, StoredRight, FlushRight, DueRight
<1>6. ASSUME NEW c \in Conns, SendAck(c)
      PROVE  AddressInv'
  <2> DEFINE m == Message("ack", job[c].msg.env)
  <2>1. pc[c] = "acking" /\ m \in RelayMessage /\ Dest(m) = dev[c]
    BY <1>6 DEF SendAck, TypeOK, Message, RelayMessage, AddressInv, JobRight, Dest
  <2>2. /\ UNCHANGED <<conns, queue, disk, dev, flush, due>>
        /\ out' = [out EXCEPT ![c] = Offer(out[c], m)]
        /\ pc' = [pc EXCEPT ![c] = "reading"] /\ job' = [job EXCEPT ![c] = NoJob]
    BY <1>6 DEF SendAck, hubVars, outside
  <2>3. OutRight'
    <3>1. \A i \in 1..Len(Offer(out[c], m)) :
             Offer(out[c], m)[i] = m \/ (i \in 1..Len(out[c]) /\ Offer(out[c], m)[i] = out[c][i])
      BY <2>1, OfferElements DEF TypeOK
    <3> HIDE DEF m
    <3> QED
      BY <2>1, <2>2, <3>1 DEF OutRight, AddressInv, TypeOK
  <2>4. JobRight' /\ ConnsRight'
    BY <2>1, <2>2 DEF JobRight, ConnsRight, AddressInv, TypeOK
  <2> QED
    BY <2>2, <2>3, <2>4 DEF AddressInv, StoredRight, FlushRight, DueRight
<1>7. ASSUME NEW c \in Conns, StartPumps(c) \/ SendPanics(c) \/ CloseOut(c)
      PROVE  AddressInv'
  <2>1. UNCHANGED <<conns, queue, disk, dev, flush, out, due>>
    BY <1>7 DEF StartPumps, SendPanics, CloseOut, hubVars, outside
  <2>2. \/ pc[c] = "flushing" /\ pc' = [pc EXCEPT ![c] = "reading"] /\ job' = job
        \/ pc[c] = "sending" /\ pc' = [pc EXCEPT ![c] = "unwinding"] /\ job' = [job EXCEPT ![c] = NoJob]
        \/ pc[c] = "closing" /\ pc' = [pc EXCEPT ![c] = "closed"] /\ job' = job
    BY <1>7 DEF StartPumps, SendPanics, CloseOut
  <2>3. ConnsRight'
    BY <2>1, <2>2 DEF ConnsRight, AddressInv, TypeOK
  <2>4. JobRight'
    BY <2>1, <2>2 DEF JobRight, AddressInv, TypeOK
  <2> QED
    BY <2>1, <2>3, <2>4 DEF AddressInv, StoredRight, FlushRight, DueRight, OutRight
<1>8. ASSUME NEW c \in Conns, Unregister(c)
      PROVE  AddressInv'
  <2>1. UNCHANGED <<queue, disk, dev, flush, job, out, due>> /\ pc' = [pc EXCEPT ![c] = "closing"]
        /\ pc[c] \in {"reading", "unwinding"}
    BY <1>8 DEF Unregister, outside
  <2>2. ConnsRight'
    BY <1>8, <2>1 DEF Unregister, ConnsRight, AddressInv, TypeOK
  <2>3. JobRight'
    BY <2>1 DEF JobRight, AddressInv, TypeOK
  <2> QED
    BY <2>1, <2>2, <2>3 DEF AddressInv, StoredRight, FlushRight, DueRight, OutRight
<1>9. ASSUME NEW c \in Conns, WriteOK(c) \/ WriteLost(c)
      PROVE  AddressInv'
  <2>1. UNCHANGED <<conns, queue, disk, dev, pc, flush, job>> /\ out[c] # <<>> /\ out' = [out EXCEPT ![c] = Tail(out[c])]
    BY <1>9 DEF WriteOK, WriteLost, hubVars
  <2>2. OutRight'
    <3>1. \A i \in 1..Len(Tail(out[c])) : i + 1 \in 1..Len(out[c]) /\ Tail(out[c])[i] = out[c][i + 1]
      BY <2>1, TailElements DEF TypeOK
    <3> QED
      BY <2>1, <3>1 DEF OutRight, AddressInv, TypeOK
  <2>3. DueRight'
    <3>1. \/ due' = due
          \/ due' = [due EXCEPT ![dev[c]] = @ \cup {Message(s, Head(out[c]).env) : s \in Status}]
      BY <1>9 DEF WriteOK, WriteLost, outside
    <3>2. \A m \in {Message(s, Head(out[c]).env) : s \in Status} : m.kind \in Status
      BY DEF Message
    <3>3. due \in [Devices -> SUBSET RelayMessage] /\ \A d \in Devices : \A m \in due[d] : m.kind \in Status
      BY DEF DueRight, AddressInv, TypeOK
    <3> QED
      BY <3>1, <3>2, <3>3 DEF DueRight
  <2> QED
    BY <2>1, <2>2, <2>3 DEF AddressInv, ConnsRight, StoredRight, FlushRight, JobRight
<1>10. ASSUME UNCHANGED <<conns, queue, disk, dev, pc, flush, job, out, due>>
       PROVE  AddressInv'
  BY <1>10 DEF AddressInv, ConnsRight, StoredRight, FlushRight, JobRight, DueRight, OutRight
<1>11. CASE Restart
  <2>1. \A d \in Devices : queue'[d] \subseteq disk.queue[d]
    BY <1>11, PruneSubset DEF Restart, TypeOK
  <2>2. StoredRight'
    BY <1>11, <2>1 DEF Restart, StoredRight, AddressInv, TypeOK
  <2>3. OutRight'
    BY <1>11 DEF Restart, OutRight
  <2> QED
    BY <1>11, <2>2, <2>3 DEF Restart, AddressInv, ConnsRight, FlushRight, JobRight, DueRight
<1>12. ASSUME NEW c \in Conns, WriteDone(c) \/ RegisterPush(c) \/ Drop(c)
       PROVE  UNCHANGED <<conns, queue, disk, dev, pc, flush, job, out, due>>
  BY <1>12 DEF WriteDone, RegisterPush, Drop, hubVars, connVars, outside
<1>13. ASSUME Tick \/ (\E d \in Devices : PushDone(d)) \/ UNCHANGED vars
       PROVE  UNCHANGED <<conns, queue, disk, dev, pc, flush, job, out, due>>
  BY <1>13 DEF Tick, PushDone, hubVars, connVars, outside, vars
<1> QED
  BY <1>1, <1>2, <1>3, <1>4, <1>5, <1>6, <1>7, <1>8, <1>9, <1>10, <1>11, <1>12, <1>13
     DEF Next, Handler, WritePump

\* Every envelope, wherever it is, is on its way to the right device.
LEMMA AddressKept == Spec => []AddressInv
<1>1. Init => AddressInv
  BY RelayAssumption DEF Init, AddressInv, ConnsRight, StoredRight, FlushRight, JobRight, DueRight, OutRight
<1> QED
  BY <1>1, TypeCorrect, AddressStep, PTL DEF Spec

\* Whatever is on a connection's channel is for the device behind it, although
\* targets are looked up under the lock and used after it.
THEOREM RightDevice == Spec => []Addressed
<1>1. TypeOK /\ AddressInv => Addressed
  BY DEF TypeOK, AddressInv, OutRight, Addressed, ToSet, Dest
<1> QED
  BY <1>1, TypeCorrect, AddressKept, PTL

-----------------------------------------------------------------------------
(***************************************************************************)
(* Envelope identity.  A fresh id is above every id in use, because nextID *)
(* only moves back at a restart from a file that was behind, and every     *)
(* step but route only moves or drops envelopes.                           *)
(***************************************************************************)
\* InPlay as a predicate.
Placed(e) ==
    \/ \E c \in Conns : \E q \in flush[c] : q.env = e
    \/ \E c \in Conns : \E i \in DOMAIN out[c] : out[c][i].env = e
    \/ \E c \in Conns : pc[c] \in {"sending", "acking"} /\ job[c].msg.env = e
    \/ \E d \in Devices : \E q \in queue[d] : q.env = e
    \/ \E d \in Devices : \E q \in disk.queue[d] : q.env = e
    \/ \E d \in Devices : \E i \in DOMAIN delivered[d] : delivered[d][i] = e
    \/ \E d \in Devices : \E m \in due[d] : m.env = e

\* Placed says what InPlay says, in both states of a step.
LEMMA PlacedInPlay ==
    ASSUME NEW e
    PROVE  (e \in InPlay <=> Placed(e)) /\ (e \in InPlay' <=> Placed(e)')
<1>1. e \in InPlay <=> Placed(e)
  <2>1. \A c \in Conns : e \in InHand(c) <=>
          \/ \E q \in flush[c] : q.env = e
          \/ \E i \in DOMAIN out[c] : out[c][i].env = e
          \/ pc[c] \in {"sending", "acking"} /\ job[c].msg.env = e
    BY DEF InHand, ToSet
  <2>2. \A d \in Devices : e \in Stored(d) <=>
          (\E q \in queue[d] : q.env = e) \/ \E q \in disk.queue[d] : q.env = e
    BY DEF Stored
  <2>3. \A d \in Devices : e \in Seen(d) <=>
          (\E i \in DOMAIN delivered[d] : delivered[d][i] = e) \/ \E m \in due[d] : m.env = e
    BY DEF Seen, ToSet
  <2>4. e \in AllInHand <=> \E c \in Conns : e \in InHand(c)
    BY Zenon DEF AllInHand
  <2>5. e \in AllStored <=> \E d \in Devices : e \in Stored(d)
    BY Zenon DEF AllStored
  <2>6. e \in AllSeen <=> \E d \in Devices : e \in Seen(d)
    BY Zenon DEF AllSeen
  <2>7. e \in InPlay <=> e \in AllInHand \/ e \in AllStored \/ e \in AllSeen
    BY DEF InPlay
  <2> QED
    BY <2>1, <2>2, <2>3, <2>4, <2>5, <2>6, <2>7 DEF Placed
<1>2. e \in InPlay' <=> Placed(e)'
  <2>1. \A c \in Conns : e \in InHand(c)' <=>
          \/ \E q \in flush'[c] : q.env = e
          \/ \E i \in DOMAIN out'[c] : out'[c][i].env = e
          \/ pc'[c] \in {"sending", "acking"} /\ job'[c].msg.env = e
    BY DEF InHand, ToSet
  <2>2. \A d \in Devices : e \in Stored(d)' <=>
          (\E q \in queue'[d] : q.env = e) \/ \E q \in disk'.queue[d] : q.env = e
    BY DEF Stored
  <2>3. \A d \in Devices : e \in Seen(d)' <=>
          (\E i \in DOMAIN delivered'[d] : delivered'[d][i] = e) \/ \E m \in due'[d] : m.env = e
    BY DEF Seen, ToSet
  <2>4. e \in AllInHand' <=> \E c \in Conns : e \in InHand(c)'
    BY Zenon DEF AllInHand
  <2>5. e \in AllStored' <=> \E d \in Devices : e \in Stored(d)'
    BY Zenon DEF AllStored
  <2>6. e \in AllSeen' <=> \E d \in Devices : e \in Seen(d)'
    BY Zenon DEF AllSeen
  <2>7. e \in InPlay' <=> e \in AllInHand' \/ e \in AllStored' \/ e \in AllSeen'
    BY DEF InPlay
  <2> QED
    BY <2>1, <2>2, <2>3, <2>4, <2>5, <2>6, <2>7 DEF Placed
<1> QED
  BY <1>1, <1>2

IdInv ==
    /\ lag = "synced" => disk.nextID = nextID
    /\ lag # "rewound" => \A e \in InPlay : e.id \in 0..nextID
    /\ IdsUnique

\* A step that brings no new envelope and keeps nextID keeps the identities.
LEMMA IdsKept ==
    ASSUME TypeOK, IdInv,
           lag' # "rewound" => lag # "rewound" /\ nextID' = nextID
                               /\ \A e : Placed(e)' => Placed(e),
           lag' = "synced" => disk'.nextID = nextID'
    PROVE  IdInv'
<1>1. lag' # "rewound" => InPlay' \subseteq InPlay
  BY PlacedInPlay
<1> QED
  BY <1>1 DEF IdInv, IdsUnique

\* The bookkeeping of the file: every locked section that changes nextID saves,
\* and only route takes an id.
LEMMA SyncStep ==
    ASSUME TypeOK, IdInv, [Next]_vars
    PROVE  /\ lag' = "synced" => disk'.nextID = nextID'
           /\ lag' # "rewound" => lag # "rewound"
           /\ lag' # "rewound" =>
                 nextID' = nextID \/ \E c \in Conns, d \in Devices : Route(c, d)
<1> USE RelayAssumption DEF IdInv
<1>1. ASSUME NEW c \in Conns, NEW d \in Devices, Register(d, c)
      PROVE  /\ lag' = "synced" => disk'.nextID = nextID'
             /\ lag' # "rewound" => lag # "rewound" /\ nextID' = nextID
  BY <1>1 DEF Register, Persist, DiskFails, TypeOK
<1>2. ASSUME NEW c \in Conns, NEW d \in Devices, Route(c, d)
      PROVE  /\ lag' = "synced" => disk'.nextID = nextID'
             /\ lag' # "rewound" => lag # "rewound" /\ nextID' = nextID + 1
  <2>1. nextID' = nextID + 1 /\ Persist(nextID + 1, queue')
    BY <1>2 DEF Route
  <2> QED
    BY <2>1 DEF Persist, DiskFails, TypeOK
<1>3. CASE Restart
  BY <1>3 DEF Restart, TypeOK
<1>4. ASSUME NEW c \in Conns,
             Handler(c) \/ WritePump(c) \/ RegisterPush(c) \/ Drop(c) \/ \E r \in due[dev[c]] : Receipt(c, r)
      PROVE  UNCHANGED <<nextID, disk, lag>>
  BY <1>4 DEF Handler, Flush, StartPumps, SendTarget, SendPanics, SendAck, CloseOut, Unregister,
              WritePump, WriteOK, WriteLost, WriteDone, RegisterPush, Drop, Receipt, hubVars
<1>5. ASSUME Tick \/ (\E d \in Devices : PushDone(d)) \/ UNCHANGED vars
      PROVE  UNCHANGED <<nextID, disk, lag>>
  BY <1>5 DEF Tick, PushDone, hubVars, vars
<1> QED
  BY <1>1, <1>2, <1>3, <1>4, <1>5 DEF Next

\* A send on a channel brings nothing but the message to it.
LEMMA OfferDomain ==
    ASSUME NEW s \in Seq(RelayMessage), NEW m \in RelayMessage, NEW i \in DOMAIN Offer(s, m)
    PROVE  Offer(s, m)[i] = m \/ (i \in DOMAIN s /\ Offer(s, m)[i] = s[i])
BY DEF Offer

\* What is left on a channel was on it before.
LEMMA TailDomain ==
    ASSUME NEW s \in Seq(RelayMessage), s # <<>>
    PROVE  /\ 1 \in DOMAIN s /\ Head(s) = s[1]
           /\ \A i \in DOMAIN Tail(s) : i + 1 \in DOMAIN s /\ Tail(s)[i] = s[i + 1]
OBVIOUS

\* No step but route brings an envelope that was not somewhere before.
LEMMA PlacedStep ==
    ASSUME TypeOK, [Next]_vars, \A c \in Conns, d \in Devices : ~Route(c, d), NEW e, Placed(e)'
    PROVE  Placed(e)
<1> USE RelayAssumption
<1>1. ASSUME NEW c \in Conns, NEW d \in Devices, Register(d, c)
      PROVE  Placed(e)
  <2>1. /\ pc' = [pc EXCEPT ![c] = "flushing"] /\ job' = [job EXCEPT ![c] = NoJob]
        /\ out' = [out EXCEPT ![c] = <<>>] /\ queue' = [queue EXCEPT ![d] = {}]
        /\ flush' = [flush EXCEPT ![c] = Prune(queue[d])] /\ UNCHANGED <<delivered, due>>
    BY <1>1 DEF Register
  <2>2. disk'.queue = queue' \/ disk' = disk
    <3>1. Persist(nextID, queue') \/ disk' = disk
      BY <1>1 DEF Register
    <3> QED
      BY <3>1, PersistQueue
  <2>3. ASSUME NEW b \in Conns, NEW q \in flush'[b], q.env = e
        PROVE  Placed(e)
    BY <2>1, <2>3, PruneSubset DEF TypeOK, Placed
  <2>4. ASSUME NEW b \in Devices, NEW q \in queue'[b] \cup disk'.queue[b], q.env = e
        PROVE  Placed(e)
    BY <2>1, <2>2, <2>4 DEF TypeOK, Placed
  <2>5. ASSUME NEW b \in Conns, NEW i \in DOMAIN out'[b], out'[b][i].env = e
        PROVE  Placed(e)
    BY <2>1, <2>5 DEF TypeOK, Placed
  <2>6. ASSUME NEW b \in Conns, pc'[b] \in {"sending", "acking"}, job'[b].msg.env = e
        PROVE  Placed(e)
    BY <2>1, <2>6 DEF TypeOK, Placed
  <2> QED
    BY <2>1, <2>3, <2>4, <2>5, <2>6 DEF Placed
<1>2. ASSUME NEW c \in Conns, Flush(c)
      PROVE  Placed(e)
  <2> PICK q \in flush[c] :
          /\ out' = [out EXCEPT ![c] = Offer(@, Message("deliver", q.env))]
          /\ flush' = [flush EXCEPT ![c] = @ \ {q}]
    BY <1>2 DEF Flush
  <2>1. UNCHANGED <<queue, disk, pc, job, delivered, due>>
    BY <1>2 DEF Flush, hubVars, outside
  <2>2. ASSUME NEW b \in Conns, NEW i \in DOMAIN out'[b], out'[b][i].env = e
        PROVE  Placed(e)
    <3> DEFINE m == Message("deliver", q.env)
    <3>1. m \in RelayMessage /\ m.env = q.env
      BY DEF Message, RelayMessage, TypeOK, Queued
    <3>2. \A k \in DOMAIN Offer(out[c], m) :
             Offer(out[c], m)[k] = m \/ (k \in DOMAIN out[c] /\ Offer(out[c], m)[k] = out[c][k])
      BY <3>1, OfferDomain DEF TypeOK
    <3> HIDE DEF m
    <3> QED
      BY <2>2, <3>1, <3>2 DEF TypeOK, Placed, m
  <2>3. ASSUME NEW b \in Conns, NEW p \in flush'[b], p.env = e
        PROVE  Placed(e)
    BY <2>3 DEF TypeOK, Placed
  <2> QED
    BY <2>1, <2>2, <2>3 DEF Placed
<1>3. ASSUME NEW c \in Conns, NEW r \in due[dev[c]], Receipt(c, r)
      PROVE  Placed(e)
  <2>1. UNCHANGED <<queue, disk, flush, out, delivered>> /\ due' = [due EXCEPT ![dev[c]] = @ \ {r}]
    BY <1>3 DEF Receipt, hubVars
  <2>2. \/ UNCHANGED <<job, pc>>
        \/ /\ job' = [job EXCEPT ![c] = [target |-> conns[r.env.from], msg |-> r]]
           /\ pc' = [pc EXCEPT ![c] = "sending"]
    BY <1>3 DEF Receipt
  <2>3. ASSUME NEW b \in Conns, pc'[b] \in {"sending", "acking"}, job'[b].msg.env = e
        PROVE  Placed(e)
    BY <2>2, <2>3 DEF TypeOK, Placed
  <2>4. ASSUME NEW d \in Devices, NEW m \in due'[d], m.env = e
        PROVE  Placed(e)
    BY <2>1, <2>4 DEF TypeOK, Placed
  <2> QED
    BY <2>1, <2>3, <2>4 DEF Placed
<1>4. ASSUME NEW c \in Conns, SendTarget(c)
      PROVE  Placed(e)
  <2> DEFINE t == job[c].target
             m == job[c].msg
  <2>1. t \in Conns /\ m \in RelayMessage /\ pc[c] = "sending"
    BY <1>4 DEF SendTarget, TypeOK
  <2>2. UNCHANGED <<queue, disk, flush, delivered, due>> /\ out' = [out EXCEPT ![t] = Offer(out[t], m)]
    BY <1>4 DEF SendTarget, hubVars, outside
  <2>3. \/ pc' = [pc EXCEPT ![c] = "acking"] /\ job' = job
        \/ pc' = [pc EXCEPT ![c] = "reading"] /\ job' = [job EXCEPT ![c] = NoJob]
    BY <1>4 DEF SendTarget
  <2>4. ASSUME NEW b \in Conns, NEW i \in DOMAIN out'[b], out'[b][i].env = e
        PROVE  Placed(e)
    <3>1. \A k \in DOMAIN Offer(out[t], m) :
             Offer(out[t], m)[k] = m \/ (k \in DOMAIN out[t] /\ Offer(out[t], m)[k] = out[t][k])
      BY <2>1, OfferDomain DEF TypeOK
    <3>2. CASE b = t
      BY <2>1, <2>2, <2>4, <3>1, <3>2 DEF TypeOK, Placed
    <3>3. CASE b # t
      BY <2>2, <2>4, <3>3 DEF TypeOK, Placed
    <3> QED
      BY <3>2, <3>3
  <2>5. ASSUME NEW b \in Conns, pc'[b] \in {"sending", "acking"}, job'[b].msg.env = e
        PROVE  Placed(e)
    BY <2>1, <2>3, <2>5 DEF TypeOK, Placed
  <2> QED
    BY <2>2, <2>4, <2>5 DEF Placed
<1>5. ASSUME NEW c \in Conns, SendAck(c)
      PROVE  Placed(e)
  <2> DEFINE m == Message("ack", job[c].msg.env)
  <2>1. pc[c] = "acking" /\ m \in RelayMessage /\ m.env = job[c].msg.env
    BY <1>5 DEF SendAck, TypeOK, Message, RelayMessage
  <2>2. /\ UNCHANGED <<queue, disk, flush, delivered, due>>
        /\ out' = [out EXCEPT ![c] = Offer(out[c], m)]
        /\ pc' = [pc EXCEPT ![c] = "reading"] /\ job' = [job EXCEPT ![c] = NoJob]
    BY <1>5 DEF SendAck, hubVars, outside
  <2> HIDE DEF m
  <2>3. ASSUME NEW b \in Conns, NEW i \in DOMAIN out'[b], out'[b][i].env = e
        PROVE  Placed(e)
    <3>1. \A k \in DOMAIN Offer(out[c], m) :
             Offer(out[c], m)[k] = m \/ (k \in DOMAIN out[c] /\ Offer(out[c], m)[k] = out[c][k])
      BY <2>1, OfferDomain DEF TypeOK
    <3> QED
      BY <2>1, <2>2, <2>3, <3>1 DEF TypeOK, Placed
  <2>4. ASSUME NEW b \in Conns, pc'[b] \in {"sending", "acking"}, job'[b].msg.env = e
        PROVE  Placed(e)
    BY <2>2, <2>4 DEF TypeOK, Placed
  <2> QED
    BY <2>2, <2>3, <2>4 DEF Placed
<1>6. ASSUME NEW c \in Conns, StartPumps(c) \/ SendPanics(c) \/ CloseOut(c) \/ Unregister(c)
      PROVE  Placed(e)
  <2>1. UNCHANGED <<queue, disk, flush, out, delivered, due>>
    BY <1>6 DEF StartPumps, SendPanics, CloseOut, Unregister, hubVars, outside
  <2>2. \/ pc' = [pc EXCEPT ![c] = "reading"] /\ job' = job
        \/ pc' = [pc EXCEPT ![c] = "unwinding"] /\ job' = [job EXCEPT ![c] = NoJob]
        \/ pc' = [pc EXCEPT ![c] = "closed"] /\ job' = job
        \/ pc' = [pc EXCEPT ![c] = "closing"] /\ job' = job
    BY <1>6 DEF StartPumps, SendPanics, CloseOut, Unregister
  <2>3. ASSUME NEW b \in Conns, pc'[b] \in {"sending", "acking"}, job'[b].msg.env = e
        PROVE  Placed(e)
    BY <2>2, <2>3 DEF TypeOK, Placed
  <2> QED
    BY <2>1, <2>3 DEF Placed
<1>7. ASSUME NEW c \in Conns, WriteOK(c) \/ WriteLost(c)
      PROVE  Placed(e)
  <2>1. UNCHANGED <<queue, disk, pc, flush, job>> /\ out[c] # <<>> /\ out' = [out EXCEPT ![c] = Tail(out[c])]
    BY <1>7 DEF WriteOK, WriteLost, hubVars
  <2>2. /\ 1 \in DOMAIN out[c] /\ Head(out[c]) = out[c][1]
        /\ \A i \in DOMAIN Tail(out[c]) : i + 1 \in DOMAIN out[c] /\ Tail(out[c])[i] = out[c][i + 1]
    BY <2>1, TailDomain DEF TypeOK
  <2>3. ASSUME NEW b \in Conns, NEW i \in DOMAIN out'[b], out'[b][i].env = e
        PROVE  Placed(e)
    BY <2>1, <2>2, <2>3 DEF TypeOK, Placed
  <2>4. ASSUME NEW d \in Devices, NEW i \in DOMAIN delivered'[d], delivered'[d][i] = e
        PROVE  Placed(e)
    <3>1. \/ delivered' = delivered
          \/ delivered' = [delivered EXCEPT ![dev[c]] = Append(@, Head(out[c]).env)]
      BY <1>7 DEF WriteOK, WriteLost, outside
    <3>2. delivered \in [Devices -> Seq(Envelope)] /\ Head(out[c]).env \in Envelope
      <4>1. out[c] \in Seq(RelayMessage) /\ delivered \in [Devices -> Seq(Envelope)]
        BY DEF TypeOK
      <4>2. Head(out[c]) \in RelayMessage
        BY <2>1, <4>1, HeadTailType
      <4> QED
        BY <4>1, <4>2 DEF RelayMessage
    <3>3. \A k \in DOMAIN Append(delivered[d], Head(out[c]).env) :
             \/ Append(delivered[d], Head(out[c]).env)[k] = Head(out[c]).env
             \/ k \in DOMAIN delivered[d] /\ Append(delivered[d], Head(out[c]).env)[k] = delivered[d][k]
      BY <3>2
    <3>4. e = Head(out[c]).env \/ \E k \in DOMAIN delivered[d] : delivered[d][k] = e
      BY <2>4, <3>1, <3>2, <3>3
    <3> QED
      BY <2>2, <3>4 DEF Placed
  <2>5. ASSUME NEW d \in Devices, NEW m \in due'[d], m.env = e
        PROVE  Placed(e)
    <3>1. \/ due' = due
          \/ due' = [due EXCEPT ![dev[c]] = @ \cup {Message(s, Head(out[c]).env) : s \in Status}]
      BY <1>7 DEF WriteOK, WriteLost, outside
    <3>2. \A r \in {Message(s, Head(out[c]).env) : s \in Status} : r.env = Head(out[c]).env
      BY DEF Message
    <3>3. due \in [Devices -> SUBSET RelayMessage]
      BY DEF TypeOK
    <3>4. e = Head(out[c]).env \/ \E r \in due[d] : r.env = e
      BY <2>5, <3>1, <3>2, <3>3
    <3> QED
      BY <2>2, <3>4 DEF Placed
  <2> QED
    BY <2>1, <2>3, <2>4, <2>5 DEF Placed
<1>8. CASE Restart
  <2>1. \A d \in Devices : queue'[d] \subseteq disk.queue[d]
    BY <1>8, PruneSubset DEF Restart, TypeOK
  <2>2. \A c \in Conns : flush'[c] = {} /\ DOMAIN out'[c] = {} /\ pc'[c] = "none"
    BY <1>8 DEF Restart
  <2>3. UNCHANGED <<disk, delivered, due>>
    BY <1>8 DEF Restart
  <2> QED
    BY <2>1, <2>2, <2>3 DEF Placed
<1>9. ASSUME NEW c \in Conns, WriteDone(c) \/ RegisterPush(c) \/ Drop(c)
      PROVE  Placed(e)
  BY <1>9 DEF WriteDone, RegisterPush, Drop, hubVars, connVars, outside, Placed
<1>10. ASSUME Tick \/ (\E d \in Devices : PushDone(d)) \/ UNCHANGED vars
       PROVE  Placed(e)
  BY <1>10 DEF Tick, PushDone, hubVars, connVars, outside, vars, Placed
<1> QED
  BY <1>1, <1>2, <1>3, <1>4, <1>5, <1>6, <1>7, <1>8, <1>9, <1>10 DEF Next, Handler, WritePump

\* route brings exactly one new envelope, under the next id.
LEMMA RoutePlaces ==
    ASSUME TypeOK, NEW c \in Conns, NEW d \in Devices, Route(c, d), NEW e, Placed(e)'
    PROVE  Placed(e) \/ e = [id |-> nextID + 1, ref |-> sent + 1, from |-> dev[c], to |-> d]
<1> DEFINE env == [id |-> nextID + 1, ref |-> sent + 1, from |-> dev[c], to |-> d]
           entry == [env |-> env, at |-> now]
<1>1. UNCHANGED <<flush, out, delivered, due>>
  BY DEF Route
<1>2. job' = [job EXCEPT ![c] = [target |-> conns[d], msg |-> Message("deliver", env)]]
  BY DEF Route
<1>3. pc' = [pc EXCEPT ![c] = "sending"] \/ pc' = [pc EXCEPT ![c] = "acking"]
  BY DEF Route
<1>4. \A b \in Devices : queue'[b] \subseteq queue[b] \cup {entry}
  <2>1. queue' = queue \/ queue' = [queue EXCEPT ![d] = Prune(queue[d] \cup {entry})]
    BY DEF Route
  <2>2. Prune(queue[d] \cup {entry}) \subseteq queue[d] \cup {entry}
    BY PruneSubset
  <2>3. queue \in [Devices -> SUBSET Queued]
    BY DEF TypeOK
  <2> HIDE DEF entry
  <2> QED
    BY <2>1, <2>2, <2>3
<1>5. disk'.queue = queue' \/ disk' = disk
  <2>1. Persist(nextID + 1, queue')
    BY DEF Route
  <2> QED
    BY <2>1, PersistQueue
<1>6. entry.env = env /\ Message("deliver", env).env = env
  BY DEF Message
<1> HIDE DEF entry, env
<1>7. ASSUME NEW b \in Conns, pc'[b] \in {"sending", "acking"}, job'[b].msg.env = e
      PROVE  Placed(e) \/ e = env
  BY <1>2, <1>3, <1>6, <1>7 DEF TypeOK, Placed
<1>8. ASSUME NEW b \in Devices, NEW q \in queue'[b] \cup disk'.queue[b], q.env = e
      PROVE  Placed(e) \/ e = env
  BY <1>4, <1>5, <1>6, <1>8 DEF Placed
<1>9. Placed(e) \/ e = env
  BY <1>1, <1>7, <1>8 DEF Placed
<1> QED
  BY <1>9 DEF env

\* Every step keeps the identities: route adds the next id, the others add none.
LEMMA IdStep == TypeOK /\ IdInv /\ [Next]_vars => IdInv'
<1> SUFFICES ASSUME TypeOK, IdInv, [Next]_vars
             PROVE  IdInv'
  OBVIOUS
<1>1. ASSUME NEW c \in Conns, NEW d \in Devices, Route(c, d)
      PROVE  IdInv'
  <2> DEFINE env == [id |-> nextID + 1, ref |-> sent + 1, from |-> dev[c], to |-> d]
  <2>1. InPlay' \subseteq InPlay \cup {env}
    BY <1>1, RoutePlaces, PlacedInPlay
  <2>2. nextID' = nextID + 1
    BY <1>1 DEF Route
  <2>3. lag' = "synced" => disk'.nextID = nextID'
    BY SyncStep
  <2>4. lag' # "rewound" => lag # "rewound"
    BY SyncStep
  <2>5. env.id = nextID + 1 /\ nextID \in Nat
    BY DEF TypeOK
  <2> HIDE DEF env
  <2>6. ASSUME lag' # "rewound", NEW e \in InPlay'
        PROVE  e.id \in 0..nextID'
    BY <2>1, <2>2, <2>4, <2>5, <2>6 DEF IdInv
  <2>7. ASSUME lag' # "rewound", NEW e \in InPlay', NEW f \in InPlay', e.id = f.id
        PROVE  e = f
    <3>1. \A g \in InPlay : g.id # env.id
      BY <2>4, <2>5, <2>7 DEF IdInv
    <3> QED
      BY <2>1, <2>4, <2>7, <3>1 DEF IdInv, IdsUnique
  <2> QED
    BY <2>3, <2>6, <2>7 DEF IdInv, IdsUnique
<1>2. ASSUME \A c \in Conns, d \in Devices : ~Route(c, d)
      PROVE  IdInv'
  <2>1. \A e : Placed(e)' => Placed(e)
    BY <1>2, PlacedStep
  <2>2. lag' # "rewound" => lag # "rewound" /\ nextID' = nextID
    BY <1>2, SyncStep
  <2>3. lag' = "synced" => disk'.nextID = nextID'
    BY SyncStep
  <2> QED
    BY <2>1, <2>2, <2>3, IdsKept
<1> QED
  BY <1>1, <1>2

\* Ids in use are at most nextID, and each stands for one envelope.
LEMMA IdsInvariant == Spec => []IdInv
<1>1. Init => IdInv
  <2>1. Init => \A e : ~Placed(e)
    BY DEF Init, Placed
  <2>2. Init => InPlay = {}
    BY <2>1, PlacedInPlay
  <2> QED
    BY <2>2 DEF Init, IdInv, IdsUnique
<1> QED
  BY <1>1, TypeCorrect, IdStep, PTL DEF Spec

\* hub.go:193-211: the id the relay assigns identifies one envelope, wherever it
\* is, across restarts, unless a restart used a file that was behind.
THEOREM IdentityUnique == Spec => []IdsUnique
<1>1. IdInv => IdsUnique
  BY DEF IdInv
<1> QED
  BY <1>1, IdsInvariant, PTL

-----------------------------------------------------------------------------
(***************************************************************************)
(* The queues and the file.  The argument is about pruneQueueLocked: what  *)
(* it keeps, it keeps again, so that the load of a file that was saved     *)
(* changes nothing; and ids and times grow together, so that the cap and   *)
(* the TTL take entries from the same end.                                 *)
(***************************************************************************)

\* A set of naturals that is bounded has a greatest element.
LEMMA Greatest ==
    ASSUME NEW I \in SUBSET Nat, I # {}, NEW n \in Nat, \A i \in I : i <= n
    PROVE  \E i \in I : \A j \in I : j <= i
<1> DEFINE T == {k \in Nat : \A i \in I : i <= k}
<1>1. T \subseteq Nat /\ T # {}
  OBVIOUS
<1>2. PICK k \in T : \A j \in T : ~(<<j, k>> \in OpToRel(<, Nat))
  BY <1>1, NatLessThanWellFounded, WFMin
<1>3. \A j \in T : ~(j < k)
  BY <1>1, <1>2 DEF OpToRel
<1>4. CASE k = 0
  <2>1. \A i \in I : i \in Nat /\ i <= k
    OBVIOUS
  <2>2. \A i \in I : i = 0
    BY <1>4, <2>1
  <2>3. PICK i \in I : i = 0
    BY <2>2
  <2>4. \A j \in I : j <= i
    BY <2>2, <2>3
  <2> QED
    BY <2>4
<1>5. CASE k # 0
  <2>1. k - 1 \in Nat /\ k - 1 < k
    BY <1>5
  <2>2. k - 1 \notin T
    BY <1>3, <2>1
  <2>3. PICK i \in I : ~(i <= k - 1)
    BY <2>1, <2>2
  <2>4. i \in Nat /\ k \in Nat /\ \A j \in I : j <= k
    OBVIOUS
  <2>5. i = k
    BY <2>3, <2>4
  <2> QED
    BY <2>4, <2>5
<1> QED
  BY <1>4, <1>5

\* No entry has MaxQueue newer ones behind it.
Capped(q) == \A e \in q : Cardinality(Newer(e, q)) < MaxQueue

\* Of the entries of one queue, a later one has a greater id.
Ordered(q) == \A e, f \in q : e.at < f.at => e.env.id < f.env.id

\* A queue that route made: entries as old as the clock and the counter allow.
Sound(q, n, t) ==
    /\ q \subseteq Queued /\ IsFiniteSet(q) /\ Capped(q) /\ Ordered(q)
    /\ \A e \in q : e.env.id <= n /\ e.at <= t

\* What is true of the queues in memory and in the file.
QueueInv ==
    \A d \in Devices : /\ Sound(queue[d], nextID, now)
                       /\ Sound(disk.queue[d], disk.nextID, now)

\* The newer entries of a smaller queue are fewer.
LEMMA FewerNewer ==
    ASSUME NEW q, IsFiniteSet(q), NEW p \in SUBSET q, NEW e
    PROVE  /\ IsFiniteSet(p) /\ IsFiniteSet(Newer(e, q))
           /\ Cardinality(Newer(e, p)) \in Nat /\ Cardinality(Newer(e, q)) \in Nat
           /\ Cardinality(Newer(e, p)) <= Cardinality(Newer(e, q))
<1>1. Newer(e, q) \subseteq q /\ Newer(e, p) \subseteq Newer(e, q)
  BY DEF Newer
<1>2. IsFiniteSet(Newer(e, q)) /\ IsFiniteSet(p)
  BY <1>1, FS_Subset
<1>3. IsFiniteSet(Newer(e, p)) /\ Cardinality(Newer(e, p)) <= Cardinality(Newer(e, q))
  BY <1>1, <1>2, FS_Subset
<1> QED
  BY <1>2, <1>3, FS_CardinalityType

\* pruneQueueLocked leaves a sound queue of entries that are all fresh and capped.
LEMMA PruneCaps ==
    ASSUME NEW q, IsFiniteSet(q)
    PROVE  IsFiniteSet(Prune(q)) /\ IsFiniteSet(Fresh(q)) /\ Capped(Prune(q))
<1>1. Prune(q) \subseteq Fresh(q) /\ Fresh(q) \subseteq q
  BY PruneSubset
<1>2. IsFiniteSet(Fresh(q)) /\ IsFiniteSet(Prune(q))
  BY <1>1, FS_Subset
<1>3. ASSUME NEW e \in Prune(q)
      PROVE  Cardinality(Newer(e, Prune(q))) < MaxQueue
  <2>1. Cardinality(Newer(e, Fresh(q))) < MaxQueue
    BY <1>3 DEF Prune
  <2> QED
    BY <1>1, <1>2, <2>1, FewerNewer, RelayAssumption
<1> QED
  BY <1>2, <1>3 DEF Capped

\* Pruning a capped queue only applies the TTL.
LEMMA PruneCapped ==
    ASSUME NEW q, IsFiniteSet(q), Capped(q)
    PROVE  Prune(q) = Fresh(q)
<1>1. Fresh(q) \subseteq q
  BY PruneSubset
<1>2. ASSUME NEW e \in Fresh(q)
      PROVE  Cardinality(Newer(e, Fresh(q))) < MaxQueue
  <2>1. Cardinality(Newer(e, q)) < MaxQueue
    BY <1>1 DEF Capped
  <2> QED
    BY <1>1, <2>1, FewerNewer, RelayAssumption
<1> QED
  BY <1>2 DEF Prune

\* A part of a sound queue that is capped is sound.
LEMMA SoundPart ==
    ASSUME NEW q, NEW n, NEW t, Sound(q, n, t), NEW p \in SUBSET q, Capped(p)
    PROVE  Sound(p, n, t)
<1>1. IsFiniteSet(p)
  BY FS_Subset DEF Sound
<1> QED
  BY <1>1 DEF Sound, Ordered

\* The queue after route has appended and pruned.
LEMMA RouteSound ==
    ASSUME TypeOK, NEW q, Sound(q, nextID, now), NEW env \in Envelope, env.id = nextID + 1
    PROVE  LET new == [env |-> env, at |-> now]
               all == q \cup {new}
           IN  /\ IsFiniteSet(all) /\ Ordered(all) /\ new \in Prune(all)
               /\ Sound(Prune(all), nextID + 1, now)
<1> DEFINE new == [env |-> env, at |-> now]
           all == q \cup {new}
<1> USE RelayAssumption
<1>1. now \in Nat /\ nextID \in Nat /\ q \subseteq Queued /\ IsFiniteSet(q) /\ Ordered(q)
      /\ \A e \in q : e.env.id <= nextID /\ e.at <= now
  BY DEF Sound, TypeOK
<1>2. new \in Queued /\ new.env.id = nextID + 1 /\ new.at = now
  BY <1>1 DEF Queued
<1> HIDE DEF new
<1>3. IsFiniteSet(all)
  BY <1>1, FS_AddElement
<1>4. all \subseteq Queued /\ \A e \in all : e.env.id \in Nat /\ e.at \in Nat
  BY <1>1, <1>2 DEF Queued, Envelope
<1>5. \A e \in all : e.env.id <= nextID + 1 /\ e.at <= now
  BY <1>1, <1>2, <1>4
<1>6. Ordered(all)
  BY <1>1, <1>2, <1>4 DEF Ordered
<1>7. new \in Fresh(all)
  BY <1>1, <1>2 DEF Fresh
<1>8. Newer(new, Fresh(all)) = {}
  BY <1>1, <1>2, <1>4, <1>5 DEF Newer, Fresh
<1>9. new \in Prune(all)
  <2>1. Cardinality(Newer(new, Fresh(all))) = 0
    BY <1>8, FS_EmptySet
  <2>2. Cardinality(Newer(new, Fresh(all))) < MaxQueue
    BY <2>1
  <2> QED
    BY <1>7, <2>2 DEF Prune
<1>10. Prune(all) \subseteq all /\ IsFiniteSet(Prune(all)) /\ Capped(Prune(all))
  BY <1>3, PruneSubset, PruneCaps
<1>11. Sound(Prune(all), nextID + 1, now)
  BY <1>4, <1>5, <1>6, <1>10 DEF Sound, Ordered
<1> QED
  BY <1>3, <1>6, <1>9, <1>11 DEF new

\* A sound queue stays sound when the counter and the clock move on.
LEMMA SoundLater ==
    ASSUME NEW q, NEW n \in Nat, NEW t \in Nat, Sound(q, n, t),
           NEW k \in Nat, n <= k, NEW u \in Nat, t <= u
    PROVE  Sound(q, k, u)
<1>1. \A e \in q : e.env.id \in Nat /\ e.at \in Nat
  BY DEF Sound, Queued, Envelope
<1> QED
  BY <1>1 DEF Sound

LEMMA SoundEmpty ==
    ASSUME NEW n, NEW t
    PROVE  Sound({}, n, t)
BY FS_EmptySet DEF Sound, Capped, Ordered

\* The TTL and the cap leave the newest entry that is fresh.
LEMMA PruneLeavesOne ==
    ASSUME NEW q, NEW n \in Nat, NEW t, Sound(q, n, t), Prune(q) = {}
    PROVE  Fresh(q) = {}
<1> SUFFICES ASSUME Fresh(q) # {}
             PROVE  FALSE
  OBVIOUS
<1> DEFINE I == {e.env.id : e \in Fresh(q)}
<1>1. Fresh(q) \subseteq q /\ \A e \in Fresh(q) : e.env.id \in Nat /\ e.env.id <= n
  BY PruneSubset DEF Sound, Queued, Envelope
<1>2. I \subseteq Nat /\ I # {} /\ \A i \in I : i <= n
  BY <1>1
<1>3. PICK i \in I : \A j \in I : j <= i
  BY <1>2, Greatest
<1>4. PICK e \in Fresh(q) : e.env.id = i
  BY <1>3
<1>5. \A f \in Fresh(q) : f.env.id <= e.env.id
  BY <1>3, <1>4
<1>6. Newer(e, Fresh(q)) = {}
  BY <1>1, <1>5 DEF Newer
<1>7. Cardinality(Newer(e, Fresh(q))) = 0
  BY <1>6, FS_EmptySet
<1>8. Cardinality(Newer(e, Fresh(q))) < MaxQueue
  BY <1>7, RelayAssumption
<1> QED
  BY <1>4, <1>8 DEF Prune

\* What pruning drops is older than all it keeps.
LEMMA PruneDropsOldest ==
    ASSUME TypeOK, NEW q \in SUBSET Queued, IsFiniteSet(q), Ordered(q),
           NEW e \in q \ Prune(q), NEW f \in Prune(q)
    PROVE  f.env.id > e.env.id
<1> USE RelayAssumption
<1>1. /\ e.env.id \in Nat /\ f.env.id \in Nat /\ e.at \in Nat /\ f.at \in Nat /\ now \in Nat
      /\ f \in Fresh(q) /\ f \in q /\ IsFiniteSet(Fresh(q))
  BY PruneSubset, PruneCaps DEF Queued, Envelope, TypeOK
<1>2. CASE e \notin Fresh(q)
  <2>1. ~(e.at + QueueTTL >= now) /\ f.at + QueueTTL >= now
    BY <1>1, <1>2 DEF Fresh
  <2>2. e.at < f.at
    BY <1>1, <2>1
  <2> QED
    BY <1>1, <2>2 DEF Ordered
<1>3. CASE e \in Fresh(q)
  <2> SUFFICES ASSUME f.env.id <= e.env.id
               PROVE  FALSE
    BY <1>1
  <2>1. \A g \in Fresh(q) : g.env.id \in Nat
    BY PruneSubset DEF Queued, Envelope
  <2>2. Newer(e, Fresh(q)) \subseteq Newer(f, Fresh(q))
    BY <1>1, <2>1 DEF Newer
  <2>3. IsFiniteSet(Newer(f, Fresh(q))) /\ Cardinality(Newer(e, Fresh(q))) \in Nat
        /\ Cardinality(Newer(f, Fresh(q))) \in Nat
    BY <1>1, FewerNewer
  <2>4. Cardinality(Newer(e, Fresh(q))) <= Cardinality(Newer(f, Fresh(q)))
    BY <2>2, <2>3, FS_Subset
  <2>5. Cardinality(Newer(f, Fresh(q))) < MaxQueue
    BY DEF Prune
  <2>6. ~(Cardinality(Newer(e, Fresh(q))) < MaxQueue)
    BY <1>3 DEF Prune
  <2> QED
    BY <2>3, <2>4, <2>5, <2>6
<1> QED
  BY <1>2, <1>3

\* The steps that are not the hub's own.
LEMMA HubUntouched ==
    ASSUME NEW c \in Conns,
           \/ Handler(c) \/ WritePump(c) \/ RegisterPush(c) \/ Drop(c)
           \/ \E r \in due[dev[c]] : Receipt(c, r)
    PROVE  UNCHANGED <<now, nextID, queue, disk, lag, sent>>
BY DEF Handler, Flush, StartPumps, SendTarget, SendPanics, SendAck, CloseOut, Unregister,
       WritePump, WriteOK, WriteLost, WriteDone, RegisterPush, Drop, Receipt, hubVars, outside

\* What route does to the queues and the counter.
LEMMA RouteQueues ==
    ASSUME TypeOK, QueueInv, NEW c \in Conns, NEW d \in Devices, Route(c, d)
    PROVE  /\ nextID' = nextID + 1 /\ now' = now
           /\ \A b \in Devices : Sound(queue'[b], nextID', now)
<1> DEFINE env == [id |-> nextID + 1, ref |-> sent + 1, from |-> dev[c], to |-> d]
<1>1. nextID' = nextID + 1 /\ now' = now /\ nextID \in Nat /\ now \in Nat
  BY DEF Route, TypeOK
<1>2. \A b \in Devices : Sound(queue[b], nextID', now)
  BY <1>1, SoundLater DEF QueueInv
<1>3. CASE UNCHANGED queue
  BY <1>1, <1>2, <1>3
<1>4. CASE queue' = [queue EXCEPT ![d] = Prune(@ \cup {[env |-> env, at |-> now]})]
  <2>1. env \in Envelope /\ env.id = nextID + 1
    BY DEF Envelope, TypeOK
  <2> HIDE DEF env
  <2>2. Sound(Prune(queue[d] \cup {[env |-> env, at |-> now]}), nextID + 1, now)
    BY <2>1, RouteSound DEF QueueInv
  <2>3. \A b \in Devices : queue'[b] = IF b = d THEN Prune(queue[d] \cup {[env |-> env, at |-> now]})
                                       ELSE queue[b]
    BY <1>4 DEF TypeOK
  <2> QED
    BY <1>1, <1>2, <2>2, <2>3
<1> QED
  BY <1>1, <1>3, <1>4 DEF Route

\* Every step keeps the queues sound.
LEMMA QueueStep == TypeOK /\ TypeOK' /\ QueueInv /\ [Next]_vars => QueueInv'
<1> SUFFICES ASSUME TypeOK, TypeOK', QueueInv, [Next]_vars
             PROVE  QueueInv'
  OBVIOUS
<1>1. ASSUME NEW c \in Conns, NEW d \in Devices, Register(d, c)
      PROVE  QueueInv'
  <2>1. nextID' = nextID /\ now' = now /\ queue' = [queue EXCEPT ![d] = {}]
        /\ (disk' = [nextID |-> nextID, queue |-> queue'] \/ disk' = disk)
    BY <1>1 DEF Register, Persist
  <2>2. \A b \in Devices : queue'[b] = {} \/ queue'[b] = queue[b]
    BY <2>1 DEF TypeOK
  <2>3. \A b \in Devices : Sound(queue'[b], nextID, now)
    BY <2>2, SoundEmpty DEF QueueInv
  <2>4. CASE disk' = disk
    BY <2>1, <2>3, <2>4 DEF QueueInv
  <2>5. CASE disk' = [nextID |-> nextID, queue |-> queue']
    <3>1. disk'.queue = queue' /\ disk'.nextID = nextID
      BY <2>5
    <3> QED
      BY <2>1, <2>3, <3>1 DEF QueueInv
  <2> QED
    BY <2>1, <2>4, <2>5
<1>2. ASSUME NEW c \in Conns, NEW d \in Devices, Route(c, d)
      PROVE  QueueInv'
  <2>1. nextID' = nextID + 1 /\ now' = now /\ \A b \in Devices : Sound(queue'[b], nextID', now)
    BY <1>2, RouteQueues
  <2>2. disk' = [nextID |-> nextID + 1, queue |-> queue'] \/ disk' = disk
    BY <1>2 DEF Route, Persist
  <2> QED
    BY <2>1, <2>2 DEF QueueInv
<1>3. CASE Restart
  <2>1. now' = now /\ disk' = disk
    BY <1>3 DEF Restart
  <2>2. CASE nextID' = disk.nextID /\ queue' = [d \in Devices |-> Prune(disk.queue[d])]
    <3>1. ASSUME NEW d \in Devices
          PROVE  Sound(Prune(disk.queue[d]), disk.nextID, now)
      <4>1. Sound(disk.queue[d], disk.nextID, now) /\ IsFiniteSet(disk.queue[d])
        BY DEF QueueInv, Sound
      <4> QED
        BY <4>1, PruneCaps, PruneSubset, SoundPart
    <3> QED
      BY <2>1, <2>2, <3>1 DEF QueueInv
  <2>3. CASE queue' = [d \in Devices |-> {}]
    BY <2>1, <2>3, SoundEmpty DEF QueueInv
  <2> QED
    BY <1>3, <2>2, <2>3 DEF Restart
<1>4. CASE Tick
  <2>1. UNCHANGED <<nextID, queue, disk>> /\ now' = now + 1
    BY <1>4 DEF Tick
  <2>2. now \in Nat /\ nextID \in Nat /\ disk.nextID \in Nat
    BY DEF TypeOK
  <2> QED
    BY <2>1, <2>2, SoundLater DEF QueueInv
<1>5. CASE UNCHANGED <<now, nextID, queue, disk>>
  BY <1>5 DEF QueueInv
<1>6. CASE (\E d \in Devices : PushDone(d)) \/ UNCHANGED vars
  BY <1>5, <1>6 DEF PushDone, hubVars, vars
<1> QED
  BY <1>1, <1>2, <1>3, <1>4, <1>5, <1>6, HubUntouched DEF Next

\* The file agrees with the hub whenever the last save succeeded.
LEMMA CrashStep ==
    ASSUME TypeOK, QueueInv, CrashKeepsQueue, [Next]_vars
    PROVE  CrashKeepsQueue'
<1>1. ASSUME NEW c \in Conns, NEW d \in Devices, Register(d, c)
      PROVE  CrashKeepsQueue'
  <2>1. nextID' = nextID /\ now' = now /\ queue' = [queue EXCEPT ![d] = {}]
    BY <1>1 DEF Register
  <2>2. CASE Persist(nextID, queue')
    <3>1. lag' = "synced" => disk'.queue = queue' /\ disk'.nextID = nextID
      BY <2>2 DEF Persist
    <3> QED
      BY <2>1, <3>1 DEF CrashKeepsQueue, Fresh
  <2>3. CASE Prune(queue[d]) = {} /\ UNCHANGED <<disk, lag>>
    <3>1. Fresh(queue[d]) = {}
      BY <2>3, PruneLeavesOne DEF QueueInv, TypeOK
    <3>2. Fresh({}) = {}
      BY DEF Fresh
    <3>3. \A b \in Devices : queue'[b] = IF b = d THEN {} ELSE queue[b]
      BY <2>1 DEF TypeOK
    <3>4. \A q : Fresh(q)' = Fresh(q)
      BY <2>1 DEF Fresh
    <3>5. \A b \in Devices : Fresh(queue'[b]) = Fresh(queue[b])
      BY <3>1, <3>2, <3>3
    <3>6. \A b \in Devices : Fresh(queue[b])' = Fresh(queue'[b]) /\ Fresh(disk.queue[b])' = Fresh(disk'.queue[b])
      BY <2>1 DEF Fresh
    <3> QED
      BY <2>1, <2>3, <3>5, <3>6 DEF CrashKeepsQueue
  <2> QED
    BY <1>1, <2>2, <2>3 DEF Register
<1>2. ASSUME NEW c \in Conns, NEW d \in Devices, Route(c, d)
      PROVE  CrashKeepsQueue'
  <2>1. nextID' = nextID + 1 /\ Persist(nextID + 1, queue')
    BY <1>2 DEF Route
  <2> QED
    BY <2>1 DEF Persist, CrashKeepsQueue, Fresh
<1>3. CASE Restart
  <2>1. now' = now /\ disk' = disk
    BY <1>3 DEF Restart
  <2>2. CASE nextID' = disk.nextID /\ queue' = [d \in Devices |-> Prune(disk.queue[d])]
    <3>1. ASSUME NEW d \in Devices
          PROVE  Fresh(disk.queue[d])' = Fresh(queue[d])'
      <4>1. Prune(disk.queue[d]) = Fresh(disk.queue[d])
        BY PruneCapped DEF QueueInv, Sound
      <4>2. queue'[d] = Fresh(disk.queue[d])
        BY <2>2, <4>1
      <4> QED
        BY <2>1, <4>2 DEF Fresh
    <3> QED
      BY <2>1, <2>2, <3>1 DEF CrashKeepsQueue
  <2>3. CASE lag' = "rewound"
    BY <2>3 DEF CrashKeepsQueue
  <2> QED
    BY <1>3, <2>2, <2>3 DEF Restart
<1>4. CASE Tick
  <2>1. UNCHANGED <<nextID, queue, disk, lag>> /\ now' = now + 1 /\ now \in Nat /\ QueueTTL \in Nat
    BY <1>4, RelayAssumption DEF Tick, TypeOK
  <2>2. ASSUME NEW d \in Devices, Fresh(disk.queue[d]) = Fresh(queue[d])
        PROVE  Fresh(disk.queue[d])' = Fresh(queue[d])'
    <3>1. \A e \in disk.queue[d] \cup queue[d] : e.at \in Nat
      BY DEF QueueInv, Sound, Queued
    <3>2. ASSUME NEW e
          PROVE  /\ e \in Fresh(disk.queue[d])' <=>
                       e \in Fresh(disk.queue[d]) /\ e.at + QueueTTL >= now + 1
                 /\ e \in Fresh(queue[d])' <=> e \in Fresh(queue[d]) /\ e.at + QueueTTL >= now + 1
      BY <2>1, <3>1 DEF Fresh
    <3> QED
      BY <2>2, <3>2
  <2> QED
    BY <2>1, <2>2 DEF CrashKeepsQueue
<1>5. CASE UNCHANGED <<now, nextID, queue, disk, lag>>
  BY <1>5 DEF CrashKeepsQueue, Fresh
<1>6. CASE (\E d \in Devices : PushDone(d)) \/ UNCHANGED vars
  BY <1>5, <1>6 DEF PushDone, hubVars, vars
<1> QED
  BY <1>1, <1>2, <1>3, <1>4, <1>5, <1>6, HubUntouched DEF Next

\* The queues are sound in every state.
LEMMA QueuesSound == Spec => []QueueInv
<1>1. Init => QueueInv
  BY SoundEmpty DEF Init, QueueInv
<1> QED
  BY <1>1, TypeCorrect, QueueStep, PTL DEF Spec

\* persistLocked and NewPersistentHub: a crash at any moment finds in the file what
\* is queued, if the last save succeeded.
THEOREM FileAgrees == Spec => []CrashKeepsQueue
<1>1. Init => CrashKeepsQueue
  BY DEF Init, CrashKeepsQueue
<1> QED
  BY <1>1, TypeCorrect, QueuesSound, CrashStep, PTL DEF Spec

-----------------------------------------------------------------------------
\* What the cap and the TTL may do in one step.
KeepsNewest ==
    \A c \in Conns : sent' # sent /\ pc[c] # pc'[c] /\ pc'[c] = "acking" =>
        LET e == job'[c].msg.env
            kept == queue'[e.to]
        IN  /\ e \in {q.env : q \in kept}
            /\ \A q \in queue[e.to] \ kept, r \in kept : r.env.id > q.env.id

\* Only route takes a number, and what it drops is older than what it keeps.
LEMMA NewestStep ==
    ASSUME TypeOK, QueueInv, [Next]_vars
    PROVE  KeepsNewest
<1> SUFFICES ASSUME NEW c \in Conns, sent' # sent, pc[c] # pc'[c], pc'[c] = "acking"
             PROVE  LET e == job'[c].msg.env
                        kept == queue'[e.to]
                    IN  /\ e \in {q.env : q \in kept}
                        /\ \A q \in queue[e.to] \ kept, r \in kept : r.env.id > q.env.id
  BY DEF KeepsNewest
<1>1. PICK b \in Conns, d \in Devices : Route(b, d)
  <2>1. \A a \in Conns, d \in Devices : Register(d, a) => sent' = sent
    BY DEF Register
  <2>2. (Tick \/ Restart \/ (\E d \in Devices : PushDone(d)) \/ UNCHANGED vars) => sent' = sent
    BY DEF Tick, Restart, PushDone, vars, outside
  <2> QED
    BY <2>1, <2>2, HubUntouched DEF Next
<1> DEFINE env == [id |-> nextID + 1, ref |-> sent + 1, from |-> dev[b], to |-> d]
           new == [env |-> env, at |-> now]
           all == queue[d] \cup {new}
<1>2. c = b
  BY <1>1 DEF Route, TypeOK
<1>3. conns[d] = NoConn /\ queue' = [queue EXCEPT ![d] = Prune(all)]
  BY <1>1, <1>2 DEF Route, TypeOK
<1>4. job'[c].msg.env = env
  BY <1>1, <1>2 DEF Route, TypeOK, Message
<1>5. env \in Envelope /\ env.id = nextID + 1 /\ env.to = d
  BY DEF Envelope, TypeOK
<1> HIDE DEF env
<1>6. IsFiniteSet(all) /\ Ordered(all) /\ new \in Prune(all)
  BY <1>5, RouteSound DEF QueueInv
<1>7. all \in SUBSET Queued
  BY <1>5 DEF TypeOK, Queued
<1>8. queue'[d] = Prune(all)
  BY <1>3 DEF TypeOK
<1>9. new.env = env
  OBVIOUS
<1>10. queue[d] \subseteq all
  OBVIOUS
<1> HIDE DEF new, all
<1>11. \A q \in queue[d] \ Prune(all), r \in Prune(all) : r.env.id > q.env.id
  BY <1>6, <1>7, <1>10, PruneDropsOldest
<1>12. env \in {q.env : q \in Prune(all)}
  BY <1>6, <1>9
<1> QED
  BY <1>4, <1>5, <1>8, <1>11, <1>12

\* route and pruneQueueLocked: an envelope for an offline device is kept, and what
\* leaves the queue for it is older than all that stays, for any cap and TTL.
THEOREM NewestKept == Spec => QueueKeepsNewest
<1>1. TypeOK /\ QueueInv /\ [Next]_vars => [KeepsNewest]_vars
  BY NewestStep
<1> QED
  BY <1>1, TypeCorrect, QueuesSound, PTL DEF Spec, QueueKeepsNewest, KeepsNewest

-----------------------------------------------------------------------------
\* Who may take a connection's place in conns.
GivesWay ==
    \A d \in Devices :
        conns[d] # NoConn /\ conns'[d] # conns[d] =>
            \/ pc'[conns[d]] \in {"closing", "none"}
            \/ conns'[d] # NoConn /\ pc'[conns'[d]] = "flushing"

\* register, unregister and a restart are the only steps that change conns.
LEMMA TeardownStep ==
    ASSUME TypeOK, [Next]_vars
    PROVE  GivesWay
<1> USE RelayAssumption
<1>1. ASSUME NEW c \in Conns, NEW d \in Devices, Register(d, c)
      PROVE  GivesWay
  BY <1>1 DEF Register, TypeOK, GivesWay
<1>2. ASSUME NEW c \in Conns, Unregister(c)
      PROVE  GivesWay
  BY <1>2 DEF Unregister, TypeOK, GivesWay
<1>3. CASE Restart
  BY <1>3 DEF Restart, TypeOK, GivesWay
<1>4. CASE UNCHANGED conns
  BY <1>4 DEF GivesWay
<1>5. ASSUME NEW c \in Conns, NEW d \in Devices, Route(c, d)
      PROVE  UNCHANGED conns
  BY <1>5 DEF Route
<1>6. ASSUME NEW c \in Conns,
             Handler(c) \/ WritePump(c) \/ RegisterPush(c) \/ Drop(c) \/ \E r \in due[dev[c]] : Receipt(c, r)
      PROVE  Unregister(c) \/ UNCHANGED conns
  BY <1>6 DEF Handler, Flush, StartPumps, SendTarget, SendPanics, SendAck, CloseOut,
              WritePump, WriteOK, WriteLost, WriteDone, RegisterPush, Drop, Receipt, hubVars
<1>7. CASE Tick \/ (\E d \in Devices : PushDone(d)) \/ UNCHANGED vars
  BY <1>4, <1>7 DEF Tick, PushDone, hubVars, vars
<1> QED
  BY <1>1, <1>2, <1>3, <1>4, <1>5, <1>6, <1>7 DEF Next

\* unregister: the late teardown of an old connection never takes the live one out.
THEOREM TeardownIsOwn == Spec => OwnTeardown
<1>1. TypeOK /\ [Next]_vars => [GivesWay]_vars
  BY TeardownStep
<1> QED
  BY <1>1, TypeCorrect, PTL DEF Spec, OwnTeardown, GivesWay

-----------------------------------------------------------------------------
(***************************************************************************)
(* Delivery at most once.  An envelope on its way to its recipient is at   *)
(* one place: in a queue, with register's pending ones, in the hands of a  *)
(* handler, at one position of a channel, or delivered.  Every step moves  *)
(* it from one place to another or drops it.  A place is a kind, an owner  *)
(* and a key; n is the id of the envelope there.                           *)
(***************************************************************************)
InQueue(t, o, k, n) == t = "queue" /\ o \in Devices /\ k \in queue[o] /\ k.env.id = n

InFlush(t, o, k, n) == t = "flush" /\ o \in Conns /\ k \in flush[o] /\ k.env.id = n

InJob(t, o, k, n) ==
    /\ t = "job" /\ o \in Conns /\ k = 0 /\ pc[o] = "sending"
    /\ job[o].msg.kind = "deliver" /\ job[o].msg.env.id = n

InOut(t, o, k, n) ==
    /\ t = "out" /\ o \in Conns /\ k \in DOMAIN out[o]
    /\ out[o][k].kind = "deliver" /\ out[o][k].env.id = n

IsDone(t, o, k, n) ==
    t = "done" /\ o \in Devices /\ k \in DOMAIN delivered[o] /\ delivered[o][k].id = n

Place(t, o, k, n) ==
    \/ InQueue(t, o, k, n) \/ InFlush(t, o, k, n) \/ InJob(t, o, k, n)
    \/ InOut(t, o, k, n) \/ IsDone(t, o, k, n)

Single ==
    \A t1, o1, k1, t2, o2, k2, n :
        Place(t1, o1, k1, n) /\ Place(t2, o2, k2, n) => t1 = t2 /\ o1 = o2 /\ k1 = k2

\* A step that only drops keeps every envelope at one place.
LEMMA DropKeeps ==
    ASSUME Single, \A t, o, k, n : Place(t, o, k, n)' => Place(t, o, k, n)
    PROVE  Single'
BY DEF Single

\* So does one that moves one envelope from place b to place a ...
Moves(bt, bo, bk, at, ao, ak) ==
    \A t, o, k, n : Place(t, o, k, n)' =>
        \/ Place(t, o, k, n) /\ ~(t = bt /\ o = bo /\ k = bk)
        \/ Place(bt, bo, bk, n) /\ t = at /\ o = ao /\ k = ak

LEMMA MoveKeeps ==
    ASSUME Single, NEW bt, NEW bo, NEW bk, NEW at, NEW ao, NEW ak, Moves(bt, bo, bk, at, ao, ak)
    PROVE  Single'
<1> SUFFICES ASSUME NEW t1, NEW o1, NEW k1, NEW t2, NEW o2, NEW k2, NEW n,
                    Place(t1, o1, k1, n)', Place(t2, o2, k2, n)'
             PROVE  t1 = t2 /\ o1 = o2 /\ k1 = k2
  BY DEF Single
<1>1. \/ Place(t1, o1, k1, n) /\ ~(t1 = bt /\ o1 = bo /\ k1 = bk)
      \/ Place(bt, bo, bk, n) /\ t1 = at /\ o1 = ao /\ k1 = ak
  BY DEF Moves
<1>2. \/ Place(t2, o2, k2, n) /\ ~(t2 = bt /\ o2 = bo /\ k2 = bk)
      \/ Place(bt, bo, bk, n) /\ t2 = at /\ o2 = ao /\ k2 = ak
  BY DEF Moves
<1> QED
  BY <1>1, <1>2 DEF Single

\* ... and one that puts a new id at one place.
Adds(new, at, ao, ak) ==
    /\ \A t, o, k : ~Place(t, o, k, new)
    /\ \A t, o, k, n : Place(t, o, k, n)' =>
           Place(t, o, k, n) \/ (n = new /\ t = at /\ o = ao /\ k = ak)

LEMMA AddKeeps ==
    ASSUME Single, NEW new, NEW at, NEW ao, NEW ak, Adds(new, at, ao, ak)
    PROVE  Single'
<1> SUFFICES ASSUME NEW t1, NEW o1, NEW k1, NEW t2, NEW o2, NEW k2, NEW n,
                    Place(t1, o1, k1, n)', Place(t2, o2, k2, n)'
             PROVE  t1 = t2 /\ o1 = o2 /\ k1 = k2
  BY DEF Single
<1>1. Place(t1, o1, k1, n) \/ (n = new /\ t1 = at /\ o1 = ao /\ k1 = ak)
  BY DEF Adds
<1>2. Place(t2, o2, k2, n) \/ (n = new /\ t2 = at /\ o2 = ao /\ k2 = ak)
  BY DEF Adds
<1> QED
  BY <1>1, <1>2 DEF Single, Adds

\* An id that is at a place was given out.
LEMMA PlaceBounded ==
    ASSUME TypeOK, IdInv, lag # "rewound", NEW t, NEW o, NEW k, NEW n, Place(t, o, k, n)
    PROVE  n \in 0..nextID
<1>1. \E e : Placed(e) /\ e.id = n
  <2>1. CASE InQueue(t, o, k, n)
    BY <2>1 DEF InQueue, Placed
  <2>2. CASE InFlush(t, o, k, n)
    BY <2>2 DEF InFlush, Placed
  <2>3. CASE InJob(t, o, k, n)
    BY <2>3 DEF InJob, Placed
  <2>4. CASE InOut(t, o, k, n)
    BY <2>4 DEF InOut, Placed
  <2>5. CASE IsDone(t, o, k, n)
    BY <2>5 DEF IsDone, Placed
  <2> QED
    BY <2>1, <2>2, <2>3, <2>4, <2>5 DEF Place
<1> QED
  BY <1>1, PlacedInPlay DEF IdInv

\* What a send puts on a channel, by position.
LEMMA OfferPlaces ==
    ASSUME NEW s \in Seq(RelayMessage), NEW m \in RelayMessage, NEW k \in DOMAIN Offer(s, m)
    PROVE  \/ k \in DOMAIN s /\ Offer(s, m)[k] = s[k]
           \/ k = Len(s) + 1 /\ Offer(s, m)[k] = m
BY DEF Offer

\* register: the queue of the device becomes what is pending.
LEMMA RegisterMoves ==
    ASSUME TypeOK, Single, NEW c \in Conns, NEW d \in Devices, Register(d, c)
    PROVE  Single'
<1>1. /\ queue' = [queue EXCEPT ![d] = {}] /\ flush' = [flush EXCEPT ![c] = Prune(queue[d])]
      /\ pc' = [pc EXCEPT ![c] = "flushing"] /\ out' = [out EXCEPT ![c] = <<>>]
      /\ job' = [job EXCEPT ![c] = NoJob] /\ UNCHANGED delivered
  BY DEF Register
<1>2. Prune(queue[d]) \subseteq queue[d]
  BY PruneSubset
<1>3. ASSUME NEW t, NEW o, NEW k, NEW n, Place(t, o, k, n)'
      PROVE  \/ Place(t, o, k, n) /\ ~(t = "queue" /\ o = d) /\ ~(t = "flush" /\ o = c)
             \/ t = "flush" /\ o = c /\ Place("queue", d, k, n)
  <2>1. CASE InQueue(t, o, k, n)'
    BY <1>1, <2>1 DEF InQueue, Place, TypeOK
  <2>2. CASE InFlush(t, o, k, n)'
    BY <1>1, <1>2, <2>2 DEF InFlush, InQueue, Place, TypeOK
  <2>3. CASE InJob(t, o, k, n)'
    BY <1>1, <2>3 DEF InJob, Place, TypeOK
  <2>4. CASE InOut(t, o, k, n)'
    BY <1>1, <2>4 DEF InOut, Place, TypeOK
  <2>5. CASE IsDone(t, o, k, n)'
    BY <1>1, <2>5 DEF IsDone, Place
  <2> QED
    BY <1>3, <2>1, <2>2, <2>3, <2>4, <2>5 DEF Place
<1> QED
  BY <1>3 DEF Single

\* A message that goes on channel c, and the places of all channels.
LEMMA OfferOut ==
    ASSUME TypeOK, NEW c \in Conns, NEW m \in RelayMessage,
           out' = [out EXCEPT ![c] = Offer(out[c], m)]
    PROVE  \A t, o, k, n : InOut(t, o, k, n)' =>
               \/ InOut(t, o, k, n)
               \/ t = "out" /\ o = c /\ k = Len(out[c]) + 1 /\ m.kind = "deliver" /\ m.env.id = n
<1> SUFFICES ASSUME NEW t, NEW o, NEW k, NEW n, InOut(t, o, k, n)'
             PROVE  \/ InOut(t, o, k, n)
                    \/ t = "out" /\ o = c /\ k = Len(out[c]) + 1 /\ m.kind = "deliver" /\ m.env.id = n
  OBVIOUS
<1>1. t = "out" /\ o \in Conns /\ k \in DOMAIN out'[o]
      /\ out'[o][k].kind = "deliver" /\ out'[o][k].env.id = n
  BY DEF InOut
<1>2. out[c] \in Seq(RelayMessage)
  BY DEF TypeOK
<1>3. CASE o = c
  <2>1. out'[o] = Offer(out[c], m)
    BY <1>3 DEF TypeOK
  <2>2. \/ k \in DOMAIN out[c] /\ Offer(out[c], m)[k] = out[c][k]
        \/ k = Len(out[c]) + 1 /\ Offer(out[c], m)[k] = m
    BY <1>1, <1>2, <2>1, OfferPlaces
  <2> QED
    BY <1>1, <1>3, <2>1, <2>2 DEF InOut
<1>4. CASE o # c
  <2>1. out'[o] = out[o]
    BY <1>1, <1>4 DEF TypeOK
  <2> QED
    BY <1>1, <2>1 DEF InOut
<1> QED
  BY <1>3, <1>4

\* register's loop and target.send: from what is pending, or from the handler's
\* hands, to the end of a channel.
LEMMA SendMoves ==
    ASSUME TypeOK, Single, NEW c \in Conns, Flush(c) \/ SendTarget(c)
    PROVE  Single'
<1>1. CASE Flush(c)
  <2>1. PICK e \in flush[c] : /\ out' = [out EXCEPT ![c] = Offer(@, Message("deliver", e.env))]
                              /\ flush' = [flush EXCEPT ![c] = @ \ {e}]
    BY <1>1 DEF Flush
  <2>2. UNCHANGED <<queue, pc, job, delivered>>
    BY <1>1 DEF Flush, hubVars, outside
  <2> DEFINE m == Message("deliver", e.env)
  <2>3. m \in RelayMessage /\ m.kind = "deliver" /\ m.env = e.env
    BY DEF Message, RelayMessage, TypeOK, Queued
  <2>4. out' = [out EXCEPT ![c] = Offer(out[c], m)]
    BY <2>1
  <2> DEFINE end == Len(out[c]) + 1
  <2> HIDE DEF m
  <2>7. \A t, o, k, n : InOut(t, o, k, n)' =>
            \/ InOut(t, o, k, n)
            \/ t = "out" /\ o = c /\ k = end /\ m.kind = "deliver" /\ m.env.id = n
    BY <2>3, <2>4, OfferOut
  <2> HIDE DEF end
  <2>5. ASSUME NEW t, NEW o, NEW k, NEW n, Place(t, o, k, n)'
        PROVE  \/ Place(t, o, k, n) /\ ~(t = "flush" /\ o = c /\ k = e)
               \/ Place("flush", c, e, n) /\ t = "out" /\ o = c /\ k = end
    <3>1. CASE InQueue(t, o, k, n)' \/ InJob(t, o, k, n)' \/ IsDone(t, o, k, n)'
      BY <2>2, <3>1 DEF InQueue, InJob, IsDone, Place
    <3>2. CASE InFlush(t, o, k, n)'
      BY <2>1, <3>2 DEF InFlush, Place, TypeOK
    <3>3. CASE InOut(t, o, k, n)'
      <4>1. CASE InOut(t, o, k, n)
        BY <4>1 DEF InOut, Place
      <4>2. CASE t = "out" /\ o = c /\ k = end /\ m.kind = "deliver" /\ m.env.id = n
        BY <2>3, <4>2 DEF InFlush, Place
      <4> QED
        BY <2>7, <3>3, <4>1, <4>2
    <3> QED
      BY <2>5, <3>1, <3>2, <3>3 DEF Place
  <2>6. Moves("flush", c, e, "out", c, end)
    BY <2>5 DEF Moves
  <2> QED
    BY <2>6, MoveKeeps
<1>2. CASE SendTarget(c)
  <2> DEFINE x == job[c].target
             m == job[c].msg
  <2>1. x \in Conns /\ m \in RelayMessage
    BY <1>2 DEF SendTarget, TypeOK
  <2>2. out' = [out EXCEPT ![x] = Offer(out[x], m)] /\ pc[c] = "sending"
    BY <1>2 DEF SendTarget
  <2>3. UNCHANGED <<queue, flush, delivered>>
    BY <1>2 DEF SendTarget, hubVars, outside
  <2>4. /\ pc'[c] # "sending"
        /\ \A b \in Conns \ {c} : pc'[b] = pc[b] /\ job'[b] = job[b]
    BY <1>2 DEF SendTarget, TypeOK
  <2>5. \A n : m.kind = "deliver" /\ m.env.id = n => Place("job", c, 0, n)
    BY <2>2 DEF InJob, Place
  <2> DEFINE end == Len(out[x]) + 1
  <2> HIDE DEF x, m
  <2>7. \A t, o, k, n : InOut(t, o, k, n)' =>
            \/ InOut(t, o, k, n)
            \/ t = "out" /\ o = x /\ k = end /\ m.kind = "deliver" /\ m.env.id = n
    BY <2>1, <2>2, OfferOut
  <2> HIDE DEF end
  <2>6. ASSUME NEW t, NEW o, NEW k, NEW n, Place(t, o, k, n)'
        PROVE  \/ Place(t, o, k, n) /\ ~(t = "job" /\ o = c /\ k = 0)
               \/ Place("job", c, 0, n) /\ t = "out" /\ o = x /\ k = end
    <3>1. CASE InQueue(t, o, k, n)' \/ InFlush(t, o, k, n)' \/ IsDone(t, o, k, n)'
      BY <2>3, <3>1 DEF InQueue, InFlush, IsDone, Place
    <3>2. CASE InJob(t, o, k, n)'
      BY <2>4, <3>2 DEF InJob, Place
    <3>3. CASE InOut(t, o, k, n)'
      <4>1. CASE InOut(t, o, k, n)
        BY <4>1 DEF InOut, Place
      <4>2. CASE t = "out" /\ o = x /\ k = end /\ m.kind = "deliver" /\ m.env.id = n
        BY <2>5, <4>2
      <4> QED
        BY <2>7, <3>3, <4>1, <4>2
    <3> QED
      BY <2>6, <3>1, <3>2, <3>3 DEF Place
  <2>8. Moves("job", c, 0, "out", x, end)
    BY <2>6 DEF Moves
  <2> QED
    BY <2>8, MoveKeeps
<1> QED
  BY <1>1, <1>2

\* The handler's other steps, and the frames that carry no envelope.
LEMMA HandlerDrops ==
    ASSUME TypeOK, DueRight, Single, NEW c \in Conns,
           \/ StartPumps(c) \/ SendPanics(c) \/ SendAck(c) \/ Unregister(c) \/ CloseOut(c)
           \/ RegisterPush(c) \/ Drop(c) \/ WriteDone(c)
           \/ \E r \in due[dev[c]] : Receipt(c, r)
    PROVE  Single'
<1>1. CASE SendAck(c)
  <2> DEFINE m == Message("ack", job[c].msg.env)
  <2>1. m \in RelayMessage /\ m.kind # "deliver"
    BY <1>1 DEF SendAck, TypeOK, Message, RelayMessage
  <2>2. out' = [out EXCEPT ![c] = Offer(out[c], m)] /\ UNCHANGED <<queue, flush, delivered>>
        /\ pc'[c] # "sending" /\ \A b \in Conns \ {c} : pc'[b] = pc[b] /\ job'[b] = job[b]
    BY <1>1 DEF SendAck, hubVars, outside, TypeOK
  <2> HIDE DEF m
  <2>3. ASSUME NEW t, NEW o, NEW k, NEW n, Place(t, o, k, n)'
        PROVE  Place(t, o, k, n)
    <3>1. CASE InQueue(t, o, k, n)' \/ InFlush(t, o, k, n)' \/ IsDone(t, o, k, n)'
      BY <2>2, <3>1 DEF InQueue, InFlush, IsDone, Place
    <3>2. CASE InJob(t, o, k, n)'
      BY <2>2, <3>2 DEF InJob, Place
    <3>3. CASE InOut(t, o, k, n)'
      BY <2>1, <2>2, <3>3, OfferOut DEF Place
    <3> QED
      BY <2>3, <3>1, <3>2, <3>3 DEF Place
  <2> QED
    BY <2>3, DropKeeps
<1>2. ASSUME UNCHANGED <<queue, flush, out, delivered>>,
             \A b \in Conns : pc'[b] = "sending" /\ job'[b].msg.kind = "deliver" =>
                 pc[b] = "sending" /\ job'[b] = job[b]
      PROVE  Single'
  <2>1. ASSUME NEW t, NEW o, NEW k, NEW n, Place(t, o, k, n)'
        PROVE  Place(t, o, k, n)
    BY <1>2, <2>1 DEF InQueue, InFlush, InOut, IsDone, InJob, Place
  <2> QED
    BY <2>1, DropKeeps
<1>3. CASE StartPumps(c) \/ SendPanics(c) \/ Unregister(c) \/ CloseOut(c)
           \/ RegisterPush(c) \/ Drop(c) \/ WriteDone(c)
  <2>1. UNCHANGED <<queue, flush, out, delivered>>
    BY <1>3 DEF StartPumps, SendPanics, Unregister, CloseOut, RegisterPush, Drop, WriteDone,
                hubVars, connVars, outside
  <2>2. \A b \in Conns : pc'[b] = "sending" => pc[b] = "sending" /\ job'[b] = job[b]
    BY <1>3 DEF StartPumps, SendPanics, Unregister, CloseOut, RegisterPush, Drop, WriteDone,
                connVars, TypeOK
  <2> QED
    BY <1>2, <2>1, <2>2
<1>4. ASSUME NEW r \in due[dev[c]], Receipt(c, r)
      PROVE  Single'
  <2>1. UNCHANGED <<queue, flush, out, delivered>>
    BY <1>4 DEF Receipt, hubVars
  <2>2. r.kind # "deliver"
    BY RelayAssumption DEF DueRight, TypeOK
  <2>3. \A b \in Conns : pc'[b] = "sending" /\ job'[b].msg.kind = "deliver" =>
            pc[b] = "sending" /\ job'[b] = job[b]
    BY <1>4, <2>2 DEF Receipt, TypeOK, Reading
  <2> QED
    BY <1>2, <2>1, <2>3
<1> QED
  BY <1>1, <1>3, <1>4

\* writePump: the head of the channel is delivered or lost, the others move up.
LEMMA WriteMoves ==
    ASSUME TypeOK, Single, NEW c \in Conns, WriteOK(c) \/ WriteLost(c)
    PROVE  Single'
<1> DEFINE d == dev[c]
           end == Len(delivered[d]) + 1
<1>1. /\ out[c] \in Seq(RelayMessage) /\ out[c] # <<>> /\ out' = [out EXCEPT ![c] = Tail(@)]
      /\ UNCHANGED <<queue, flush, pc, job>> /\ d \in Devices
  BY DEF WriteOK, WriteLost, TypeOK, hubVars, outside
<1>2. ASSUME NEW t, NEW o, NEW k, NEW n, InOut(t, o, k, n)'
      PROVE  \/ o # c /\ InOut(t, o, k, n)
             \/ o = c /\ k \in Nat /\ k + 1 # 1 /\ InOut(t, o, k + 1, n)
  <2>1. CASE o = c
    <3>1. k \in DOMAIN Tail(out[c]) /\ Tail(out[c])[k].kind = "deliver"
          /\ Tail(out[c])[k].env.id = n /\ t = "out"
      BY <1>1, <1>2, <2>1 DEF InOut, TypeOK
    <3>2. Tail(out[c]) \in Seq(RelayMessage) /\ \A i \in DOMAIN Tail(out[c]) : i \in Nat /\ i # 0
      BY <1>1
    <3>3. k \in Nat /\ k + 1 # 1
      BY <3>1, <3>2
    <3>4. k + 1 \in DOMAIN out[c] /\ Tail(out[c])[k] = out[c][k + 1]
      BY <1>1, <3>1, TailDomain
    <3>5. InOut(t, c, k + 1, n)
      BY <3>1, <3>4 DEF InOut
    <3> QED
      BY <2>1, <3>3, <3>5
  <2>2. CASE o # c
    BY <1>1, <1>2, <2>2 DEF InOut, TypeOK
  <2> QED
    BY <2>1, <2>2
<1>3. ASSUME NEW t, NEW o, NEW k, NEW n, IsDone(t, o, k, n)'
      PROVE  \/ IsDone(t, o, k, n)
             \/ t = "done" /\ o = d /\ k = end /\ InOut("out", c, 1, n)
  <2>1. CASE UNCHANGED delivered
    BY <1>3, <2>1 DEF IsDone
  <2>2. CASE /\ Head(out[c]).kind = "deliver"
             /\ delivered' = [delivered EXCEPT ![d] = Append(@, Head(out[c]).env)]
    <3>1. Head(out[c]) = out[c][1] /\ 1 \in DOMAIN out[c]
      BY <1>1, TailDomain
    <3>2. delivered[d] \in Seq(Envelope)
      BY <1>1 DEF TypeOK
    <3>3. CASE o = d
      <4>1. k \in DOMAIN Append(delivered[d], Head(out[c]).env)
            /\ Append(delivered[d], Head(out[c]).env)[k].id = n /\ t = "done"
        BY <1>1, <1>3, <2>2, <3>3 DEF IsDone, TypeOK
      <4>2. ASSUME NEW s \in Seq(Envelope), NEW x, NEW i \in DOMAIN Append(s, x)
            PROVE  \/ i \in DOMAIN s /\ Append(s, x)[i] = s[i]
                   \/ i = Len(s) + 1 /\ Append(s, x)[i] = x
        OBVIOUS
      <4>3. \/ k \in DOMAIN delivered[d] /\ delivered[d][k].id = n
            \/ k = end /\ Head(out[c]).env.id = n
        BY <3>2, <4>1, <4>2
      <4> QED
        BY <1>1, <2>2, <3>1, <3>3, <4>1, <4>3 DEF IsDone, InOut
    <3>4. CASE o # d
      BY <1>3, <2>2, <3>4 DEF IsDone, TypeOK
    <3> QED
      BY <3>3, <3>4
  <2> QED
    BY <2>1, <2>2 DEF WriteOK, WriteLost, outside
<1> HIDE DEF d, end
<1>4. ASSUME NEW t, NEW o, NEW k, NEW n, Place(t, o, k, n)'
      PROVE  \/ Place(t, o, k, n) /\ ~(t = "out" /\ o = c)
             \/ t = "out" /\ o = c /\ k \in Nat /\ k + 1 # 1 /\ Place("out", c, k + 1, n)
             \/ t = "done" /\ o = d /\ k = end /\ Place("out", c, 1, n)
  <2>1. CASE InQueue(t, o, k, n)' \/ InFlush(t, o, k, n)' \/ InJob(t, o, k, n)'
    BY <1>1, <2>1 DEF InQueue, InFlush, InJob, Place
  <2>2. CASE InOut(t, o, k, n)'
    BY <1>2, <2>2 DEF InOut, Place
  <2>3. CASE IsDone(t, o, k, n)'
    BY <1>3, <2>3 DEF IsDone, Place
  <2> QED
    BY <1>4, <2>1, <2>2, <2>3 DEF Place
<1> SUFFICES ASSUME NEW t1, NEW o1, NEW k1, NEW t2, NEW o2, NEW k2, NEW n,
                    Place(t1, o1, k1, n)', Place(t2, o2, k2, n)'
             PROVE  t1 = t2 /\ o1 = o2 /\ k1 = k2
  BY DEF Single
<1>5. \/ Place(t1, o1, k1, n) /\ ~(t1 = "out" /\ o1 = c)
      \/ t1 = "out" /\ o1 = c /\ k1 \in Nat /\ k1 + 1 # 1 /\ Place("out", c, k1 + 1, n)
      \/ t1 = "done" /\ o1 = d /\ k1 = end /\ Place("out", c, 1, n)
  BY <1>4
<1>6. \/ Place(t2, o2, k2, n) /\ ~(t2 = "out" /\ o2 = c)
      \/ t2 = "out" /\ o2 = c /\ k2 \in Nat /\ k2 + 1 # 1 /\ Place("out", c, k2 + 1, n)
      \/ t2 = "done" /\ o2 = d /\ k2 = end /\ Place("out", c, 1, n)
  BY <1>4
<1>7. ASSUME k1 \in Nat, k2 \in Nat, Place("out", c, k1 + 1, n), Place("out", c, k2 + 1, n)
      PROVE  k1 = k2
  <2>1. k1 + 1 = k2 + 1
    BY <1>7 DEF Single
  <2> QED
    BY <1>7, <2>1
<1>8. ASSUME NEW k, Place("out", c, k, n), Place("out", c, 1, n)
      PROVE  k = 1
  BY <1>8 DEF Single
<1> QED
  BY <1>5, <1>6, <1>7, <1>8 DEF Single

\* route: the new envelope goes into the handler's hands or into one queue.
LEMMA RouteAdds ==
    ASSUME TypeOK, IdInv, lag # "rewound", Single,
           NEW c \in Conns, NEW d \in Devices, Route(c, d)
    PROVE  Single'
<1> DEFINE env == [id |-> nextID + 1, ref |-> sent + 1, from |-> dev[c], to |-> d]
           entry == [env |-> env, at |-> now]
           msg == Message("deliver", env)
           all == queue[d] \cup {entry}
<1>1. UNCHANGED <<flush, out, delivered>>
  BY DEF Route
<1>2. job' = [job EXCEPT ![c] = [target |-> conns[d], msg |-> msg]]
  BY DEF Route
<1>3. \A t, o, k : ~Place(t, o, k, nextID + 1)
  BY PlaceBounded DEF TypeOK
<1>4. entry.env.id = nextID + 1 /\ msg.env.id = nextID + 1
  BY DEF Message
<1>5. \/ pc' = [pc EXCEPT ![c] = "sending"] /\ queue' = queue
      \/ pc' = [pc EXCEPT ![c] = "acking"] /\ queue' = [queue EXCEPT ![d] = Prune(all)]
  BY DEF Route
<1>6. Prune(all) \subseteq queue[d] \cup {entry}
  BY PruneSubset
<1> HIDE DEF env, entry, msg, all
<1>7. ASSUME NEW t, NEW o, NEW k, NEW n, InFlush(t, o, k, n)' \/ InOut(t, o, k, n)' \/ IsDone(t, o, k, n)'
      PROVE  Place(t, o, k, n)
  BY <1>1, <1>7 DEF InFlush, InOut, IsDone, Place
<1>8. CASE pc' = [pc EXCEPT ![c] = "sending"] /\ queue' = queue
  <2>1. ASSUME NEW t, NEW o, NEW k, NEW n, InQueue(t, o, k, n)'
        PROVE  Place(t, o, k, n)
    BY <1>8, <2>1 DEF InQueue, Place
  <2>2. ASSUME NEW t, NEW o, NEW k, NEW n, InJob(t, o, k, n)'
        PROVE  Place(t, o, k, n) \/ (n = nextID + 1 /\ t = "job" /\ o = c /\ k = 0)
    BY <1>2, <1>4, <1>8, <2>2 DEF InJob, Place, TypeOK
  <2>3. \A t, o, k, n : Place(t, o, k, n)' =>
            Place(t, o, k, n) \/ (n = nextID + 1 /\ t = "job" /\ o = c /\ k = 0)
    BY <1>7, <2>1, <2>2 DEF Place
  <2>4. Adds(nextID + 1, "job", c, 0)
    BY <1>3, <2>3 DEF Adds
  <2> QED
    BY <2>4, AddKeeps
<1>9. CASE pc' = [pc EXCEPT ![c] = "acking"] /\ queue' = [queue EXCEPT ![d] = Prune(all)]
  <2>1. ASSUME NEW t, NEW o, NEW k, NEW n, InQueue(t, o, k, n)'
        PROVE  Place(t, o, k, n) \/ (n = nextID + 1 /\ t = "queue" /\ o = d /\ k = entry)
    BY <1>4, <1>6, <1>9, <2>1 DEF InQueue, Place, TypeOK
  <2>2. ASSUME NEW t, NEW o, NEW k, NEW n, InJob(t, o, k, n)'
        PROVE  Place(t, o, k, n)
    BY <1>2, <1>9, <2>2 DEF InJob, Place, TypeOK
  <2>3. \A t, o, k, n : Place(t, o, k, n)' =>
            Place(t, o, k, n) \/ (n = nextID + 1 /\ t = "queue" /\ o = d /\ k = entry)
    BY <1>7, <2>1, <2>2 DEF Place
  <2>4. Adds(nextID + 1, "queue", d, entry)
    BY <1>3, <2>3 DEF Adds
  <2> QED
    BY <2>4, AddKeeps
<1> QED
  BY <1>5, <1>8, <1>9

\* NewPersistentHub: what is loaded was queued, if the file was not behind.
LEMMA RestartDrops ==
    ASSUME TypeOK, CrashKeepsQueue, Single, Restart, lag' # "rewound"
    PROVE  Single'
<1>1. /\ queue' = [d \in Devices |-> Prune(disk.queue[d])] /\ lag = "synced"
      /\ pc' = [c \in Conns |-> "none"] /\ flush' = [c \in Conns |-> {}]
      /\ out' = [c \in Conns |-> <<>>] /\ UNCHANGED delivered
  BY DEF Restart
<1>2. ASSUME NEW d \in Devices
      PROVE  queue'[d] \subseteq queue[d]
  <2>1. Prune(disk.queue[d]) \subseteq Fresh(disk.queue[d])
    BY DEF Prune
  <2>2. Fresh(disk.queue[d]) = Fresh(queue[d])
    BY <1>1 DEF CrashKeepsQueue
  <2>3. Fresh(queue[d]) \subseteq queue[d]
    BY DEF Fresh
  <2> QED
    BY <1>1, <2>1, <2>2, <2>3
<1>3. ASSUME NEW t, NEW o, NEW k, NEW n, Place(t, o, k, n)'
      PROVE  Place(t, o, k, n)
  <2>1. ~InFlush(t, o, k, n)' /\ ~InJob(t, o, k, n)' /\ ~InOut(t, o, k, n)'
    BY <1>1 DEF InFlush, InJob, InOut
  <2>2. InQueue(t, o, k, n)' => InQueue(t, o, k, n)
    BY <1>2 DEF InQueue
  <2>3. IsDone(t, o, k, n)' => IsDone(t, o, k, n)
    BY <1>1 DEF IsDone
  <2> QED
    BY <1>3, <2>1, <2>2, <2>3 DEF Place
<1> QED
  BY <1>3, DropKeeps

\* Single needs a hub that did not go back to an older file.
OnceInv == lag # "rewound" => Single

LEMMA OnceStep ==
    TypeOK /\ AddressInv /\ IdInv /\ CrashKeepsQueue /\ OnceInv /\ [Next]_vars => OnceInv'
<1> SUFFICES ASSUME TypeOK, AddressInv, IdInv, CrashKeepsQueue, OnceInv, [Next]_vars,
                    lag' # "rewound"
             PROVE  Single'
  BY DEF OnceInv
<1>1. lag # "rewound" /\ Single
  BY SyncStep DEF OnceInv
<1>2. DueRight
  BY DEF AddressInv
<1>3. ASSUME NEW c \in Conns, Handler(c) \/ WritePump(c) \/ RegisterPush(c) \/ Drop(c)
      PROVE  Single'
  BY <1>1, <1>2, <1>3, SendMoves, HandlerDrops, WriteMoves DEF Handler, WritePump
<1>4. ASSUME NEW c \in Conns, \E r \in due[dev[c]] : Receipt(c, r)
      PROVE  Single'
  BY <1>1, <1>2, <1>4, HandlerDrops
<1>5. ASSUME NEW c \in Conns, NEW d \in Devices, Register(d, c) \/ Route(c, d)
      PROVE  Single'
  BY <1>1, <1>5, RegisterMoves, RouteAdds
<1>6. CASE Tick \/ (\E d \in Devices : PushDone(d)) \/ UNCHANGED vars
  <2>1. UNCHANGED <<queue, flush, job, pc, out, delivered>>
    BY <1>6 DEF Tick, PushDone, vars, hubVars, connVars, outside
  <2>2. \A t, o, k, n : Place(t, o, k, n)' => Place(t, o, k, n)
    BY <2>1 DEF Place, InQueue, InFlush, InJob, InOut, IsDone
  <2> QED
    BY <1>1, <2>2, DropKeeps
<1>7. CASE Restart
  BY <1>1, <1>7, RestartDrops
<1> QED
  BY <1>3, <1>4, <1>5, <1>6, <1>7 DEF Next

\* register, route and a restart: no envelope reaches its device a second time,
\* whatever reconnects and crashes happen between queueing, draining and writing,
\* unless a restart used a file that was behind.
THEOREM DeliveredAtMostOnce == Spec => []DeliveredOnce
<1>1. Init => OnceInv
  <2>1. Init => \A t, o, k, n : ~Place(t, o, k, n)
    BY DEF Init, Place, InQueue, InFlush, InJob, InOut, IsDone
  <2> QED
    BY <2>1 DEF OnceInv, Single
<1>2. ASSUME OnceInv
      PROVE  DeliveredOnce
  <2> SUFFICES ASSUME lag # "rewound", NEW d \in Devices, NEW i \in DOMAIN delivered[d],
                      NEW j \in DOMAIN delivered[d], delivered[d][i] = delivered[d][j]
               PROVE  i = j
    BY DEF DeliveredOnce, IsInjective
  <2>1. Place("done", d, i, delivered[d][i].id) /\ Place("done", d, j, delivered[d][i].id)
    BY DEF Place, IsDone
  <2> QED
    BY <1>2, <2>1 DEF OnceInv, Single
<1> QED
  BY <1>1, <1>2, TypeCorrect, AddressKept, IdsInvariant, FileAgrees, OnceStep, PTL DEF Spec

=============================================================================
