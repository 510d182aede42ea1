---------------------------- MODULE Conversations ----------------------------
(***************************************************************************)
(* The app's conversation store (apps/mobile/src/store/conversations.ts)   *)
(* and the native store its history is saved to.                           *)
(*                                                                         *)
(* Each action is one run of JavaScript up to an await or to the end of a  *)
(* callback.  The load at the start, a download, an upload, the save timer *)
(* and the sign-out wait for the outside, and anything may run meanwhile.  *)
(* Typing, call and status bodies leave the store unchanged and are not    *)
(* here.  Phone numbers and identity keys kept with a thread are left out; *)
(* so is the list snapshot, which is convs in the order of last activity,  *)
(* rebuilt whenever convs changes.                                         *)
(***************************************************************************)
EXTENDS Naturals, Sequences, FiniteSets, FiniteSetsExt

CONSTANTS
    Peers,      \* the users one talks to
    Groups,     \* group ids; a group's thread is kept under its id
    NoConv,     \* no thread
    NoBlob,     \* nothing saved
    NoSender,   \* the senderId of a message outside a group
    Kinds,      \* of "text", "image" and "file": what messages carry
    MaxMsgs,    \* bound: messages in all
    MaxJobs,    \* bound: downloads and uploads under way
    MaxTaps,    \* bound: stars, dismissals and taps on files
    MaxEnds     \* bound: sign-outs and deaths of the process

ASSUME ConversationsAssumption ==
    /\ Peers \cap Groups = {}
    /\ Kinds \subseteq {"text", "image", "file"}
    /\ {MaxMsgs, MaxJobs, MaxTaps, MaxEnds} \subseteq Nat
    /\ NoSender \notin Peers

VARIABLES
    phase,      \* "off", "loading" (hydrate awaits the file) or "up"
    read,       \* what the load has read: the file as it was at the start
    convs,      \* ConversationStore.convs: thread -> conversation, or NoConv
    counter,    \* ConversationStore.counter
    saveTimer,  \* whether saveTimer is set
    disk,       \* the saved blob, or NoBlob
    behind,     \* whether a save was lost, or a load failed, since the last good save
    wiping,     \* whether the sign-out has still to clear the native store
    jobs,       \* downloads, uploads and writes to Downloads under way; a second
                \* one like another, of the same kind for the same message, is not
                \* told apart from it: it would patch what the first has patched
    wire,       \* messages given to sendText with a clientRef, by this process
    acked,      \* those of them the relay has acknowledged
    receipts,   \* the read receipts that went out, with their addressee
    made,       \* how many messages there have been: the last message's identity
    used,       \* the group ids in use
    raced,      \* whether ids may clash: a message was made before the history was
                \* there, or a transfer was under way at a sign-out
    taps,       \* how many stars, dismissals and taps on files there have been
    ends        \* how many sign-outs and deaths of the process there have been

vars == <<phase, read, convs, counter, saveTimer, disk, behind, wiping, jobs, wire, acked,
          receipts, made, used, raced, taps, ends>>

loadVars == <<phase, read>>
diskVars == <<disk, behind, wiping>>
fileVars == <<phase, read, disk, behind, wiping>>
netVars == <<wire, acked, receipts>>
countVars == <<made, counter, raced>>
boundVars == <<taps, ends>>

\* Bounds.
Tap == taps < MaxTaps /\ taps' = taps + 1 /\ UNCHANGED ends
End == ends < MaxEnds /\ ends' = ends + 1 /\ UNCHANGED taps

Threads == Peers \cup Groups

(***************************************************************************)
(* A message.  `id` is the code's id ("m" and the counter), `uid` stands   *)
(* for what tells messages apart: text, clientRef and envelope id.  Every  *)
(* inbound message has an envelope id.  mediaUri and mediaState are never  *)
(* saved.                                                                  *)
(***************************************************************************)
Ticks == {"none", "sending", "sent", "delivered", "read"}

Message ==
    [uid : Nat, id : Nat, mine : BOOLEAN, kind : Kinds, senderId : Peers \cup {NoSender},
     status : Ticks, readSent : BOOLEAN,
     marks : SUBSET {"starred", "dismissed"}, mediaSaved : BOOLEAN,
     ref : BOOLEAN, uri : BOOLEAN, mediaState : {"none", "loading", "ready", "error"}]

Conversation ==
    [messages : Seq(Message), unread : Nat, group : BOOLEAN]

Table == [Threads -> Conversation \cup {NoConv}]

\* What is saved.
Saves == [counter : Nat, convs : Table]

ASSUME NothingAssumption == NoConv \notin Conversation /\ NoBlob \notin Saves

\* STATUS_RANK, and -1 for none shifted by one.
Rank == [s \in Ticks |-> CASE s = "none" -> 0 [] s = "sending" -> 1 [] s = "sent" -> 2
                          [] s = "delivered" -> 3 [] s = "read" -> 4]

NoConvs == [t \in Threads |-> NoConv]

Fresh == [messages |-> <<>>, unread |-> 0, group |-> FALSE]

\* ensure.
Ensure(t) == IF convs[t] = NoConv THEN Fresh ELSE convs[t]

Messages(t) == Ensure(t).messages

\* Thread t has these messages, this badge, and is a group or not.
Put(t, ms, unread, group) ==
    convs' = [convs EXCEPT ![t] = [messages |-> ms, unread |-> unread, group |-> group]]

\* Thread t has these messages, and is otherwise what it was or a fresh one.
PutMessages(t, ms) == Put(t, ms, Ensure(t).unread, Ensure(t).group)

\* Mutant of Make: the status starts as one that STATUS_RANK does not have.
MakeLoose(mine, k, s) ==
    [uid |-> made + 1, id |-> counter, mine |-> mine, kind |-> k, senderId |-> s,
     status |-> "unsent", readSent |-> FALSE, marks |-> {}, mediaSaved |-> FALSE,
     ref |-> FALSE, uri |-> FALSE, mediaState |-> "none"]

\* make; the caller fills in the rest.
Make(mine, k, s) ==
    [uid |-> made + 1, id |-> counter, mine |-> mine, kind |-> k, senderId |-> s,
     status |-> "none", readSent |-> FALSE, marks |-> {}, mediaSaved |-> FALSE,
     ref |-> FALSE, uri |-> FALSE, mediaState |-> "none"]

\* Counts the message that Make made.
Made ==
    /\ made < MaxMsgs
    /\ made' = made + 1
    /\ counter' = counter + 1
    /\ raced' = (raced \/ (phase = "loading" /\ read # NoBlob))

\* emit: every change arms the save timer, if it is not armed yet.
Emit == saveTimer' = TRUE

\* The place of the first message of thread t with the given id.
Find(t, id) ==
    LET hits == {i \in DOMAIN Messages(t) : Messages(t)[i].id = id}
    IN  {i \in hits : \A k \in hits : i <= k}

\* The fields that are patched: the reference of an upload, the state of a download, or
\* that the file was written.
WithRef(m) == [m EXCEPT !.ref = TRUE]
InError(m) == [m EXCEPT !.mediaState = "error"]
Loading(m) == [m EXCEPT !.mediaState = "loading"]
Ready(m) == [m EXCEPT !.uri = TRUE, !.mediaState = "ready"]
OnDisk(m) == [m EXCEPT !.mediaSaved = TRUE]

Changed(m, fields) ==
    CASE fields = "media" -> WithRef(m)
      [] fields = "error" -> InError(m)
      [] fields = "loading" -> Loading(m)
      [] fields = "ready" -> Ready(m)
      [] fields = "saved" -> OnDisk(m)

\* patch: the first message with the id, if there is one still.
Patch(t, id, fields) ==
    \/ \E i \in Find(t, id) :
          /\ PutMessages(t, [Messages(t) EXCEPT ![i] = Changed(Messages(t)[i], fields)])
          /\ Emit
    \/ Find(t, id) = {} /\ UNCHANGED <<convs, saveTimer>>

Init ==
    /\ phase = "off"
    /\ read = NoBlob
    /\ convs = NoConvs
    /\ counter = 0
    /\ saveTimer = FALSE
    /\ disk = NoBlob
    /\ behind = FALSE
    /\ wiping = FALSE
    /\ jobs = {}
    /\ wire = {}
    /\ acked = {}
    /\ receipts = {}
    /\ made = 0
    /\ used = {}
    /\ raced = FALSE
    /\ taps = 0
    /\ ends = 0

-----------------------------------------------------------------------------
(* The history.                                                            *)

\* start: subscribes and begins to load.  The native module serves calls in
\* order, so the load reads the file before this process saves.
Start ==
    /\ phase = "off"
    /\ phase' = "loading"
    /\ read' = disk
    /\ UNCHANGED <<diskVars, netVars, countVars, boundVars, convs, saveTimer, jobs, used>>

\* Mutant of Merge: what has arrived meanwhile is kept instead of the file's.
MergeForgets(mem, file) ==
    IF file = NoConv THEN mem
    ELSE IF mem = NoConv
    THEN [messages |-> file.messages, unread |-> file.unread, group |-> FALSE]
    ELSE mem

\* One thread of the file, and what has arrived in it meanwhile.  A thread that
\* is new in memory gets neither its group nor its identity key back.
Merge(mem, file) ==
    IF file = NoConv THEN mem
    ELSE IF mem = NoConv
    THEN [messages |-> file.messages, unread |-> file.unread, group |-> FALSE]
    ELSE [messages |-> file.messages \o mem.messages, unread |-> mem.unread + file.unread,
          group |-> mem.group]

\* Mutants of Hydrate: the counter is not restored; what has been saved meanwhile is read.
HydrateNoCounter ==
    /\ phase = "loading"
    /\ phase' = "up"
    /\ read' = NoBlob
    /\ \/ /\ read = NoBlob
          /\ UNCHANGED <<convs, counter, saveTimer>>
       \/ /\ read # NoBlob
          /\ UNCHANGED counter
          /\ convs' = [t \in Threads |-> Merge(convs[t], read.convs[t])]
          /\ Emit
    /\ UNCHANGED <<diskVars, netVars, boundVars, jobs, made, used, raced>>

HydrateLate ==
    /\ phase = "loading"
    /\ phase' = "up"
    /\ read' = NoBlob
    /\ \/ /\ disk = NoBlob
          /\ UNCHANGED <<convs, counter, saveTimer>>
       \/ /\ disk # NoBlob
          /\ counter' = Max({counter, disk.counter})
          /\ convs' = [t \in Threads |-> Merge(convs[t], disk.convs[t])]
          /\ Emit
    /\ UNCHANGED <<diskVars, netVars, boundVars, jobs, made, used, raced>>

\* The rest of hydrate.
Hydrate ==
    /\ phase = "loading"
    /\ phase' = "up"
    /\ read' = NoBlob
    /\ \/ /\ read = NoBlob
          /\ UNCHANGED <<convs, counter, saveTimer>>
       \/ /\ read # NoBlob
          /\ counter' = Max({counter, read.counter})
          /\ convs' = [t \in Threads |-> Merge(convs[t], read.convs[t])]
          /\ Emit
    /\ UNCHANGED <<diskVars, netVars, boundVars, jobs, made, used, raced>>

\* The file cannot be read or parsed: start empty.
HydrateFails ==
    /\ phase = "loading"
    /\ phase' = "up"
    /\ read' = NoBlob
    /\ behind' = TRUE
    /\ UNCHANGED <<netVars, countVars, boundVars, convs, saveTimer, disk, wiping, jobs, used>>

\* What a save writes: no preview and no download state.
Bare(m) == [m EXCEPT !.uri = FALSE, !.mediaState = "none"]

Persisted(c) ==
    IF c = NoConv THEN NoConv
    ELSE [messages |-> [i \in DOMAIN c.messages |-> Bare(c.messages[i])],
          unread |-> c.unread, group |-> c.group]

Blob == [counter |-> counter, convs |-> [t \in Threads |-> Persisted(convs[t])]]

\* The native store takes the blob, or rejects it, or dies before it is on disk.
Write(b) ==
    \/ disk' = b /\ behind' = FALSE
    \/ behind' = TRUE /\ UNCHANGED disk

\* The save timer.
Save ==
    /\ saveTimer
    /\ saveTimer' = FALSE
    /\ Write(Blob)
    /\ UNCHANGED <<loadVars, netVars, countVars, boundVars, convs, wiping, jobs, used>>

\* reset, at the sign-out ...
Reset ==
    /\ phase # "off"
    /\ ~wiping
    /\ convs' = NoConvs
    /\ counter' = 0
    /\ Emit
    /\ Write([counter |-> 0, convs |-> NoConvs])
    /\ wiping' = TRUE
    /\ End
    /\ raced' = (raced \/ jobs # {})
    /\ UNCHANGED <<loadVars, netVars, jobs, made, used>>

\* ... and the native reset that Settings calls after it, whose failure is ignored.
NativeReset ==
    /\ wiping
    /\ wiping' = FALSE
    /\ \/ disk' = NoBlob /\ behind' = (behind \/ convs # NoConvs)
       \/ UNCHANGED <<disk, behind>>
    /\ UNCHANGED <<loadVars, netVars, countVars, boundVars, convs, saveTimer, jobs, used>>

\* The process dies; the native store survives it.
Kill ==
    /\ phase # "off"
    /\ phase' = "off"
    /\ read' = NoBlob
    /\ convs' = NoConvs
    /\ counter' = 0
    /\ saveTimer' = FALSE
    /\ wiping' = FALSE
    /\ jobs' = {}
    /\ wire' = {}
    /\ acked' = {}
    /\ End
    /\ UNCHANGED <<disk, behind, receipts, made, used, raced>>

-----------------------------------------------------------------------------
(* Threads.                                                                *)

\* ensurePeer, of a user found by their number.
EnsurePeer(p) ==
    /\ phase # "off"
    /\ convs[p] = NoConv
    /\ PutMessages(p, <<>>)
    /\ Emit
    /\ UNCHANGED <<fileVars, netVars, countVars, boundVars, jobs, used>>

\* createGroup, with an id nobody has used.
CreateGroup(g) ==
    /\ phase # "off"
    /\ g \notin used
    /\ used' = used \cup {g}
    /\ Put(g, Messages(g), Ensure(g).unread, TRUE)
    /\ Emit
    /\ UNCHANGED <<fileVars, netVars, countVars, boundVars, jobs>>

-----------------------------------------------------------------------------
(* Sending.                                                                *)

\* Screens show, and send to, threads that exist: Contacts calls ensurePeer first.

\* send: to a group without a status, as its copies carry no clientRef.
Send(t) ==
    LET grp == Ensure(t).group
        msg == [Make(TRUE, "text", NoSender) EXCEPT
                   !.status = IF grp THEN "none" ELSE "sending"]
    IN  /\ "text" \in Kinds
        /\ convs[t] # NoConv
        /\ Made
        /\ PutMessages(t, Append(Messages(t), msg))
        /\ wire' = IF grp THEN wire ELSE wire \cup {msg.uid}
        /\ Emit
        /\ UNCHANGED <<fileVars, boundVars, jobs, acked, receipts, used>>

Job(k, t, m) == [kind |-> k, thread |-> t, id |-> m.id, uid |-> m.uid]

\* sendMedia, up to the upload: it does not ask for a group.
SendMedia(t, k) ==
    LET msg == [Make(TRUE, k, NoSender) EXCEPT
                   !.status = "sending", !.uri = (k = "image"),
                   !.mediaState = IF k = "image" THEN "ready" ELSE "none"]
    IN  /\ convs[t] # NoConv
        /\ Cardinality(jobs) < MaxJobs
        /\ Made
        /\ PutMessages(t, Append(Messages(t), msg))
        /\ jobs' = jobs \cup {Job("upload", t, msg)}
        /\ Emit
        /\ UNCHANGED <<fileVars, netVars, boundVars, used>>

\* The upload is done: the reference is kept and the message sent, which may wait
\* for the peer's keys.
Uploaded(j) ==
    /\ j.kind = "upload"
    /\ jobs' = (jobs \ {j}) \cup {[j EXCEPT !.kind = "send"]}
    /\ wire' = wire \cup {j.uid}
    /\ Patch(j.thread, j.id, "media")
    /\ UNCHANGED <<fileVars, countVars, boundVars, acked, receipts, used>>

\* sendText returns.
MediaSent(j) ==
    /\ j.kind = "send"
    /\ jobs' = jobs \ {j}
    /\ UNCHANGED <<fileVars, netVars, countVars, boundVars, convs, saveTimer, used>>

\* The upload or the send fails.
SendMediaFails(j) ==
    /\ j.kind \in {"upload", "send"}
    /\ jobs' = jobs \ {j}
    /\ Patch(j.thread, j.id, "error")
    /\ UNCHANGED <<fileVars, netVars, countVars, boundVars, used>>

\* The message i of thread t gets the status s.
SetStatus(t, i, s) ==
    PutMessages(t, [Messages(t) EXCEPT ![i] = [Messages(t)[i] EXCEPT !.status = s]])

\* The messages that applyStatus looks for: the uid, and a lower status.
Raises(t, u, s) ==
    {i \in DOMAIN Messages(t) : /\ Messages(t)[i].uid = u
                                /\ Rank[s] > Rank[Messages(t)[i].status]}

\* Mutants of ApplyStatus: no rank is asked; the change is not saved.
ApplyStatusAny(u, s) ==
    \/ \E t \in Threads : \E i \in DOMAIN Messages(t) :
           Messages(t)[i].uid = u /\ SetStatus(t, i, s) /\ Emit
    \/ /\ \A t \in Threads : \A i \in DOMAIN Messages(t) : Messages(t)[i].uid # u
       /\ UNCHANGED <<convs, saveTimer>>

ApplyStatusUnsaved(u, s) ==
    \/ \E t \in Threads : \E i \in Raises(t, u, s) : SetStatus(t, i, s) /\ UNCHANGED saveTimer
    \/ (\A t \in Threads : Raises(t, u, s) = {}) /\ UNCHANGED <<convs, saveTimer>>

\* applyStatus.
ApplyStatus(u, s) ==
    \/ \E t \in Threads : \E i \in Raises(t, u, s) : SetStatus(t, i, s) /\ Emit
    \/ (\A t \in Threads : Raises(t, u, s) = {}) /\ UNCHANGED <<convs, saveTimer>>

\* The client's handleAck and handleStatus: a status is known by the envelope id
\* that the ack brought to this process.  Every copy of a message is acknowledged.
Ack(u) ==
    /\ u \in wire
    /\ acked' = acked \cup {u}
    /\ ApplyStatus(u, "sent")
    /\ UNCHANGED <<fileVars, countVars, boundVars, jobs, wire, receipts, used>>

StatusUpdate(u, s) ==
    /\ u \in acked
    /\ ApplyStatus(u, s)
    /\ UNCHANGED <<fileVars, netVars, countVars, boundVars, jobs, used>>

-----------------------------------------------------------------------------
(* Receiving.                                                              *)

\* receive, of a direct message: an image is fetched at once.
Receive(p, k) ==
    LET msg == [Make(FALSE, k, NoSender) EXCEPT
                   !.ref = (k # "text"),
                   !.mediaState = IF k = "image" THEN "loading" ELSE "none"]
    IN  /\ phase # "off"
        /\ k = "image" => Cardinality(jobs) < MaxJobs
        /\ Made
        /\ Put(p, Append(Messages(p), msg), Ensure(p).unread + 1, Ensure(p).group)
        /\ jobs' = IF k = "image" THEN jobs \cup {Job("load", p, msg)} ELSE jobs
        /\ Emit
        /\ UNCHANGED <<fileVars, netVars, boundVars, used>>

\* receive, of a group message: ensureGroup brings the group's roster.
ReceiveGroup(p, g) ==
    LET msg == Make(FALSE, "text", p)
    IN  /\ phase # "off"
        /\ "text" \in Kinds
        /\ Made
        /\ used' = used \cup {g}
        /\ Put(g, Append(Messages(g), msg), Ensure(g).unread + 1, TRUE)
        /\ Emit
        /\ UNCHANGED <<fileVars, netVars, boundVars, jobs>>

Unreceipted(m) == ~m.mine /\ ~m.readSent

\* markRead, with a relay or without: sendReadReceipt returns when there is none.
MarkRead(t, online) ==
    LET ms == Messages(t)
        todo == {i \in DOMAIN ms : Unreceipted(ms[i])}
        to(m) == IF m.senderId = NoSender THEN t ELSE m.senderId
    IN  /\ convs[t] # NoConv
        /\ todo # {} \/ convs[t].unread # 0
        /\ Put(t, [i \in DOMAIN ms |-> [ms[i] EXCEPT !.readSent = (ms[i].readSent \/ i \in todo)]],
               0, Ensure(t).group)
        /\ receipts' = IF online THEN receipts \cup {<<to(ms[i]), ms[i].uid>> : i \in todo}
                       ELSE receipts
        /\ Emit
        /\ UNCHANGED <<fileVars, countVars, boundVars, jobs, wire, acked, used>>

\* toggleStar and dismissScamWarning, of the messages with the id.
ToggleStar(t, id) ==
    LET flip(m) == [m EXCEPT !.marks = IF "starred" \in m.marks THEN m.marks \ {"starred"}
                                       ELSE m.marks \cup {"starred"}]
        ms == Messages(t)
    IN  /\ Find(t, id) # {}
        /\ PutMessages(t, [i \in DOMAIN ms |-> IF ms[i].id = id THEN flip(ms[i]) ELSE ms[i]])
        /\ Emit
        /\ Tap
        /\ UNCHANGED <<fileVars, netVars, countVars, jobs, used>>

DismissScamWarning(t, id) ==
    LET mark(m) == [m EXCEPT !.marks = m.marks \cup {"dismissed"}]
        ms == Messages(t)
    IN  /\ \E i \in Find(t, id) : ~ms[i].mine
        /\ PutMessages(t, [i \in DOMAIN ms |-> IF ms[i].id = id THEN mark(ms[i]) ELSE ms[i]])
        /\ Emit
        /\ Tap
        /\ UNCHANGED <<fileVars, netVars, countVars, jobs, used>>

-----------------------------------------------------------------------------
(* Attachments.                                                            *)

\* loadPendingMedia, when a chat is shown: the images without a preview.
LoadPendingMedia(t) ==
    LET ms == Messages(t)
        todo == {i \in DOMAIN ms : /\ ms[i].ref /\ ms[i].kind = "image" /\ ~ms[i].uri
                                   /\ ms[i].mediaState # "loading"}
        hit == UNION {Find(t, ms[i].id) : i \in todo}
    IN  /\ todo # {}
        /\ Cardinality(jobs) + Cardinality(todo) <= MaxJobs
        /\ PutMessages(t, [i \in DOMAIN ms |-> IF i \in hit THEN Loading(ms[i]) ELSE ms[i]])
        /\ jobs' = jobs \cup {Job("load", t, ms[i]) : i \in todo}
        /\ Emit
        /\ UNCHANGED <<fileVars, netVars, countVars, boundVars, used>>

\* downloadMedia, of a file's chip; and saveMedia of what is not there yet, which
\* does not ask whether a download is under way.
DownloadMedia(t, id, k) ==
    /\ Cardinality(jobs) < MaxJobs
    /\ \E i \in Find(t, id) :
          LET m == Messages(t)[i]
          IN  /\ m.ref
              /\ ~m.uri
              /\ k = "load" => m.mediaState # "loading"
              /\ jobs' = jobs \cup {Job(k, t, m)}
    /\ Patch(t, id, "loading")
    /\ Tap
    /\ UNCHANGED <<fileVars, netVars, countVars, used>>

\* saveMedia of what is there.
SaveMedia(t, id) ==
    /\ Cardinality(jobs) < MaxJobs
    /\ \E i \in Find(t, id) :
          LET m == Messages(t)[i]
          IN  /\ m.ref
              /\ m.uri
              /\ jobs' = jobs \cup {Job("write", t, m)}
    /\ Tap
    /\ UNCHANGED <<fileVars, netVars, countVars, convs, saveTimer, used>>

\* Where saveMedia goes on after its download, if the preview is there.
GoesOn(j, there) == IF j.kind = "loadsave" /\ there THEN {[j EXCEPT !.kind = "write"]} ELSE {}

\* The rest of loadMedia.
Loaded(j) ==
    /\ j.kind \in {"load", "loadsave"}
    /\ jobs' = (jobs \ {j}) \cup GoesOn(j, Find(j.thread, j.id) # {})
    /\ Patch(j.thread, j.id, "ready")
    /\ UNCHANGED <<fileVars, netVars, countVars, boundVars, used>>

\* Mutant of LoadFails: the error is swallowed.
LoadFailsQuietly(j) ==
    /\ j.kind \in {"load", "loadsave"}
    /\ jobs' = (jobs \ {j})
          \cup GoesOn(j, \E i \in Find(j.thread, j.id) : Messages(j.thread)[i].uri)
    /\ UNCHANGED <<fileVars, netVars, countVars, boundVars, convs, saveTimer, used>>

\* The catch of loadMedia.
LoadFails(j) ==
    /\ j.kind \in {"load", "loadsave"}
    /\ jobs' = (jobs \ {j})
          \cup GoesOn(j, \E i \in Find(j.thread, j.id) : Messages(j.thread)[i].uri)
    /\ Patch(j.thread, j.id, "error")
    /\ UNCHANGED <<fileVars, netVars, countVars, boundVars, used>>

\* The rest of saveMedia.
Written(j) ==
    /\ j.kind = "write"
    /\ jobs' = jobs \ {j}
    /\ Patch(j.thread, j.id, "saved")
    /\ UNCHANGED <<fileVars, netVars, countVars, boundVars, used>>

WriteFails(j) ==
    /\ j.kind = "write"
    /\ jobs' = jobs \ {j}
    /\ UNCHANGED <<fileVars, netVars, countVars, boundVars, convs, saveTimer, used>>

-----------------------------------------------------------------------------
History == Start \/ Hydrate \/ HydrateFails \/ Save \/ Reset \/ NativeReset \/ Kill

Inbound ==
    \E p \in Peers :
        \/ EnsurePeer(p)
        \/ \E k \in Kinds : Receive(p, k)
        \/ \E g \in Groups : ReceiveGroup(p, g)

Chat(t) ==
    \/ Send(t)
    \/ \E k \in Kinds \ {"text"} : SendMedia(t, k)
    \/ \E online \in BOOLEAN : MarkRead(t, online)
    \/ LoadPendingMedia(t)
    \/ \E id \in 0..MaxMsgs :
          \/ ToggleStar(t, id)
          \/ DismissScamWarning(t, id)
          \/ DownloadMedia(t, id, "load")
          \/ DownloadMedia(t, id, "loadsave")
          \/ SaveMedia(t, id)

Background ==
    \/ \E u \in wire : Ack(u) \/ \E s \in {"delivered", "read"} : StatusUpdate(u, s)
    \/ \E j \in jobs : \/ Uploaded(j) \/ MediaSent(j) \/ SendMediaFails(j)
                       \/ Loaded(j) \/ LoadFails(j)
                       \/ Written(j) \/ WriteFails(j)

Next ==
    \/ History
    \/ Inbound
    \/ \E g \in Groups : CreateGroup(g)
    \/ \E t \in Threads : Chat(t)
    \/ Background

Spec == Init /\ [][Next]_vars

-----------------------------------------------------------------------------
(* Properties.                                                             *)

\* Every variable has its type.
TypeOK ==
    /\ phase \in {"off", "loading", "up"}
    /\ {read, disk} \subseteq Saves \cup {NoBlob}
    /\ convs \in Table
    /\ counter \in Nat
    /\ {saveTimer, behind, wiping, raced} \subseteq BOOLEAN
    /\ jobs \subseteq [kind : {"upload", "send", "load", "loadsave", "write"},
                       thread : Threads, id : Nat, uid : Nat]
    /\ acked \subseteq wire
    /\ wire \subseteq 1..made
    /\ used \subseteq Groups

\* The messages of thread t in cs.
In(cs, t) == IF cs[t] = NoConv THEN {} ELSE {cs[t].messages[i] : i \in DOMAIN cs[t].messages}

Uids(cs, t) == {m.uid : m \in In(cs, t)}

\* Nothing waits for a save that nobody will make: once the history is there, the
\* file is what a save would write, or the timer is armed, unless a save was lost
\* ("retried on the next mutation") or the file could not be read.
SaveDue ==
    phase = "up" /\ ~behind /\ ~saveTimer =>
        IF disk = NoBlob THEN convs = NoConvs ELSE disk = Blob

\* No message is there twice, whatever arrived or was saved before the history
\* was merged.
NoCopies ==
    \A t \in Threads :
        convs[t] # NoConv => Cardinality(Uids(convs, t)) = Len(convs[t].messages)

\* A download that a bubble shows is under way: otherwise the picture would never
\* be fetched again, as loadPendingMedia skips what is loading.
LoadingHasJob ==
    ~raced => \A t \in Threads : \A m \in In(convs, t) :
        m.mediaState = "loading" =>
            \E j \in jobs : j.kind \in {"load", "loadsave"} /\ j.thread = t /\ j.id = m.id

\* A transfer that ends changes the message it was begun for, or none.
PatchesOwn ==
    ~raced => \A j \in jobs : \A i \in Find(j.thread, j.id) :
        Messages(j.thread)[i].uid = j.uid

\* While the process lives no tick falls back (conversations.ts:86), in whatever order
\* acks and statuses arrive and also when the history is merged.
TicksOnlyRise ==
    [][phase' # "off" => \A t \in Threads : \A m \in In(convs, t), n \in In(convs', t) :
          m.uid = n.uid => Rank[n.status] >= Rank[m.status]]_vars

\* What the load has read of thread t and has not merged yet.
Unmerged(t) == IF read = NoBlob THEN {} ELSE Uids(read.convs, t)

\* The load failed: hydrate starts empty.
LoadFailed == behind' /\ UNCHANGED convs

\* While the process lives no message vanishes but by a sign-out: none of those in
\* memory, also when the history is merged (conversations.ts:149 "hydrate merges
\* rather than clobbers"), and none of those that the load has read, which are merged
\* unless the file could not be read or parsed (hydrate).
NoneVanish ==
    [][phase' # "off" /\ ~(wiping' /\ ~wiping) =>
          \A t \in Threads :
              /\ Uids(convs, t) \subseteq Uids(convs', t)
              /\ LoadFailed \/ Unmerged(t) \subseteq Uids(convs', t) \cup Unmerged(t)']_vars

(* What a comment says, and the code does not do.                          *)

\* conversations.ts:450, of a receipt: "not connected - retried next open".  What
\* is marked as receipted has its receipt out.
ReceiptSent ==
    \A t \in Threads : \A m \in In(convs, t) :
        m.readSent => \E r \in receipts : r[2] = m.uid
=============================================================================
