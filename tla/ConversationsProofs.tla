------------------------ MODULE ConversationsProofs ------------------------
(***************************************************************************)
(* Proofs about the conversation store: no message is there twice or       *)
(* vanishes, ticks only rise, transfers end at their own messages and      *)
(* every change has a save to come.  A step edits messages in place, adds  *)
(* one, merges the file or empties the store; the lemmas on sequences say  *)
(* what each of these does to uids, ids and ticks.                         *)
(***************************************************************************)
EXTENDS Conversations, FiniteSetTheorems, SequenceTheorems, TLAPS

\* The messages of a thread in the table cs.
Msgs(cs, t) == IF cs[t] = NoConv THEN <<>> ELSE cs[t].messages

\* The message n is m, edited: the same message, with the same tick or a higher one.
Kept(m, n) ==
    n \in Message /\ n.uid = m.uid /\ n.id = m.id /\ Rank[n.status] >= Rank[m.status]

Edited(ms, ns) ==
    ns \in Seq(Message) /\ Len(ns) = Len(ms) /\ \A i \in 1..Len(ms) : Kept(ms[i], ns[i])

\* Uids of at most top, none twice, and ids below next; unless loose, no id twice.
Numbers(ms, top, next, loose) ==
    /\ \A i \in 1..Len(ms) : ms[i].uid \in 1..top /\ ms[i].id < next
    /\ \A i, k \in 1..Len(ms) :
           ms[i].uid = ms[k].uid \/ (~loose /\ ms[i].id = ms[k].id) => i = k

Numbered(cs, top, next, loose) == \A t \in Threads : Numbers(Msgs(cs, t), top, next, loose)

-----------------------------------------------------------------------------
(* Sequences of messages. *)

LEMMA RankType == \A s \in Ticks : Rank[s] \in Nat
BY DEF Rank, Ticks

LEMMA MessageFields ==
    \A m \in Message : /\ m.uid \in Nat /\ m.id \in Nat /\ m.status \in Ticks
                       /\ Rank[m.status] \in Nat
BY RankType DEF Message

LEMMA KeptSame == \A m \in Message : Kept(m, m)
BY MessageFields DEF Kept

LEMMA EditedSame == \A ms \in Seq(Message) : Edited(ms, ms)
BY KeptSame, ElementOfSeq DEF Edited

\* One message is changed.
LEMMA EditedAt ==
    ASSUME NEW ms \in Seq(Message), NEW i \in 1..Len(ms), NEW n, Kept(ms[i], n)
    PROVE  Edited(ms, [ms EXCEPT ![i] = n])
  <1>1. [ms EXCEPT ![i] = n] \in Seq(Message) /\ Len([ms EXCEPT ![i] = n]) = Len(ms)
    BY ExceptSeq DEF Kept
  <1>2. \A k \in 1..Len(ms) : [ms EXCEPT ![i] = n][k] = IF k = i THEN n ELSE ms[k]
    BY ExceptSeq
  <1>3. \A k \in 1..Len(ms) : ms[k] \in Message
    BY ElementOfSeq
  <1> QED
    BY <1>1, <1>2, <1>3, KeptSame DEF Edited

\* Every message is changed, or kept as it is.
LEMMA EditedAll ==
    ASSUME NEW ms \in Seq(Message), NEW ns, DOMAIN ns = DOMAIN ms, ns = [i \in DOMAIN ms |-> ns[i]],
           \A i \in 1..Len(ms) : Kept(ms[i], ns[i])
    PROVE  Edited(ms, ns)
  <1>1. DOMAIN ms = 1..Len(ms) /\ Len(ms) \in Nat
    BY LenProperties
  <1>2. ns \in Seq(Message) /\ Len(ns) = Len(ms)
    BY <1>1, IsASeq DEF Kept
  <1> QED
    BY <1>2 DEF Edited

LEMMA EditedNumbers ==
    ASSUME NEW ms \in Seq(Message), NEW ns, Edited(ms, ns), NEW top, NEW next, NEW loose,
           Numbers(ms, top, next, loose)
    PROVE  Numbers(ns, top, next, loose)
BY DEF Edited, Numbers, Kept

LEMMA AddedNumbers ==
    ASSUME NEW ms \in Seq(Message), NEW m \in Message, NEW top \in Nat, NEW next \in Nat, NEW loose,
           Numbers(ms, top, next, loose), m.uid = top + 1, m.id = next
    PROVE  Numbers(Append(ms, m), top + 1, next + 1, loose)
  <1>1. /\ Len(Append(ms, m)) = Len(ms) + 1 /\ Append(ms, m)[Len(ms) + 1] = m
        /\ \A i \in 1..Len(ms) : Append(ms, m)[i] = ms[i]
        /\ Len(ms) \in Nat
    BY AppendProperties, LenProperties
  <1>2. \A i \in 1..Len(ms) : ms[i] \in Message /\ ms[i].uid \in Nat /\ ms[i].id \in Nat
    BY ElementOfSeq, MessageFields
  <1> DEFINE ns == Append(ms, m)
  <1> HIDE DEF ns
  <1>3. \A i \in 1..Len(ns) : i \in 1..Len(ms) \/ i = Len(ms) + 1
    BY <1>1 DEF ns
  <1>4. /\ ns[Len(ms) + 1] = m /\ \A i \in 1..Len(ms) : ns[i] = ms[i]
        /\ Len(ms) \in Nat /\ Len(ns) = Len(ms) + 1
    BY <1>1 DEF ns
  <1>5. \A i \in 1..Len(ns) : ns[i].uid \in 1..(top + 1) /\ ns[i].id < next + 1
    BY <1>2, <1>3, <1>4 DEF Numbers
  <1>6. ASSUME NEW i \in 1..Len(ns), NEW k \in 1..Len(ns),
               ns[i].uid = ns[k].uid \/ (~loose /\ ns[i].id = ns[k].id)
        PROVE  i = k
    <2>1. CASE i \in 1..Len(ms) /\ k \in 1..Len(ms)
      BY <1>4, <1>6, <2>1 DEF Numbers
    <2>2. CASE i \in 1..Len(ms) /\ k = Len(ms) + 1
      BY <1>2, <1>4, <1>6, <2>2 DEF Numbers
    <2>3. CASE k \in 1..Len(ms) /\ i = Len(ms) + 1
      BY <1>2, <1>4, <1>6, <2>3 DEF Numbers
    <2> QED
      BY <1>3, <2>1, <2>2, <2>3
  <1> QED
    BY <1>5, <1>6 DEF Numbers, ns

LEMMA ConcatNumbers ==
    ASSUME NEW fs \in Seq(Message), NEW ms \in Seq(Message), NEW top \in Nat,
           NEW a \in Nat, NEW b \in Nat, NEW c \in Nat, a <= c, b <= c, NEW loose,
           Numbers(fs, top, a, loose), Numbers(ms, top, b, loose),
           \A i \in 1..Len(fs), k \in 1..Len(ms) : fs[i].uid # ms[k].uid,
           ~loose => ms = <<>>
    PROVE  Numbers(fs \o ms, top, c, loose)
  <1> DEFINE ns == fs \o ms
  <1>1. /\ Len(fs) \in Nat /\ Len(ms) \in Nat /\ Len(ns) = Len(fs) + Len(ms)
        /\ \A i \in 1..Len(fs) : ns[i] = fs[i]
        /\ \A i \in 1..Len(ns) : i \notin 1..Len(fs) => ns[i] = ms[i - Len(fs)]
    BY ConcatProperties, LenProperties
  <1>2. /\ \A i \in 1..Len(fs) : fs[i] \in Message /\ fs[i].uid \in Nat /\ fs[i].id \in Nat
        /\ \A i \in 1..Len(ms) : ms[i] \in Message /\ ms[i].uid \in Nat /\ ms[i].id \in Nat
    BY ElementOfSeq, MessageFields
  <1>3. ~loose => Len(ms) = 0
    BY EmptySeq
  <1> HIDE DEF ns
  <1>4. \A i \in 1..Len(ns) : i \in 1..Len(fs) \/ (i - Len(fs) \in 1..Len(ms) /\ ns[i] = ms[i - Len(fs)])
    BY <1>1
  <1>5. ASSUME NEW i \in 1..Len(ns)
        PROVE  ns[i].uid \in 1..top /\ ns[i].id < c
    <2>1. CASE i \in 1..Len(fs)
      BY <1>1, <1>2, <2>1 DEF Numbers
    <2>2. CASE i - Len(fs) \in 1..Len(ms) /\ ns[i] = ms[i - Len(fs)]
      BY <1>1, <1>2, <2>2 DEF Numbers
    <2> QED
      BY <1>4, <2>1, <2>2
  <1>6. ASSUME NEW i \in 1..Len(ns), NEW k \in 1..Len(ns),
               ns[i].uid = ns[k].uid \/ (~loose /\ ns[i].id = ns[k].id)
        PROVE  i = k
    <2>1. CASE i \in 1..Len(fs) /\ k \in 1..Len(fs)
      BY <1>1, <1>6, <2>1 DEF Numbers
    <2>2. CASE i \in 1..Len(fs) /\ k - Len(fs) \in 1..Len(ms) /\ ns[k] = ms[k - Len(fs)]
      BY <1>1, <1>3, <1>6, <2>2
    <2>3. CASE k \in 1..Len(fs) /\ i - Len(fs) \in 1..Len(ms) /\ ns[i] = ms[i - Len(fs)]
      BY <1>1, <1>3, <1>6, <2>3
    <2>4. CASE /\ i - Len(fs) \in 1..Len(ms) /\ ns[i] = ms[i - Len(fs)]
               /\ k - Len(fs) \in 1..Len(ms) /\ ns[k] = ms[k - Len(fs)]
      <3>1. i - Len(fs) = k - Len(fs)
        BY <1>3, <1>6, <2>4 DEF Numbers
      <3> QED
        BY <1>1, <3>1
    <2> QED
      BY <1>4, <2>1, <2>2, <2>3, <2>4
  <1> QED
    BY <1>5, <1>6 DEF Numbers, ns

LEMMA MoreNumbers ==
    ASSUME NEW ms \in Seq(Message), NEW top \in Nat, NEW top2 \in Nat, top <= top2,
           NEW next, NEW loose, NEW loose2, loose => loose2, Numbers(ms, top, next, loose)
    PROVE  Numbers(ms, top2, next, loose2)
BY DEF Numbers

-----------------------------------------------------------------------------
(* What the steps do to the table: they edit it, or add one message to it. *)

Edit == convs' \in Table /\ \A t \in Threads : Edited(Msgs(convs, t), Msgs(convs', t))

Grows(t, m) ==
    /\ convs' \in Table
    /\ m \in Message /\ m.uid = made + 1 /\ m.id = counter
    /\ Msgs(convs', t) = Append(Msgs(convs, t), m)
    /\ \A s \in Threads \ {t} : Msgs(convs', s) = Msgs(convs, s)

LEMMA TableTyped ==
    ASSUME NEW cs \in Table, NEW t \in Threads
    PROVE  Msgs(cs, t) \in Seq(Message)
BY EmptySeq DEF Table, Msgs, Conversation

LEMMA EnsureTyped ==
    ASSUME convs \in Table, NEW t \in Threads
    PROVE  /\ Ensure(t) \in Conversation /\ Ensure(t).unread \in Nat /\ Ensure(t).group \in BOOLEAN
           /\ Messages(t) = Msgs(convs, t) /\ Messages(t) \in Seq(Message)
           /\ DOMAIN Messages(t) = 1..Len(Messages(t))
           /\ convs[t] # NoConv => Ensure(t) = convs[t]
  <1>1. Fresh \in Conversation /\ Fresh.messages = <<>>
    BY EmptySeq DEF Fresh, Conversation
  <1>2. Ensure(t) \in Conversation
    BY <1>1 DEF Ensure, Table
  <1>3. Messages(t) = Msgs(convs, t)
    BY <1>1 DEF Messages, Msgs, Ensure
  <1> QED
    BY <1>2, <1>3, LenProperties DEF Conversation, Messages, Ensure

LEMMA PutIs ==
    ASSUME convs \in Table, NEW t \in Threads, NEW ns \in Seq(Message), NEW unread \in Nat,
           NEW group \in BOOLEAN, Put(t, ns, unread, group)
    PROVE  /\ convs' \in Table
           /\ Msgs(convs', t) = ns
           /\ \A s \in Threads \ {t} : Msgs(convs', s) = Msgs(convs, s)
  <1> DEFINE c == [messages |-> ns, unread |-> unread, group |-> group]
  <1>1. c \in Conversation /\ c # NoConv /\ c.messages = ns
    BY NothingAssumption DEF Conversation
  <1>2. convs' = [convs EXCEPT ![t] = c]
    BY DEF Put
  <1> HIDE DEF c
  <1> QED
    BY <1>1, <1>2 DEF Table, Msgs

LEMMA PutEdits ==
    ASSUME convs \in Table, NEW t \in Threads, NEW ns, Edited(Messages(t), ns), NEW unread \in Nat,
           NEW group \in BOOLEAN, Put(t, ns, unread, group)
    PROVE  Edit
  <1>1. ns \in Seq(Message) /\ Messages(t) = Msgs(convs, t)
    BY EnsureTyped DEF Edited
  <1>2. /\ convs' \in Table /\ Msgs(convs', t) = ns
        /\ \A s \in Threads \ {t} : Msgs(convs', s) = Msgs(convs, s)
    BY <1>1, PutIs
  <1>3. \A s \in Threads : Edited(Msgs(convs, s), Msgs(convs, s))
    BY TableTyped, EditedSame
  <1> QED
    BY <1>1, <1>2, <1>3 DEF Edit

LEMMA PutGrows ==
    ASSUME convs \in Table, NEW t \in Threads, NEW m \in Message, m.uid = made + 1, m.id = counter,
           NEW unread \in Nat, NEW group \in BOOLEAN, Put(t, Append(Messages(t), m), unread, group)
    PROVE  Grows(t, m)
  <1>1. Messages(t) = Msgs(convs, t) /\ Messages(t) \in Seq(Message)
    BY EnsureTyped
  <1>2. Append(Messages(t), m) \in Seq(Message)
    BY <1>1, AppendProperties
  <1> QED
    BY <1>1, <1>2, PutIs DEF Grows

LEMMA SameEdits ==
    ASSUME convs \in Table, convs' = convs
    PROVE  Edit
BY TableTyped, EditedSame DEF Edit

\* What Make makes.
LEMMA MakeTyped ==
    ASSUME made \in Nat, counter \in Nat, NEW mine \in BOOLEAN, NEW k \in Kinds,
           NEW s \in Peers \cup {NoSender}
    PROVE  /\ Make(mine, k, s) \in Message /\ Make(mine, k, s).uid = made + 1
           /\ Make(mine, k, s).id = counter /\ Make(mine, k, s).mediaState = "none"
BY DEF Make, Message, Ticks

\* The changes of a message leave its identity and its tick alone.
LEMMA EditsKeep ==
    ASSUME NEW m \in Message
    PROVE  /\ Kept(m, WithRef(m)) /\ Kept(m, InError(m)) /\ Kept(m, Loading(m))
           /\ Kept(m, Ready(m)) /\ Kept(m, OnDisk(m)) /\ Kept(m, Bare(m))
           /\ \A b \in BOOLEAN : Kept(m, [m EXCEPT !.readSent = b])
           /\ \A ks \in SUBSET {"starred", "dismissed"} : Kept(m, [m EXCEPT !.marks = ks])
           /\ \A s \in Ticks : Rank[s] > Rank[m.status] => Kept(m, [m EXCEPT !.status = s])
  <1>0. Rank[m.status] \in Nat /\ \A s \in Ticks : Rank[s] \in Nat
    BY MessageFields, RankType
  <1>1. \A n \in Message : n.uid = m.uid /\ n.id = m.id /\ n.status = m.status => Kept(m, n)
    BY <1>0 DEF Kept
  <1>2. WithRef(m) \in Message /\ WithRef(m).uid = m.uid /\ WithRef(m).id = m.id
        /\ WithRef(m).status = m.status
    BY DEF WithRef, Message
  <1>3. InError(m) \in Message /\ InError(m).uid = m.uid /\ InError(m).id = m.id
        /\ InError(m).status = m.status
    BY DEF InError, Message
  <1>4. Loading(m) \in Message /\ Loading(m).uid = m.uid /\ Loading(m).id = m.id
        /\ Loading(m).status = m.status
    BY DEF Loading, Message
  <1>5. Ready(m) \in Message /\ Ready(m).uid = m.uid /\ Ready(m).id = m.id
        /\ Ready(m).status = m.status
    BY Zenon DEF Ready, Message
  <1>6. OnDisk(m) \in Message /\ OnDisk(m).uid = m.uid /\ OnDisk(m).id = m.id
        /\ OnDisk(m).status = m.status
    BY DEF OnDisk, Message
  <1>7. Bare(m) \in Message /\ Bare(m).uid = m.uid /\ Bare(m).id = m.id
        /\ Bare(m).status = m.status
    BY Zenon DEF Bare, Message
  <1>8. ASSUME NEW b \in BOOLEAN
        PROVE  LET n == [m EXCEPT !.readSent = b]
               IN  n \in Message /\ n.uid = m.uid /\ n.id = m.id /\ n.status = m.status
    BY DEF Message
  <1>9. ASSUME NEW ks \in SUBSET {"starred", "dismissed"}
        PROVE  LET n == [m EXCEPT !.marks = ks]
               IN  n \in Message /\ n.uid = m.uid /\ n.id = m.id /\ n.status = m.status
    BY DEF Message
  <1>10. ASSUME NEW s \in Ticks, Rank[s] > Rank[m.status]
         PROVE  Kept(m, [m EXCEPT !.status = s])
    <2>1. LET n == [m EXCEPT !.status = s]
          IN  n \in Message /\ n.uid = m.uid /\ n.id = m.id /\ n.status = s
      BY DEF Message
    <2> QED
      BY <1>0, <1>10, <2>1 DEF Kept
  <1> QED
    BY <1>1, <1>2, <1>3, <1>4, <1>5, <1>6, <1>7, <1>8, <1>9, <1>10

LEMMA FindIn ==
    ASSUME convs \in Table, NEW t \in Threads, NEW id, NEW i \in Find(t, id)
    PROVE  /\ i \in 1..Len(Messages(t)) /\ Messages(t)[i] \in Message /\ Messages(t)[i].id = id
           /\ \A k \in 1..Len(Messages(t)) : Messages(t)[k].id = id => i <= k
BY EnsureTyped, ElementOfSeq DEF Find

\* The message i of thread t becomes n.
LEMMA OneEdits ==
    ASSUME convs \in Table, NEW t \in Threads, NEW i \in 1..Len(Messages(t)), NEW n,
           Kept(Messages(t)[i], n), PutMessages(t, [Messages(t) EXCEPT ![i] = n])
    PROVE  Edit
  <1>1. Edited(Messages(t), [Messages(t) EXCEPT ![i] = n])
    BY EnsureTyped, EditedAt
  <1> QED
    BY <1>1, EnsureTyped, PutEdits DEF PutMessages

LEMMA PatchEdits ==
    ASSUME convs \in Table, NEW t \in Threads, NEW id,
           \/ Patch(t, id, "media") \/ Patch(t, id, "error") \/ Patch(t, id, "loading")
           \/ Patch(t, id, "ready") \/ Patch(t, id, "saved")
    PROVE  Edit
  <1>1. CASE UNCHANGED convs
    BY <1>1, SameEdits
  <1>2. ASSUME NEW i \in Find(t, id), NEW n, PutMessages(t, [Messages(t) EXCEPT ![i] = n]),
               n \in {WithRef(Messages(t)[i]), InError(Messages(t)[i]), Loading(Messages(t)[i]),
                      Ready(Messages(t)[i]), OnDisk(Messages(t)[i])}
        PROVE  Edit
    <2>1. i \in 1..Len(Messages(t)) /\ Messages(t)[i] \in Message
      BY FindIn
    <2>2. Kept(Messages(t)[i], n)
      BY <1>2, <2>1, EditsKeep
    <2> QED
      BY <1>2, <2>1, <2>2, OneEdits
  <1> QED
    BY <1>1, <1>2 DEF Patch, Changed

LEMMA StatusEdits ==
    ASSUME convs \in Table, NEW u, NEW s \in Ticks, ApplyStatus(u, s)
    PROVE  Edit
  <1>1. CASE UNCHANGED convs
    BY <1>1, SameEdits
  <1>2. ASSUME NEW t \in Threads, NEW i \in Raises(t, u, s), SetStatus(t, i, s)
        PROVE  Edit
    <2>1. i \in 1..Len(Messages(t)) /\ Messages(t)[i] \in Message
          /\ Rank[s] > Rank[Messages(t)[i].status]
      BY EnsureTyped, ElementOfSeq DEF Raises
    <2>2. Kept(Messages(t)[i], [Messages(t)[i] EXCEPT !.status = s])
      BY <2>1, EditsKeep
    <2> QED
      BY <1>2, <2>1, <2>2, OneEdits DEF SetStatus
  <1> QED
    BY <1>1, <1>2 DEF ApplyStatus

\* All messages of thread t are changed, or kept as they are.
LEMMA AllEdits ==
    ASSUME convs \in Table, NEW t \in Threads, NEW ns, NEW unread \in Nat,
           DOMAIN ns = DOMAIN Messages(t), ns = [i \in DOMAIN Messages(t) |-> ns[i]],
           \A i \in 1..Len(Messages(t)) : Kept(Messages(t)[i], ns[i]),
           Put(t, ns, unread, Ensure(t).group)
    PROVE  Edit
  <1>1. Edited(Messages(t), ns)
    BY EnsureTyped, EditedAll
  <1> QED
    BY <1>1, EnsureTyped, PutEdits

LEMMA MarkEdits ==
    ASSUME convs \in Table, NEW t \in Threads,
           \/ \E online \in BOOLEAN : MarkRead(t, online)
           \/ \E id \in 0..MaxMsgs : ToggleStar(t, id) \/ DismissScamWarning(t, id)
           \/ LoadPendingMedia(t)
    PROVE  Edit
  <1> DEFINE ms == Messages(t)
  <1>0. /\ DOMAIN ms = 1..Len(ms) /\ Ensure(t).unread \in Nat
        /\ \A i \in 1..Len(ms) : ms[i] \in Message
    BY EnsureTyped, ElementOfSeq
  <1>1. ASSUME NEW online \in BOOLEAN, MarkRead(t, online)
        PROVE  Edit
    <2> DEFINE todo == {i \in DOMAIN ms : Unreceipted(ms[i])}
               ns == [i \in DOMAIN ms |-> [ms[i] EXCEPT !.readSent = (ms[i].readSent \/ i \in todo)]]
    <2>1. Put(t, ns, 0, Ensure(t).group)
      BY <1>1 DEF MarkRead
    <2>2. ASSUME NEW i \in 1..Len(ms) PROVE Kept(ms[i], ns[i])
      BY <1>0, EditsKeep
    <2> HIDE DEF ns
    <2>3. DOMAIN ns = DOMAIN ms /\ ns = [i \in DOMAIN ms |-> ns[i]]
      BY DEF ns
    <2> QED
      BY <2>1, <2>2, <2>3, AllEdits
  <1>2. ASSUME NEW id, ToggleStar(t, id)
        PROVE  Edit
    <2> DEFINE flip(m) == [m EXCEPT !.marks = IF "starred" \in m.marks THEN m.marks \ {"starred"}
                                              ELSE m.marks \cup {"starred"}]
               ns == [i \in DOMAIN ms |-> IF ms[i].id = id THEN flip(ms[i]) ELSE ms[i]]
    <2>1. Put(t, ns, Ensure(t).unread, Ensure(t).group)
      BY <1>2 DEF ToggleStar, PutMessages
    <2>2. ASSUME NEW m \in Message PROVE Kept(m, flip(m))
      <3>1. m.marks \in SUBSET {"starred", "dismissed"}
        BY DEF Message
      <3> QED
        BY <3>1, EditsKeep
    <2> HIDE DEF flip
    <2>3. ASSUME NEW i \in 1..Len(ms) PROVE Kept(ms[i], ns[i])
      BY <1>0, <2>2, KeptSame
    <2> HIDE DEF ns
    <2>4. DOMAIN ns = DOMAIN ms /\ ns = [i \in DOMAIN ms |-> ns[i]]
      BY DEF ns
    <2> QED
      BY <1>0, <2>1, <2>3, <2>4, AllEdits
  <1>3. ASSUME NEW id, DismissScamWarning(t, id)
        PROVE  Edit
    <2> DEFINE mark(m) == [m EXCEPT !.marks = m.marks \cup {"dismissed"}]
               ns == [i \in DOMAIN ms |-> IF ms[i].id = id THEN mark(ms[i]) ELSE ms[i]]
    <2>1. Put(t, ns, Ensure(t).unread, Ensure(t).group)
      BY <1>3 DEF DismissScamWarning, PutMessages
    <2>2. ASSUME NEW m \in Message PROVE Kept(m, mark(m))
      <3>1. m.marks \in SUBSET {"starred", "dismissed"}
        BY DEF Message
      <3> QED
        BY <3>1, EditsKeep
    <2> HIDE DEF mark
    <2>3. ASSUME NEW i \in 1..Len(ms) PROVE Kept(ms[i], ns[i])
      BY <1>0, <2>2, KeptSame
    <2> HIDE DEF ns
    <2>4. DOMAIN ns = DOMAIN ms /\ ns = [i \in DOMAIN ms |-> ns[i]]
      BY DEF ns
    <2> QED
      BY <1>0, <2>1, <2>3, <2>4, AllEdits
  <1>4. ASSUME LoadPendingMedia(t)
        PROVE  Edit
    <2>1. PICK hit : PutMessages(t, [i \in DOMAIN ms |-> IF i \in hit THEN Loading(ms[i]) ELSE ms[i]])
      BY <1>4 DEF LoadPendingMedia
    <2> DEFINE ns == [i \in DOMAIN ms |-> IF i \in hit THEN Loading(ms[i]) ELSE ms[i]]
    <2>2. Put(t, ns, Ensure(t).unread, Ensure(t).group)
      BY <2>1 DEF PutMessages
    <2>3. ASSUME NEW i \in 1..Len(ms) PROVE Kept(ms[i], ns[i])
      BY <1>0, EditsKeep, KeptSame
    <2> HIDE DEF ns
    <2>4. DOMAIN ns = DOMAIN ms /\ ns = [i \in DOMAIN ms |-> ns[i]]
      BY DEF ns
    <2> QED
      BY <1>0, <2>2, <2>3, <2>4, AllEdits
  <1> QED
    BY <1>1, <1>2, <1>3, <1>4

-----------------------------------------------------------------------------
(* The invariant. *)

\* A file, with what its messages and its counter are.
FileOK(b) == b # NoBlob => Numbered(b.convs, made, b.counter, raced)

\* A process that is off has nothing.
OffIsEmpty == phase = "off" => jobs = {} /\ wire = {} /\ convs = NoConvs

\* Until the history is there, its messages are others than those in memory; unless
\* ids may clash, there are none in memory.
HistoryApart ==
    read # NoBlob =>
        /\ phase = "loading"
        /\ \A t \in Threads : \A i \in 1..Len(Msgs(read.convs, t)), k \in 1..Len(Msgs(convs, t)) :
               Msgs(read.convs, t)[i].uid # Msgs(convs, t)[k].uid
        /\ ~raced => jobs = {} /\ \A t \in Threads : Msgs(convs, t) = <<>>

\* What is in its thread under a job's id is the job's message.
Owns(j) ==
    /\ j.id < counter
    /\ \A i \in 1..Len(Msgs(convs, j.thread)) :
           Msgs(convs, j.thread)[i].id = j.id => Msgs(convs, j.thread)[i].uid = j.uid

ConvInv ==
    /\ TypeOK /\ made \in Nat
    /\ \A j \in jobs : j.uid \in 1..made
    /\ Numbered(convs, made, counter, raced) /\ FileOK(read) /\ FileOK(disk)
    /\ OffIsEmpty
    /\ HistoryApart
    /\ ~raced => \A j \in jobs : Owns(j)

JobType == [kind : {"upload", "send", "load", "loadsave", "write"}, thread : Threads, id : Nat, uid : Nat]

\* A job that goes on, or one for a message that is there.
GoesOnFrom(j) == \E i \in jobs : i.thread = j.thread /\ i.id = j.id /\ i.uid = j.uid
Begun(j) ==
    \E i \in 1..Len(Msgs(convs', j.thread)) :
        Msgs(convs', j.thread)[i].id = j.id /\ Msgs(convs', j.thread)[i].uid = j.uid
JobsFrom == \A j \in jobs' : j \in JobType /\ (GoesOnFrom(j) \/ Begun(j))

\* A step that edits messages, and one that adds one.
EditStep ==
    /\ Edit /\ phase # "off" /\ JobsFrom
    /\ UNCHANGED <<phase, read, disk, counter, made, raced>>
    /\ {saveTimer', behind', wiping'} \subseteq BOOLEAN
    /\ wire' \subseteq wire \cup {j.uid : j \in jobs} /\ acked' \subseteq wire' /\ used' \subseteq Groups

GrowStep(t, m) ==
    /\ Grows(t, m) /\ phase # "off" /\ JobsFrom /\ Made
    /\ jobs \subseteq jobs' /\ (m.mediaState = "loading" => Job("load", t, m) \in jobs')
    /\ UNCHANGED <<phase, read, disk>>
    /\ {saveTimer', behind', wiping'} \subseteq BOOLEAN
    /\ wire' \subseteq wire \cup {m.uid} /\ acked' \subseteq wire' /\ used' \subseteq Groups

LEMMA SavesTyped ==
    ASSUME NEW b \in Saves
    PROVE  b # NoBlob /\ b.convs \in Table /\ b.counter \in Nat
BY NothingAssumption DEF Saves

LEMMA EditedLen ==
    ASSUME NEW ms \in Seq(Message), NEW ns, Edited(ms, ns)
    PROVE  /\ Len(ns) = Len(ms) /\ (ms = <<>> => ns = <<>>)
           /\ \A i \in 1..Len(ms) : ns[i].uid = ms[i].uid /\ ns[i].id = ms[i].id
BY EmptySeq, SeqEqual DEF Edited, Kept

LEMMA EditKeeps ==
    ASSUME ConvInv, EditStep
    PROVE  ConvInv'
  <1>0. convs \in Table /\ convs' \in Table /\ made \in Nat /\ counter \in Nat /\ raced \in BOOLEAN
    BY DEF ConvInv, TypeOK, EditStep, Edit
  <1>1. \A t \in Threads : /\ Msgs(convs, t) \in Seq(Message)
                           /\ Edited(Msgs(convs, t), Msgs(convs', t))
    BY <1>0, TableTyped DEF EditStep, Edit
  <1>2. \A t \in Threads :
            /\ Len(Msgs(convs', t)) = Len(Msgs(convs, t))
            /\ Msgs(convs, t) = <<>> => Msgs(convs', t) = <<>>
            /\ \A i \in 1..Len(Msgs(convs, t)) : /\ Msgs(convs', t)[i].uid = Msgs(convs, t)[i].uid
                                                 /\ Msgs(convs', t)[i].id = Msgs(convs, t)[i].id
    BY <1>1, EditedLen
  <1>3. Numbered(convs', made, counter, raced)
    BY <1>1, EditedNumbers DEF ConvInv, Numbered
  <1>4. \A j \in jobs' : j \in JobType /\ j.thread \in Threads
    BY DEF EditStep, JobsFrom, JobType
  <1>5. \A j \in jobs' : j.uid \in 1..made
    BY <1>3, <1>4 DEF EditStep, JobsFrom, GoesOnFrom, Begun, ConvInv, Numbered, Numbers
  <1>6. TypeOK'
    <2>1. jobs' \subseteq JobType /\ wire' \subseteq 1..made'
      BY <1>4 DEF EditStep, ConvInv, TypeOK
    <2> QED
      BY <1>0, <2>1 DEF EditStep, ConvInv, TypeOK, JobType
  <1>7. HistoryApart'
    <2> SUFFICES ASSUME read # NoBlob
                 PROVE  HistoryApart'
      BY DEF EditStep, HistoryApart
    <2>1. ~raced => jobs' = {}
      BY <1>2, <1>4 DEF EditStep, JobsFrom, GoesOnFrom, Begun, ConvInv, HistoryApart
    <2> QED
      BY <1>2, <2>1 DEF EditStep, ConvInv, HistoryApart
  <1>8. ASSUME ~raced, NEW j \in jobs'
        PROVE  Owns(j)'
    <2>1. CASE GoesOnFrom(j)
      BY <1>2, <1>4, <1>8, <2>1 DEF GoesOnFrom, Owns, ConvInv, EditStep
    <2>2. CASE Begun(j)
      BY <1>3, <1>4, <1>8, <2>2 DEF Begun, Owns, EditStep, Numbered, Numbers
    <2> QED
      BY <2>1, <2>2 DEF EditStep, JobsFrom
  <1> QED
    BY <1>0, <1>3, <1>5, <1>6, <1>7, <1>8 DEF ConvInv, EditStep, FileOK, OffIsEmpty

LEMMA FileGrows ==
    ASSUME ConvInv, NEW b \in {read, disk}, made' \in Nat, made <= made', raced => raced'
    PROVE  b # NoBlob => Numbered(b.convs, made', b.counter, raced')
  <1> SUFFICES ASSUME b # NoBlob, NEW t \in Threads
               PROVE  Numbers(Msgs(b.convs, t), made', b.counter, raced')
    BY DEF Numbered
  <1>1. b \in Saves /\ Numbers(Msgs(b.convs, t), made, b.counter, raced) /\ made \in Nat
    BY DEF ConvInv, TypeOK, FileOK, Numbered
  <1>2. Msgs(b.convs, t) \in Seq(Message)
    BY <1>1, SavesTyped, TableTyped
  <1> QED
    BY <1>1, <1>2, MoreNumbers

LEMMA GrowKeeps ==
    ASSUME ConvInv, NEW t \in Threads, NEW m, GrowStep(t, m)
    PROVE  ConvInv'
  <1>0. /\ convs \in Table /\ convs' \in Table /\ made \in Nat /\ counter \in Nat /\ raced \in BOOLEAN
        /\ made' = made + 1 /\ counter' = counter + 1 /\ m \in Message
        /\ m.uid = made + 1 /\ m.id = counter
    BY DEF ConvInv, TypeOK, GrowStep, Grows, Made
  <1>1. raced' \in BOOLEAN /\ (raced => raced') /\ (phase = "loading" /\ read # NoBlob => raced')
    BY <1>0 DEF GrowStep, Made
  <1> DEFINE ms == Msgs(convs, t)
             ns == Msgs(convs', t)
  <1>2. /\ ms \in Seq(Message) /\ ns = Append(ms, m)
        /\ \A s \in Threads \ {t} : Msgs(convs', s) = Msgs(convs, s)
        /\ \A s \in Threads : Msgs(convs, s) \in Seq(Message)
    BY <1>0, TableTyped DEF GrowStep, Grows
  <1>3. /\ Len(ms) \in Nat /\ Len(ns) = Len(ms) + 1 /\ ns[Len(ms) + 1] = m
        /\ \A i \in 1..Len(ms) : ns[i] = ms[i]
    BY <1>2, AppendProperties, LenProperties
  <1>4. Numbered(convs', made', counter', raced')
    <2> SUFFICES ASSUME NEW s \in Threads
                 PROVE  Numbers(Msgs(convs', s), made', counter', raced')
      BY DEF Numbered
    <2>1. Numbers(Msgs(convs, s), made, counter, raced)
      BY DEF ConvInv, Numbered
    <2>2. CASE s = t
      <3>1. Numbers(ns, made + 1, counter + 1, raced)
        BY <1>0, <1>2, <2>1, <2>2, AddedNumbers
      <3> QED
        BY <1>0, <1>1, <2>2, <3>1 DEF Numbers
    <2>3. CASE s # t
      <3>1. \A i \in 1..Len(Msgs(convs, s)) : Msgs(convs, s)[i].id \in Nat
        BY <1>2, ElementOfSeq, MessageFields
      <3>2. Numbers(Msgs(convs, s), made + 1, counter + 1, raced')
        BY <1>0, <1>1, <2>1, <3>1 DEF Numbers
      <3> QED
        BY <1>0, <1>2, <2>3, <3>2
    <2> QED
      BY <2>2, <2>3
  <1>5. \A j \in jobs' : j \in JobType /\ j.thread \in Threads
    BY DEF GrowStep, JobsFrom, JobType
  <1>6. \A j \in jobs' : j.uid \in 1..made'
    <2> SUFFICES ASSUME NEW j \in jobs' PROVE j.uid \in 1..made'
      OBVIOUS
    <2>1. CASE GoesOnFrom(j)
      BY <1>0, <2>1 DEF GoesOnFrom, ConvInv
    <2>2. CASE Begun(j)
      BY <1>4, <1>5, <2>2 DEF Begun, Numbered, Numbers
    <2> QED
      BY <2>1, <2>2 DEF GrowStep, JobsFrom
  <1>7. TypeOK'
    <2>1. jobs' \subseteq JobType /\ wire' \subseteq 1..made'
      BY <1>0, <1>5 DEF GrowStep, ConvInv, TypeOK
    <2> QED
      BY <1>0, <1>1, <2>1 DEF GrowStep, ConvInv, TypeOK, JobType
  <1>8. HistoryApart'
    <2> SUFFICES ASSUME read # NoBlob
                 PROVE  HistoryApart'
      BY DEF GrowStep, HistoryApart
    <2>1. raced' /\ phase' = "loading"
      BY <1>1 DEF GrowStep, ConvInv, HistoryApart
    <2>2. ASSUME NEW s \in Threads, NEW i \in 1..Len(Msgs(read.convs, s)),
                 NEW k \in 1..Len(Msgs(convs', s))
          PROVE  Msgs(read.convs, s)[i].uid # Msgs(convs', s)[k].uid
      <3>1. Msgs(read.convs, s)[i].uid \in 1..made
        BY DEF ConvInv, FileOK, Numbered, Numbers
      <3>2. CASE s = t /\ k = Len(ms) + 1
        BY <1>0, <1>3, <3>1, <3>2
      <3>3. CASE s # t \/ k \in 1..Len(ms)
        BY <1>2, <1>3, <3>3 DEF ConvInv, HistoryApart
      <3> QED
        BY <1>3, <3>2, <3>3
    <2> QED
      BY <2>1, <2>2 DEF GrowStep, HistoryApart
  <1>9. ASSUME ~raced', NEW j \in jobs'
        PROVE  Owns(j)'
    <2>1. CASE GoesOnFrom(j)
      <3>1. j.id < counter /\ j.id \in Nat
            /\ \A i \in 1..Len(Msgs(convs, j.thread)) :
                   Msgs(convs, j.thread)[i].id = j.id => Msgs(convs, j.thread)[i].uid = j.uid
        BY <1>1, <1>5, <1>9, <2>1 DEF GoesOnFrom, Owns, ConvInv, JobType
      <3>2. CASE j.thread = t
        BY <1>0, <1>3, <3>1, <3>2 DEF Owns
      <3>3. CASE j.thread # t
        BY <1>0, <1>2, <1>5, <3>1, <3>3 DEF Owns
      <3> QED
        BY <3>2, <3>3
    <2>2. CASE Begun(j)
      BY <1>4, <1>5, <1>9, <2>2 DEF Begun, Owns, Numbered, Numbers
    <2> QED
      BY <2>1, <2>2 DEF GrowStep, JobsFrom
  <1>10. FileOK(read)' /\ FileOK(disk)'
    BY <1>0, <1>1, FileGrows DEF FileOK, GrowStep
  <1> QED
    BY <1>0, <1>4, <1>6, <1>7, <1>8, <1>9, <1>10 DEF ConvInv, GrowStep, OffIsEmpty

-----------------------------------------------------------------------------
(* The history: load, save, sign-out, death. *)

LEMMA NoConvsEmpty ==
    /\ NoConvs \in Table /\ \A t \in Threads : Msgs(NoConvs, t) = <<>>
    /\ \A top, next, loose : Numbered(NoConvs, top, next, loose)
  <1>1. NoConvs \in Table /\ \A t \in Threads : Msgs(NoConvs, t) = <<>>
    BY DEF NoConvs, Table, Msgs
  <1>2. Len(<<>>) = 0
    BY EmptySeq
  <1> QED
    BY <1>1, <1>2 DEF Numbered, Numbers

\* What a save writes has the messages of the store, but their previews.
LEMMA BlobTyped ==
    ASSUME convs \in Table, counter \in Nat
    PROVE  /\ Blob \in Saves
           /\ \A t \in Threads : /\ Edited(Msgs(convs, t), Msgs(Blob.convs, t))
                                 /\ \A i \in 1..Len(Msgs(convs, t)) :
                                        Msgs(Blob.convs, t)[i] = Bare(Msgs(convs, t)[i])
  <1>1. ASSUME NEW t \in Threads, convs[t] # NoConv
        PROVE  /\ Persisted(convs[t]) \in Conversation
               /\ Edited(convs[t].messages, Persisted(convs[t]).messages)
               /\ \A i \in 1..Len(convs[t].messages) :
                      Persisted(convs[t]).messages[i] = Bare(convs[t].messages[i])
    <2> DEFINE ms == convs[t].messages
               ns == [i \in DOMAIN ms |-> Bare(ms[i])]
    <2>1. convs[t] \in Conversation
      BY <1>1 DEF Table
    <2>2. ms \in Seq(Message) /\ convs[t].unread \in Nat /\ convs[t].group \in BOOLEAN
      BY <2>1 DEF Conversation
    <2>3. DOMAIN ms = 1..Len(ms) /\ \A i \in 1..Len(ms) : Kept(ms[i], ns[i])
      BY <2>2, LenProperties, ElementOfSeq, EditsKeep
    <2>4. DOMAIN ns = DOMAIN ms /\ ns = [i \in DOMAIN ms |-> ns[i]]
          /\ \A i \in 1..Len(ms) : ns[i] = Bare(ms[i])
      BY <2>3
    <2>5. Persisted(convs[t]) = [messages |-> ns, unread |-> convs[t].unread, group |-> convs[t].group]
      BY <1>1 DEF Persisted
    <2> HIDE DEF ns, ms
    <2>6. Edited(ms, ns)
      BY <2>2, <2>3, <2>4, EditedAll
    <2>7. ns \in Seq(Message)
      BY <2>6 DEF Edited
    <2>8. Persisted(convs[t]) \in Conversation /\ Persisted(convs[t]).messages = ns
      BY <2>2, <2>5, <2>7 DEF Conversation
    <2> QED
      BY <2>4, <2>6, <2>8 DEF ms
  <1>2. Blob.convs = [t \in Threads |-> Persisted(convs[t])] /\ Blob.counter = counter
    BY DEF Blob
  <1>3. Blob.convs \in Table
    BY <1>1, <1>2 DEF Table, Persisted
  <1>4. Blob \in Saves
    BY <1>2, <1>3 DEF Saves, Blob
  <1>5. ASSUME NEW t \in Threads, convs[t] # NoConv
        PROVE  Msgs(convs, t) = convs[t].messages /\ Msgs(Blob.convs, t) = Persisted(convs[t]).messages
    BY <1>1, <1>2, <1>5, NothingAssumption DEF Msgs
  <1>6. ASSUME NEW t \in Threads, convs[t] = NoConv
        PROVE  Msgs(convs, t) = <<>> /\ Msgs(Blob.convs, t) = <<>>
    BY <1>2, <1>6 DEF Msgs, Persisted
  <1>7. Edited(<<>>, <<>>) /\ Len(<<>>) = 0
    BY EmptySeq, EditedSame
  <1> QED
    BY <1>1, <1>4, <1>5, <1>6, <1>7

LEMMA BlobNumbered ==
    ASSUME ConvInv
    PROVE  /\ Blob \in Saves /\ Blob # NoBlob
           /\ Numbered(Blob.convs, made, Blob.counter, raced)
  <1>1. convs \in Table /\ counter \in Nat /\ Blob.counter = counter
    BY DEF ConvInv, TypeOK, Blob
  <1>2. Blob \in Saves /\ \A t \in Threads : Edited(Msgs(convs, t), Msgs(Blob.convs, t))
    BY <1>1, BlobTyped
  <1>3. \A t \in Threads : Msgs(convs, t) \in Seq(Message)
    BY <1>1, TableTyped
  <1>4. ASSUME NEW t \in Threads
        PROVE  Numbers(Msgs(Blob.convs, t), made, counter, raced)
    BY <1>2, <1>3, EditedNumbers DEF ConvInv, Numbered
  <1> QED
    BY <1>1, <1>2, <1>4, SavesTyped DEF Numbered

LEMMA MaxOfTwo ==
    ASSUME NEW a \in Nat, NEW b \in Nat
    PROVE  Max({a, b}) \in Nat /\ a <= Max({a, b}) /\ b <= Max({a, b})
  <1>1. \E x \in {a, b} : \A y \in {a, b} : x >= y
    BY DEF Max
  <1> QED
    BY <1>1 DEF Max

\* hydrate: in every thread the file's messages, then those in memory.
LEMMA HydrateMerges ==
    ASSUME convs \in Table, NEW file \in Table,
           convs' = [t \in Threads |-> Merge(convs[t], file[t])]
    PROVE  /\ convs' \in Table
           /\ \A t \in Threads : Msgs(convs', t) = Msgs(file, t) \o Msgs(convs, t)
  <1> SUFFICES ASSUME NEW t \in Threads
               PROVE  /\ Merge(convs[t], file[t]) \in Conversation \cup {NoConv}
                      /\ Msgs(convs', t) = Msgs(file, t) \o Msgs(convs, t)
    BY DEF Table
  <1>0. /\ convs'[t] = Merge(convs[t], file[t])
        /\ convs[t] \in Conversation \cup {NoConv} /\ file[t] \in Conversation \cup {NoConv}
        /\ Msgs(convs, t) \in Seq(Message) /\ Msgs(file, t) \in Seq(Message)
    BY TableTyped DEF Table
  <1>1. CASE file[t] = NoConv
    BY <1>0, <1>1, ConcatEmptySeq DEF Merge, Msgs
  <1>2. CASE file[t] # NoConv /\ convs[t] = NoConv
    <2> DEFINE c == [messages |-> file[t].messages, unread |-> file[t].unread, group |-> FALSE]
    <2>1. convs'[t] = c /\ Merge(convs[t], file[t]) = c
      BY <1>0, <1>2 DEF Merge
    <2>2. c \in Conversation /\ c.messages = file[t].messages
      BY <1>0, <1>2 DEF Conversation
    <2> HIDE DEF c
    <2>3. Msgs(convs', t) = file[t].messages /\ Msgs(file, t) = file[t].messages /\ Msgs(convs, t) = <<>>
      BY <1>2, <2>1, <2>2, NothingAssumption DEF Msgs
    <2> QED
      BY <1>0, <2>1, <2>2, <2>3, ConcatEmptySeq
  <1>3. CASE file[t] # NoConv /\ convs[t] # NoConv
    <2> DEFINE c == [messages |-> file[t].messages \o convs[t].messages,
                     unread |-> convs[t].unread + file[t].unread, group |-> convs[t].group]
    <2>1. convs'[t] = c /\ Merge(convs[t], file[t]) = c
      BY <1>0, <1>3 DEF Merge
    <2>2. /\ file[t].messages \in Seq(Message) /\ convs[t].messages \in Seq(Message)
          /\ convs[t].unread + file[t].unread \in Nat /\ convs[t].group \in BOOLEAN
      BY <1>0, <1>3 DEF Conversation
    <2>3. file[t].messages \o convs[t].messages \in Seq(Message)
      BY <2>2, ConcatProperties
    <2>4. c \in Conversation /\ c.messages = file[t].messages \o convs[t].messages
      BY <2>2, <2>3 DEF Conversation
    <2> HIDE DEF c
    <2>5. Msgs(convs', t) = file[t].messages \o convs[t].messages
          /\ Msgs(file, t) = file[t].messages /\ Msgs(convs, t) = convs[t].messages
      BY <1>3, <2>1, <2>4, NothingAssumption DEF Msgs
    <2> QED
      BY <2>1, <2>4, <2>5
  <1> QED
    BY <1>1, <1>2, <1>3

LEMMA WriteKeeps ==
    ASSUME ConvInv, NEW b \in Saves, Numbered(b.convs, made, b.counter, raced), Write(b),
           made' = made, raced => raced'
    PROVE  disk' \in Saves \cup {NoBlob} /\ behind' \in BOOLEAN /\ FileOK(disk)'
  <1>0. made \in Nat /\ {disk} \subseteq Saves \cup {NoBlob}
    BY DEF ConvInv, TypeOK
  <1>1. disk' \in {b, disk} /\ behind' \in BOOLEAN
    BY DEF Write
  <1>2. ASSUME NEW t \in Threads
        PROVE  Numbers(Msgs(b.convs, t), made, b.counter, raced')
    <2>1. Numbers(Msgs(b.convs, t), made, b.counter, raced) /\ Msgs(b.convs, t) \in Seq(Message)
      BY SavesTyped, TableTyped DEF Numbered
    <2> QED
      BY <1>0, <2>1, MoreNumbers
  <1>3. disk # NoBlob => Numbered(disk.convs, made, disk.counter, raced')
    BY <1>0, FileGrows
  <1> QED
    BY <1>0, <1>1, <1>2, <1>3 DEF FileOK, Numbered

LEMMA HydrateStep ==
    ASSUME ConvInv, Hydrate, read # NoBlob
    PROVE  ConvInv' /\ \A t \in Threads : Msgs(convs', t) = Msgs(read.convs, t) \o Msgs(convs, t)
  <1>0. /\ read \in Saves /\ convs \in Table /\ counter \in Nat /\ made \in Nat
        /\ read.convs \in Table /\ read.counter \in Nat
    BY SavesTyped DEF ConvInv, TypeOK
  <1>1. /\ phase' = "up" /\ read' = NoBlob /\ counter' = Max({counter, read.counter})
        /\ convs' = [t \in Threads |-> Merge(convs[t], read.convs[t])]
        /\ saveTimer' = TRUE
        /\ UNCHANGED <<disk, behind, wiping, wire, acked, jobs, made, used, raced>>
    BY DEF Hydrate, Emit, diskVars, netVars
  <1>2. convs' \in Table /\ \A t \in Threads : Msgs(convs', t) = Msgs(read.convs, t) \o Msgs(convs, t)
    BY <1>0, <1>1, HydrateMerges
  <1>3. counter' \in Nat /\ counter <= counter' /\ read.counter <= counter'
    BY <1>0, <1>1, MaxOfTwo
  <1>4. ASSUME NEW t \in Threads
        PROVE  Numbers(Msgs(convs', t), made, counter', raced)
    <2>1. /\ Msgs(read.convs, t) \in Seq(Message) /\ Msgs(convs, t) \in Seq(Message)
          /\ Numbers(Msgs(read.convs, t), made, read.counter, raced)
          /\ Numbers(Msgs(convs, t), made, counter, raced)
      BY <1>0, TableTyped DEF ConvInv, Numbered, FileOK
    <2>2. /\ \A i \in 1..Len(Msgs(read.convs, t)), k \in 1..Len(Msgs(convs, t)) :
                 Msgs(read.convs, t)[i].uid # Msgs(convs, t)[k].uid
          /\ ~raced => Msgs(convs, t) = <<>>
      BY DEF ConvInv, HistoryApart
    <2>3. Numbers(Msgs(read.convs, t) \o Msgs(convs, t), made, counter', raced)
      BY <1>0, <1>3, <2>1, <2>2, ConcatNumbers
    <2> QED
      BY <1>2, <2>3
  <1>5. Numbered(convs', made', counter', raced')
    BY <1>1, <1>4 DEF Numbered
  <1>6. ~raced => jobs = {}
    BY DEF ConvInv, HistoryApart
  <1>7. TypeOK'
    BY <1>1, <1>2, <1>3 DEF ConvInv, TypeOK
  <1>8. FileOK(read)' /\ FileOK(disk)' /\ OffIsEmpty' /\ HistoryApart'
    BY <1>1 DEF ConvInv, FileOK, OffIsEmpty, HistoryApart
  <1> QED
    BY <1>1, <1>2, <1>5, <1>6, <1>7, <1>8 DEF ConvInv

LEMMA HistoryStep ==
    ASSUME ConvInv, History
    PROVE  ConvInv'
  <1>0. NoConvs \in Table /\ (\A t \in Threads : Msgs(NoConvs, t) = <<>>) /\ Len(<<>>) = 0
        /\ (\A top, next, loose : Numbered(NoConvs, top, next, loose))
    BY NoConvsEmpty, EmptySeq
  <1>1. CASE Start
    <2>1. /\ phase = "off" /\ phase' = "loading" /\ read' = disk
          /\ UNCHANGED <<disk, behind, wiping, wire, acked, convs, counter, made, raced, saveTimer,
                         jobs, used>>
      BY <1>1 DEF Start, diskVars, netVars, countVars
    <2>2. jobs = {} /\ convs = NoConvs
      BY <2>1 DEF ConvInv, OffIsEmpty
    <2>3. HistoryApart'
      BY <1>0, <2>1, <2>2 DEF HistoryApart
    <2> QED
      BY <2>1, <2>2, <2>3 DEF ConvInv, TypeOK, FileOK, OffIsEmpty
  <1>2. CASE Hydrate
    <2>1. CASE read # NoBlob
      BY <1>2, <2>1, HydrateStep
    <2>2. CASE read = NoBlob
      <3>1. /\ phase' = "up" /\ read' = NoBlob
            /\ UNCHANGED <<disk, behind, wiping, wire, acked, convs, counter, made, raced, saveTimer,
                           jobs, used>>
        BY <1>2, <2>2 DEF Hydrate, diskVars, netVars
      <3> QED
        BY <3>1 DEF ConvInv, TypeOK, FileOK, OffIsEmpty, HistoryApart, Owns
    <2> QED
      BY <2>1, <2>2
  <1>3. CASE HydrateFails
    <2>1. /\ phase' = "up" /\ read' = NoBlob /\ behind' = TRUE
          /\ UNCHANGED <<disk, wiping, wire, acked, convs, counter, made, raced, saveTimer, jobs, used>>
      BY <1>3 DEF HydrateFails, netVars, countVars
    <2> QED
      BY <2>1 DEF ConvInv, TypeOK, FileOK, OffIsEmpty, HistoryApart, Owns
  <1>4. CASE Save
    <2>1. /\ saveTimer' = FALSE /\ Write(Blob)
          /\ UNCHANGED <<phase, read, wiping, wire, acked, convs, counter, made, raced, jobs, used>>
      BY <1>4 DEF Save, loadVars, netVars, countVars
    <2>2. disk' \in Saves \cup {NoBlob} /\ behind' \in BOOLEAN /\ FileOK(disk)'
      BY <2>1, BlobNumbered, WriteKeeps
    <2> QED
      BY <2>1, <2>2 DEF ConvInv, TypeOK, FileOK, OffIsEmpty, HistoryApart, Owns
  <1>5. CASE Reset
    <2> DEFINE b == [counter |-> 0, convs |-> NoConvs]
    <2>1. /\ phase # "off" /\ convs' = NoConvs /\ counter' = 0 /\ saveTimer' = TRUE /\ Write(b)
          /\ wiping' = TRUE /\ raced' = (raced \/ jobs # {})
          /\ UNCHANGED <<phase, read, wire, acked, made, jobs, used>>
      BY <1>5 DEF Reset, Emit, loadVars, netVars
    <2>2. b \in Saves /\ b.convs = NoConvs
      BY <1>0 DEF Saves
    <2>3. raced' \in BOOLEAN /\ (raced => raced') /\ (~raced' => jobs = {}) /\ made \in Nat
      BY <2>1 DEF ConvInv, TypeOK
    <2> HIDE DEF b
    <2>4. disk' \in Saves \cup {NoBlob} /\ behind' \in BOOLEAN /\ FileOK(disk)'
      BY <1>0, <2>1, <2>2, <2>3, WriteKeeps
    <2>5. FileOK(read)'
      BY <2>1, <2>3, FileGrows DEF FileOK
    <2>6. HistoryApart'
      BY <1>0, <2>1, <2>3 DEF HistoryApart, ConvInv
    <2>7. TypeOK'
      BY <1>0, <2>1, <2>3, <2>4 DEF ConvInv, TypeOK
    <2> QED
      BY <1>0, <2>1, <2>3, <2>4, <2>5, <2>6, <2>7 DEF ConvInv, OffIsEmpty
  <1>6. CASE NativeReset
    <2>1. /\ disk' \in {disk, NoBlob} /\ wiping' = FALSE /\ behind' \in BOOLEAN
          /\ UNCHANGED <<phase, read, wire, acked, convs, counter, made, raced, saveTimer, jobs, used>>
      BY <1>6 DEF NativeReset, loadVars, netVars, countVars, ConvInv, TypeOK
    <2> QED
      BY <2>1 DEF ConvInv, TypeOK, FileOK, OffIsEmpty, HistoryApart, Owns
  <1>7. CASE Kill
    <2>1. /\ phase' = "off" /\ read' = NoBlob /\ convs' = NoConvs /\ counter' = 0
          /\ saveTimer' = FALSE /\ wiping' = FALSE /\ jobs' = {} /\ wire' = {} /\ acked' = {}
          /\ UNCHANGED <<disk, behind, made, raced, used>>
      BY <1>7 DEF Kill
    <2> QED
      BY <1>0, <2>1 DEF ConvInv, TypeOK, FileOK, OffIsEmpty, HistoryApart
  <1> QED
    BY <1>1, <1>2, <1>3, <1>4, <1>5, <1>6, <1>7 DEF History

-----------------------------------------------------------------------------
(* The shape of every other step. *)

LEMMA Basics ==
    ASSUME ConvInv
    PROVE  /\ convs \in Table /\ made \in Nat /\ counter \in Nat /\ jobs \subseteq JobType
           /\ {saveTimer, behind, wiping} \subseteq BOOLEAN /\ acked \subseteq wire
           /\ used \subseteq Groups /\ \A j \in jobs : j.thread \in Threads
BY DEF ConvInv, TypeOK, JobType

LEMMA SomethingIsOn ==
    ASSUME ConvInv
    PROVE  /\ jobs # {} \/ wire # {} => phase # "off"
           /\ \A t \in Threads : convs[t] # NoConv => phase # "off"
           /\ \A t \in Threads : DOMAIN Messages(t) # {} => phase # "off"
           /\ \A t \in Threads : \A id : Find(t, id) # {} => phase # "off"
  <1>1. phase = "off" => \A t \in Threads : convs[t] = NoConv
    BY DEF ConvInv, OffIsEmpty, NoConvs
  <1>2. \A t \in Threads : convs[t] = NoConv => Messages(t) = <<>>
    BY DEF Messages, Ensure, Fresh
  <1>3. DOMAIN <<>> = {}
    OBVIOUS
  <1>4. \A t \in Threads : convs[t] = NoConv => DOMAIN Messages(t) = {} /\ \A id : Find(t, id) = {}
    BY <1>2, <1>3 DEF Find
  <1> QED
    BY <1>1, <1>4 DEF ConvInv, OffIsEmpty

LEMMA FewerJobs ==
    ASSUME ConvInv, jobs' \subseteq jobs
    PROVE  JobsFrom
BY Basics DEF JobsFrom, GoesOnFrom

\* One job is replaced by the next of the same call.
LEMMA NextJob ==
    ASSUME ConvInv, NEW j \in jobs, NEW k \in {"send", "write"},
           jobs' \subseteq jobs \cup {[j EXCEPT !.kind = k]}
    PROVE  JobsFrom
  <1>1. j \in JobType
    BY Basics
  <1> DEFINE n == [j EXCEPT !.kind = k]
  <1>2. n \in JobType /\ n.thread = j.thread /\ n.id = j.id /\ n.uid = j.uid
    BY <1>1 DEF JobType
  <1> HIDE DEF n
  <1>3. jobs' \subseteq jobs \cup {n}
    BY DEF n
  <1> QED
    BY <1>2, <1>3, Basics DEF JobsFrom, GoesOnFrom

\* Jobs for messages of thread t that are edited.
LEMMA MoreJobs ==
    ASSUME ConvInv, Edit, NEW t \in Threads,
           \A j \in jobs' : \/ j \in jobs
                            \/ \E i \in 1..Len(Messages(t)), k \in {"load", "loadsave", "write"} :
                                   j = Job(k, t, Messages(t)[i])
    PROVE  JobsFrom
  <1>1. Messages(t) = Msgs(convs, t) /\ Messages(t) \in Seq(Message) /\ Edited(Messages(t), Msgs(convs', t))
    BY Basics, EnsureTyped DEF Edit
  <1>2. ASSUME NEW i \in 1..Len(Messages(t)), NEW k \in {"load", "loadsave", "write"}
        PROVE  LET j == Job(k, t, Messages(t)[i]) IN j \in JobType /\ Begun(j)
    <2> DEFINE m == Messages(t)[i]
               j == Job(k, t, m)
    <2>1. m \in Message /\ m.uid \in Nat /\ m.id \in Nat
      BY <1>1, ElementOfSeq, MessageFields
    <2>2. j \in JobType /\ j.thread = t /\ j.id = m.id /\ j.uid = m.uid
      BY <2>1 DEF Job, JobType
    <2> HIDE DEF j
    <2>3. Begun(j)
      BY <1>1, <2>2, EditedLen DEF Begun
    <2> QED
      BY <2>2, <2>3 DEF j
  <1> QED
    BY <1>2, Basics DEF JobsFrom, GoesOnFrom

\* EnsurePeer and CreateGroup change no message.
LEMMA ThreadStep ==
    ASSUME ConvInv, (\E p \in Peers : EnsurePeer(p)) \/ (\E g \in Groups : CreateGroup(g))
    PROVE  EditStep
  <1>1. ASSUME NEW p \in Peers, EnsurePeer(p)
        PROVE  EditStep
    <2>1. /\ p \in Threads /\ phase # "off" /\ convs[p] = NoConv
          /\ Put(p, <<>>, Ensure(p).unread, Ensure(p).group) /\ saveTimer' = TRUE
          /\ UNCHANGED <<phase, read, disk, behind, wiping, wire, acked, made, counter, raced, jobs, used>>
      BY <1>1 DEF EnsurePeer, PutMessages, Emit, Threads, fileVars, netVars, countVars
    <2>2. Messages(p) = <<>>
      BY <2>1 DEF Messages, Ensure, Fresh
    <2>3. Edited(Messages(p), <<>>)
      BY <2>2, EmptySeq, EditedSame
    <2>4. Edit
      BY <2>1, <2>3, Basics, EnsureTyped, PutEdits
    <2> QED
      BY <2>1, <2>4, Basics, FewerJobs DEF EditStep
  <1>2. ASSUME NEW g \in Groups, CreateGroup(g)
        PROVE  EditStep
    <2>1. /\ g \in Threads /\ phase # "off" /\ used' = used \cup {g}
          /\ Put(g, Messages(g), Ensure(g).unread, TRUE) /\ saveTimer' = TRUE
          /\ UNCHANGED <<phase, read, disk, behind, wiping, wire, acked, made, counter, raced, jobs>>
      BY <1>2 DEF CreateGroup, Emit, Threads, fileVars, netVars, countVars
    <2>2. Edited(Messages(g), Messages(g))
      BY <2>1, Basics, EnsureTyped, EditedSame
    <2>3. Edit
      BY <2>1, <2>2, Basics, EnsureTyped, PutEdits
    <2> QED
      BY <2>1, <2>3, Basics, FewerJobs DEF EditStep
  <1> QED
    BY <1>1, <1>2

LEMMA TransferStep ==
    ASSUME ConvInv, NEW j \in jobs,
           \/ Uploaded(j) \/ MediaSent(j) \/ SendMediaFails(j) \/ Loaded(j) \/ LoadFails(j)
           \/ Written(j) \/ WriteFails(j)
    PROVE  EditStep
  <1>0. j.thread \in Threads /\ phase # "off" /\ convs \in Table
    BY Basics, SomethingIsOn
  <1>1. /\ UNCHANGED <<phase, read, disk, behind, wiping, made, counter, raced, acked, used>>
        /\ saveTimer' \in BOOLEAN /\ wire' \subseteq wire \cup {j.uid} /\ wire \subseteq wire'
    BY Basics DEF Uploaded, MediaSent, SendMediaFails, Loaded, LoadFails, Written, WriteFails, Patch, Emit,
       fileVars, netVars, countVars
  <1>2. Edit
    BY <1>0, PatchEdits, SameEdits
    DEF Uploaded, MediaSent, SendMediaFails, Loaded, LoadFails, Written, WriteFails
  <1>3. JobsFrom
    <2>1. CASE Uploaded(j)
      BY <2>1, NextJob DEF Uploaded
    <2>2. CASE Loaded(j) \/ LoadFails(j)
      BY <2>2, NextJob DEF Loaded, LoadFails, GoesOn
    <2>3. CASE MediaSent(j) \/ SendMediaFails(j) \/ Written(j) \/ WriteFails(j)
      BY <2>3, FewerJobs DEF MediaSent, SendMediaFails, Written, WriteFails
    <2> QED
      BY <2>1, <2>2, <2>3
  <1> QED
    BY <1>0, <1>1, <1>2, <1>3, Basics DEF EditStep

LEMMA TickStep ==
    ASSUME ConvInv, NEW u \in wire, Ack(u) \/ \E s \in {"delivered", "read"} : StatusUpdate(u, s)
    PROVE  EditStep
  <1>1. /\ UNCHANGED <<phase, read, disk, behind, wiping, made, counter, raced, jobs, wire, used>>
        /\ acked' \subseteq acked \cup {u}
    BY DEF Ack, StatusUpdate, fileVars, netVars, countVars
  <1>2. Edit /\ saveTimer' \in BOOLEAN
    BY Basics, StatusEdits DEF Ack, StatusUpdate, ApplyStatus, Emit, Ticks
  <1> QED
    BY <1>1, <1>2, Basics, SomethingIsOn, FewerJobs DEF EditStep

LEMMA MarkStep ==
    ASSUME ConvInv, NEW t \in Threads,
           \/ \E online \in BOOLEAN : MarkRead(t, online)
           \/ \E id \in 0..MaxMsgs : ToggleStar(t, id) \/ DismissScamWarning(t, id)
    PROVE  EditStep
  <1>1. Edit
    BY Basics, MarkEdits
  <1>2. /\ UNCHANGED <<phase, read, disk, behind, wiping, made, counter, raced, jobs, wire, acked, used>>
        /\ saveTimer' = TRUE
    BY DEF MarkRead, ToggleStar, DismissScamWarning, Emit, fileVars, netVars, countVars
  <1>3. phase # "off"
    BY SomethingIsOn DEF MarkRead, ToggleStar, DismissScamWarning
  <1> QED
    BY <1>1, <1>2, <1>3, Basics, FewerJobs DEF EditStep

LEMMA FetchStep ==
    ASSUME ConvInv, NEW t \in Threads,
           \/ LoadPendingMedia(t)
           \/ \E id \in 0..MaxMsgs : \/ DownloadMedia(t, id, "load") \/ DownloadMedia(t, id, "loadsave")
                                     \/ SaveMedia(t, id)
    PROVE  EditStep
  <1>0. DOMAIN Messages(t) = 1..Len(Messages(t))
    BY Basics, EnsureTyped
  <1>1. CASE LoadPendingMedia(t)
    <2>1. Edit
      BY <1>1, Basics, MarkEdits
    <2>2. PICK todo \in SUBSET DOMAIN Messages(t) :
              todo # {} /\ jobs' = jobs \cup {Job("load", t, Messages(t)[i]) : i \in todo}
      BY <1>1 DEF LoadPendingMedia
    <2>3. JobsFrom
      BY <1>0, <2>1, <2>2, MoreJobs
    <2>4. /\ UNCHANGED <<phase, read, disk, behind, wiping, made, counter, raced, wire, acked, used>>
          /\ saveTimer' = TRUE
      BY <1>1 DEF LoadPendingMedia, Emit, fileVars, netVars, countVars
    <2>5. phase # "off"
      BY <2>2, SomethingIsOn
    <2> QED
      BY <2>1, <2>3, <2>4, <2>5, Basics DEF EditStep
  <1>2. ASSUME NEW id, NEW k \in {"load", "loadsave"}, DownloadMedia(t, id, k)
        PROVE  EditStep
    <2>1. Edit
      BY <1>2, Basics, PatchEdits DEF DownloadMedia
    <2>2. PICK i \in Find(t, id) : jobs' = jobs \cup {Job(k, t, Messages(t)[i])}
      BY <1>2 DEF DownloadMedia
    <2>3. i \in 1..Len(Messages(t)) /\ phase # "off"
      BY <2>2, Basics, FindIn, SomethingIsOn
    <2>4. JobsFrom
      BY <2>1, <2>2, <2>3, MoreJobs
    <2>5. /\ UNCHANGED <<phase, read, disk, behind, wiping, made, counter, raced, wire, acked, used>>
          /\ saveTimer' \in BOOLEAN
      BY <1>2, Basics DEF DownloadMedia, Patch, Emit, fileVars, netVars, countVars
    <2> QED
      BY <2>1, <2>3, <2>4, <2>5, Basics DEF EditStep
  <1>3. ASSUME NEW id, SaveMedia(t, id)
        PROVE  EditStep
    <2>1. Edit
      BY <1>3, Basics, SameEdits DEF SaveMedia
    <2>2. PICK i \in Find(t, id) : jobs' = jobs \cup {Job("write", t, Messages(t)[i])}
      BY <1>3 DEF SaveMedia
    <2>3. i \in 1..Len(Messages(t)) /\ phase # "off"
      BY <2>2, Basics, FindIn, SomethingIsOn
    <2>4. JobsFrom
      BY <2>1, <2>2, <2>3, MoreJobs
    <2>5. UNCHANGED <<phase, read, disk, behind, wiping, made, counter, raced, wire, acked, used, saveTimer>>
      BY <1>3 DEF SaveMedia, fileVars, netVars, countVars
    <2> QED
      BY <2>1, <2>3, <2>4, <2>5, Basics DEF EditStep
  <1> QED
    BY <1>1, <1>2, <1>3

\* A step that adds a message to thread t, with its transfer if it has one.
Adds(t, m, unread, group) ==
    /\ m \in Message /\ m.uid = made + 1 /\ m.id = counter /\ unread \in Nat /\ group \in BOOLEAN
    /\ Put(t, Append(Messages(t), m), unread, group) /\ Made /\ phase # "off"
    /\ jobs' \subseteq jobs \cup {Job(k, t, m) : k \in {"upload", "load"}}
    /\ jobs \subseteq jobs' /\ (m.mediaState = "loading" => Job("load", t, m) \in jobs')
    /\ UNCHANGED <<phase, read, disk, behind, wiping, acked>> /\ saveTimer' = TRUE
    /\ wire' \subseteq wire \cup {m.uid} /\ wire \subseteq wire' /\ used' \subseteq Groups

LEMMA AddGrows ==
    ASSUME ConvInv, NEW t \in Threads, NEW m, NEW unread, NEW group, Adds(t, m, unread, group)
    PROVE  GrowStep(t, m)
  <1>1. Grows(t, m)
    BY Basics, PutGrows DEF Adds
  <1>2. ASSUME NEW k \in {"upload", "load"}
        PROVE  LET j == Job(k, t, m) IN j \in JobType /\ Begun(j)
    <2> DEFINE j == Job(k, t, m)
    <2>1. j \in JobType /\ j.thread = t /\ j.id = m.id /\ j.uid = m.uid
      BY MessageFields DEF Job, JobType, Adds
    <2>2. Msgs(convs, t) \in Seq(Message) /\ Len(Msgs(convs, t)) \in Nat
      BY Basics, TableTyped, LenProperties
    <2>3. Msgs(convs', t)[Len(Msgs(convs, t)) + 1] = m
          /\ Len(Msgs(convs, t)) + 1 \in 1..Len(Msgs(convs', t))
      BY <1>1, <2>2, AppendProperties DEF Grows
    <2> HIDE DEF j
    <2>4. Begun(j)
      BY <2>1, <2>3 DEF Begun
    <2> QED
      BY <2>1, <2>4 DEF j
  <1>3. JobsFrom
    BY <1>2, Basics DEF JobsFrom, GoesOnFrom, Adds
  <1> QED
    BY <1>1, <1>3, Basics DEF Adds, GrowStep

LEMMA SendGrows ==
    ASSUME ConvInv, NEW t \in Threads, Send(t) \/ \E k \in Kinds \ {"text"} : SendMedia(t, k)
    PROVE  \E m : GrowStep(t, m)
  <1>0. /\ Ensure(t).unread \in Nat /\ Ensure(t).group \in BOOLEAN /\ phase # "off"
        /\ NoSender \in Peers \cup {NoSender}
    BY Basics, EnsureTyped, SomethingIsOn DEF Send, SendMedia
  <1>1. CASE Send(t)
    <2> DEFINE n == Make(TRUE, "text", NoSender)
               s == IF Ensure(t).group THEN "none" ELSE "sending"
               m == [n EXCEPT !.status = s]
    <2>1. n \in Message /\ n.uid = made + 1 /\ n.id = counter /\ n.mediaState = "none"
      BY <1>1, <1>0, Basics, MakeTyped DEF Send
    <2>2. s \in Ticks
      BY DEF Ticks
    <2> HIDE DEF n, s
    <2>3. m \in Message /\ m.uid = made + 1 /\ m.id = counter /\ m.mediaState = n.mediaState
      BY <2>1, <2>2 DEF Message
    <2>4. /\ Put(t, Append(Messages(t), m), Ensure(t).unread, Ensure(t).group)
          /\ Made /\ wire' \in {wire, wire \cup {m.uid}} /\ saveTimer' = TRUE
          /\ UNCHANGED <<phase, read, disk, behind, wiping, acked, jobs, used>>
      BY <1>1 DEF Send, PutMessages, Emit, fileVars, n, s
    <2> HIDE DEF m
    <2>5. Adds(t, m, Ensure(t).unread, Ensure(t).group)
      BY <1>0, <2>1, <2>3, <2>4, Basics DEF Adds
    <2> QED
      BY <2>5, AddGrows
  <1>2. ASSUME NEW k \in Kinds, SendMedia(t, k)
        PROVE  \E m : GrowStep(t, m)
    <2> DEFINE n == Make(TRUE, k, NoSender)
               d == IF k = "image" THEN "ready" ELSE "none"
               b == (k = "image")
               m == [n EXCEPT !.status = "sending", !.uri = b, !.mediaState = d]
    <2>1. n \in Message /\ n.uid = made + 1 /\ n.id = counter
      BY <1>0, Basics, MakeTyped
    <2>2. "sending" \in Ticks /\ d \in {"none", "loading", "ready", "error"} /\ b \in BOOLEAN
      BY DEF Ticks
    <2>3. d # "loading"
      OBVIOUS
    <2>4. /\ Put(t, Append(Messages(t), m), Ensure(t).unread, Ensure(t).group)
          /\ Made /\ saveTimer' = TRUE
          /\ jobs' = jobs \cup {Job("upload", t, m)}
          /\ UNCHANGED <<phase, read, disk, behind, wiping, wire, acked, used>>
      BY <1>2 DEF SendMedia, PutMessages, Emit, fileVars, netVars
    <2> HIDE DEF n, d, b
    <2>5. m \in Message /\ m.uid = made + 1 /\ m.id = counter /\ m.mediaState = d
      <3>1. m \in Message /\ m.uid = n.uid /\ m.id = n.id /\ m.mediaState = d
        BY <2>1, <2>2, Zenon DEF Message
      <3> QED
        BY <2>1, <3>1, Zenon
    <2> HIDE DEF m
    <2>6. Adds(t, m, Ensure(t).unread, Ensure(t).group)
      BY <1>0, <2>3, <2>4, <2>5, Basics DEF Adds
    <2> QED
      BY <2>6, AddGrows
  <1> QED
    BY <1>1, <1>2

LEMMA ReceiveGrows ==
    ASSUME ConvInv, NEW p \in Peers,
           (\E k \in Kinds : Receive(p, k)) \/ \E g \in Groups : ReceiveGroup(p, g)
    PROVE  \E t \in Threads : \E m : GrowStep(t, m)
  <1>1. ASSUME NEW k \in Kinds, Receive(p, k)
        PROVE  \E t \in Threads : \E m : GrowStep(t, m)
    <2> DEFINE n == Make(FALSE, k, NoSender)
               d == IF k = "image" THEN "loading" ELSE "none"
               b == (k # "text")
               m == [n EXCEPT !.ref = b, !.mediaState = d]
    <2>0. p \in Threads /\ Ensure(p).unread + 1 \in Nat /\ Ensure(p).group \in BOOLEAN
      BY Basics, EnsureTyped DEF Threads
    <2>1. n \in Message /\ n.uid = made + 1 /\ n.id = counter
      BY Basics, MakeTyped
    <2>2. "none" \in Ticks /\ d \in {"none", "loading", "ready", "error"} /\ b \in BOOLEAN
      BY DEF Ticks
    <2>3. /\ Put(p, Append(Messages(p), m), Ensure(p).unread + 1, Ensure(p).group)
          /\ Made /\ saveTimer' = TRUE /\ phase # "off"
          /\ jobs' \in {jobs, jobs \cup {Job("load", p, m)}}
          /\ (d = "loading" => jobs' = jobs \cup {Job("load", p, m)})
          /\ UNCHANGED <<phase, read, disk, behind, wiping, wire, acked, used>>
      BY <1>1 DEF Receive, Emit, fileVars, netVars
    <2> HIDE DEF n, d, b
    <2>4. m \in Message /\ m.uid = made + 1 /\ m.id = counter /\ m.mediaState = d
      <3>1. m \in Message /\ m.uid = n.uid /\ m.id = n.id /\ m.mediaState = d
        BY <2>1, <2>2, Zenon DEF Message
      <3> QED
        BY <2>1, <3>1, Zenon
    <2> HIDE DEF m
    <2>5. Adds(p, m, Ensure(p).unread + 1, Ensure(p).group)
      BY <2>0, <2>3, <2>4, Basics DEF Adds
    <2> QED
      BY <2>0, <2>5, AddGrows
  <1>2. ASSUME NEW g \in Groups, ReceiveGroup(p, g)
        PROVE  \E t \in Threads : \E m : GrowStep(t, m)
    <2> DEFINE m == Make(FALSE, "text", p)
    <2>0. g \in Threads /\ Ensure(g).unread + 1 \in Nat
      BY Basics, EnsureTyped DEF Threads
    <2>1. m \in Message /\ m.uid = made + 1 /\ m.id = counter /\ m.mediaState = "none"
      BY <1>2, Basics, MakeTyped DEF ReceiveGroup
    <2>2. /\ Put(g, Append(Messages(g), m), Ensure(g).unread + 1, TRUE)
          /\ Made /\ saveTimer' = TRUE /\ phase # "off" /\ used' = used \cup {g}
          /\ UNCHANGED <<phase, read, disk, behind, wiping, wire, acked, jobs>>
      BY <1>2 DEF ReceiveGroup, Emit, fileVars, netVars
    <2> HIDE DEF m
    <2>3. Adds(g, m, Ensure(g).unread + 1, TRUE)
      BY <2>0, <2>1, <2>2, Basics DEF Adds
    <2> QED
      BY <2>0, <2>3, AddGrows
  <1> QED
    BY <1>1, <1>2

\* Every step is one of these: of the history, an edit, an addition, or a stutter.
LEMMA StepShape ==
    ASSUME ConvInv, [Next]_vars
    PROVE  History \/ EditStep \/ (\E t \in Threads : \E m : GrowStep(t, m)) \/ UNCHANGED vars
  <1>1. CASE Inbound
    BY <1>1, ThreadStep, ReceiveGrows DEF Inbound
  <1>2. CASE \E g \in Groups : CreateGroup(g)
    BY <1>2, ThreadStep
  <1>3. ASSUME NEW t \in Threads, Chat(t)
        PROVE  EditStep \/ \E m : GrowStep(t, m)
    BY <1>3, SendGrows, MarkStep, FetchStep DEF Chat
  <1>4. CASE Background
    BY <1>4, TickStep, TransferStep DEF Background
  <1> QED
    BY <1>1, <1>2, <1>3, <1>4 DEF Next

LEMMA ConvStep ==
    ASSUME ConvInv, [Next]_vars
    PROVE  ConvInv'
  <1>1. CASE UNCHANGED vars
    BY <1>1 DEF vars, ConvInv, TypeOK, FileOK, OffIsEmpty, HistoryApart, Owns
  <1> QED
    BY <1>1, StepShape, HistoryStep, EditKeeps, GrowKeeps

LEMMA ConvStart == Init => ConvInv
  <1> SUFFICES ASSUME Init PROVE ConvInv
    OBVIOUS
  <1>1. Numbered(convs, made, counter, raced) /\ convs \in Table
    BY NoConvsEmpty DEF Init
  <1> QED
    BY <1>1 DEF Init, ConvInv, TypeOK, FileOK, OffIsEmpty, HistoryApart

LEMMA ConvAlways == Spec => []ConvInv
BY ConvStart, ConvStep, PTL DEF Spec

-----------------------------------------------------------------------------
(* The properties of the conversations. *)

\* Type correctness: every message, thread, saved file and transfer is well formed,
\* whatever is merged, patched or received, and only what was sent is acknowledged.
THEOREM ConversationsTyped == Spec => []TypeOK
  <1>1. ConvInv => TypeOK
    BY DEF ConvInv
  <1> QED
    BY <1>1, ConvAlways, PTL

\* A transfer that ends finds the message it was begun for under its id, or none,
\* unless ids may clash (conversations.ts patch, of loadMedia, sendMedia, saveMedia).
THEOREM TransfersEndAtHome == Spec => []PatchesOwn
  <1>1. ConvInv => PatchesOwn
    <2> SUFFICES ASSUME ConvInv, ~raced, NEW j \in jobs, NEW i \in Find(j.thread, j.id)
                 PROVE  Messages(j.thread)[i].uid = j.uid
      BY DEF PatchesOwn
    <2>1. j.thread \in Threads /\ convs \in Table /\ Owns(j)
      BY Basics DEF ConvInv
    <2>2. i \in 1..Len(Messages(j.thread)) /\ Messages(j.thread)[i].id = j.id
          /\ Messages(j.thread) = Msgs(convs, j.thread)
      BY <2>1, FindIn, EnsureTyped
    <2> QED
      BY <2>1, <2>2 DEF Owns
  <1> QED
    BY <1>1, ConvAlways, PTL

\* The uids of a thread are those of its messages.
LEMMA UidsAre ==
    ASSUME NEW cs \in Table, NEW t \in Threads
    PROVE  Uids(cs, t) = {Msgs(cs, t)[i].uid : i \in 1..Len(Msgs(cs, t))}
  <1>1. Msgs(cs, t) \in Seq(Message) /\ DOMAIN Msgs(cs, t) = 1..Len(Msgs(cs, t))
    BY TableTyped, LenProperties
  <1>2. In(cs, t) = {Msgs(cs, t)[i] : i \in DOMAIN Msgs(cs, t)}
    BY DEF In, Msgs
  <1> QED
    BY <1>1, <1>2 DEF Uids

\* No message is in its thread twice, whatever was saved, arrived or was sent before
\* the history was merged (conversations.ts hydrate).
THEOREM NeverTwice == Spec => []NoCopies
  <1>1. ASSUME ConvInv, NEW t \in Threads, convs[t] # NoConv
        PROVE  Cardinality(Uids(convs, t)) = Len(convs[t].messages)
    <2> DEFINE ms == Msgs(convs, t)
               f == [i \in 1..Len(ms) |-> ms[i].uid]
    <2>1. ms = convs[t].messages /\ Len(ms) \in Nat /\ convs \in Table
      BY <1>1, Basics, TableTyped, LenProperties DEF Msgs
    <2>2. Uids(convs, t) = {ms[i].uid : i \in 1..Len(ms)}
      BY <2>1, UidsAre
    <2>3. \A i, k \in 1..Len(ms) : ms[i].uid = ms[k].uid => i = k
      BY <1>1 DEF ConvInv, Numbered, Numbers
    <2>4. f \in Bijection(1..Len(ms), Uids(convs, t))
      BY <2>2, <2>3 DEF Bijection, Injection, Surjection, IsInjective
    <2>5. IsFiniteSet(1..Len(ms)) /\ Cardinality(1..Len(ms)) = Len(ms)
      BY <2>1, FS_Interval
    <2>6. Cardinality(Uids(convs, t)) = Cardinality(1..Len(ms))
      BY <2>4, <2>5, FS_Bijection DEF ExistsBijection
    <2> QED
      BY <2>1, <2>5, <2>6
  <1>2. ConvInv => NoCopies
    BY <1>1 DEF NoCopies
  <1> QED
    BY <1>2, ConvAlways, PTL

\* Every message of ms is in ns, edited or not.
Carried(ms, ns) == \A i \in 1..Len(ms) : \E k \in 1..Len(ns) : Kept(ms[i], ns[k])

\* What a step does to the messages while the process lives: the sign-out empties
\* the store, any other step carries every message over.
LEMMA StepCarries ==
    ASSUME ConvInv, [Next]_vars, phase' # "off"
    PROVE  \/ convs' = NoConvs /\ wiping' /\ ~wiping
           \/ \A t \in Threads : Carried(Msgs(convs, t), Msgs(convs', t))
  <1>0. convs \in Table /\ \A t \in Threads : /\ Msgs(convs, t) \in Seq(Message)
                                              /\ Len(Msgs(convs, t)) \in Nat
                                              /\ \A i \in 1..Len(Msgs(convs, t)) : Msgs(convs, t)[i] \in Message
    BY Basics, TableTyped, ElementOfSeq, LenProperties
  <1>1. CASE Edit
    BY <1>1 DEF Edit, Edited, Carried
  <1>2. ASSUME NEW s \in Threads, NEW m, Grows(s, m), NEW t \in Threads
        PROVE  Carried(Msgs(convs, t), Msgs(convs', t))
    <2>1. m \in Message /\ Msgs(convs', s) = Append(Msgs(convs, s), m)
          /\ (t # s => Msgs(convs', t) = Msgs(convs, t))
      BY <1>2 DEF Grows
    <2>2. CASE t = s
      <3>1. /\ Len(Msgs(convs', t)) = Len(Msgs(convs, t)) + 1
            /\ \A i \in 1..Len(Msgs(convs, t)) : Msgs(convs', t)[i] = Msgs(convs, t)[i]
        BY <1>0, <2>1, <2>2, AppendProperties
      <3> QED
        BY <1>0, <3>1, KeptSame DEF Carried
    <2>3. CASE t # s
      BY <1>0, <2>1, <2>3, KeptSame DEF Carried
    <2> QED
      BY <2>2, <2>3
  <1>3. ASSUME Hydrate, read # NoBlob, NEW t \in Threads
        PROVE  Carried(Msgs(convs, t), Msgs(convs', t))
    <2> DEFINE fs == Msgs(read.convs, t)
               ms == Msgs(convs, t)
    <2>1. Msgs(convs', t) = fs \o ms
      BY <1>3, HydrateStep
    <2>2. fs \in Seq(Message) /\ Len(fs) \in Nat
      BY <1>3, SavesTyped, TableTyped, LenProperties DEF ConvInv, TypeOK
    <2>3. /\ Len(fs \o ms) = Len(fs) + Len(ms)
          /\ \A i \in 1..Len(fs \o ms) : i > Len(fs) => (fs \o ms)[i] = ms[i - Len(fs)]
      BY <1>0, <2>2, ConcatProperties
    <2> DEFINE ns == fs \o ms
    <2> HIDE DEF ns, fs
    <2>4. ASSUME NEW i \in 1..Len(ms)
          PROVE  i + Len(fs) \in 1..Len(ns) /\ ns[i + Len(fs)] = ms[i]
      BY <1>0, <2>2, <2>3 DEF ns
    <2>5. Carried(ms, ns)
      BY <1>0, <2>4, KeptSame DEF Carried
    <2> QED
      BY <2>1, <2>5 DEF ns
  <1>4. CASE Reset
    BY <1>4 DEF Reset
  <1>5. CASE convs' = convs
    BY <1>0, <1>1, <1>5, SameEdits
  <1>6. CASE History
    BY <1>3, <1>4, <1>5, <1>6
    DEF History, Start, Hydrate, HydrateFails, Save, NativeReset, Kill
  <1>7. CASE EditStep
    BY <1>1, <1>7 DEF EditStep
  <1>8. CASE \E s \in Threads : \E m : GrowStep(s, m)
    BY <1>2, <1>8 DEF GrowStep
  <1> QED
    BY <1>5, <1>6, <1>7, <1>8, StepShape DEF vars

\* What the load has read is merged by the step that ends the load, unless it fails:
\* any other step of a living process leaves it to be merged.
LEMMA StepMerges ==
    ASSUME ConvInv, [Next]_vars, phase' # "off", ~(wiping' /\ ~wiping), NEW t \in Threads
    PROVE  LoadFailed \/ Unmerged(t) \subseteq Uids(convs', t) \cup Unmerged(t)'
  <1>0. convs \in Table /\ convs' \in Table
    BY ConvStep DEF ConvInv, TypeOK
  <1>1. CASE read = NoBlob
    BY <1>1 DEF Unmerged
  <1>2. CASE read' = read
    BY <1>2 DEF Unmerged
  <1>3. CASE Hydrate /\ read # NoBlob
    <2> DEFINE fs == Msgs(read.convs, t)
               ms == Msgs(convs, t)
               ns == Msgs(convs', t)
    <2>1. ns = fs \o ms
      BY <1>3, HydrateStep
    <2>2. read.convs \in Table
      BY <1>3, SavesTyped DEF ConvInv, TypeOK
    <2>3. fs \in Seq(Message) /\ ms \in Seq(Message) /\ Len(fs) \in Nat /\ Len(ms) \in Nat
      BY <1>0, <2>2, TableTyped, LenProperties
    <2>4. /\ Len(fs \o ms) = Len(fs) + Len(ms)
          /\ \A i \in 1..Len(fs \o ms) : i <= Len(fs) => (fs \o ms)[i] = fs[i]
      BY <2>3, ConcatProperties
    <2>5. /\ Uids(read.convs, t) = {fs[i].uid : i \in 1..Len(fs)}
          /\ Uids(convs', t) = {ns[i].uid : i \in 1..Len(ns)}
      BY <1>0, <2>2, UidsAre
    <2> HIDE DEF fs, ms, ns
    <2>6. \A i \in 1..Len(fs) : i \in 1..Len(ns) /\ ns[i] = fs[i]
      BY <2>1, <2>3, <2>4
    <2> QED
      BY <1>3, <2>5, <2>6 DEF Unmerged
  <1>4. CASE History
    <2>1. Start => read = NoBlob
      BY DEF Start, ConvInv, HistoryApart
    <2>2. HydrateFails => LoadFailed
      BY DEF HydrateFails, LoadFailed
    <2>3. Save \/ NativeReset => read' = read
      BY DEF Save, NativeReset, loadVars
    <2>4. ~Kill /\ ~Reset
      BY DEF Kill, Reset
    <2> QED
      BY <1>1, <1>2, <1>3, <1>4, <2>1, <2>2, <2>3, <2>4 DEF History
  <1>5. CASE EditStep \/ \E s \in Threads : \E m : GrowStep(s, m)
    BY <1>2, <1>5 DEF EditStep, GrowStep
  <1>6. CASE UNCHANGED vars
    BY <1>2, <1>6 DEF vars
  <1> QED
    BY <1>4, <1>5, <1>6, StepShape

\* While the process lives no message vanishes but by a sign-out: neither one in memory
\* ("hydrate merges rather than clobbers") nor, unless the load fails, one of the file.
THEOREM NothingVanishes == Spec => NoneVanish
  <1>1. ASSUME ConvInv, [Next]_vars, phase' # "off", ~(wiping' /\ ~wiping), NEW t \in Threads
        PROVE  Uids(convs, t) \subseteq Uids(convs', t)
    <2>1. convs \in Table /\ convs' \in Table
      BY <1>1, ConvStep DEF ConvInv, TypeOK
    <2>2. Carried(Msgs(convs, t), Msgs(convs', t))
      BY <1>1, StepCarries
    <2>3. \A i \in 1..Len(Msgs(convs, t)) : \E k \in 1..Len(Msgs(convs', t)) :
              Msgs(convs, t)[i].uid = Msgs(convs', t)[k].uid
      BY <2>2 DEF Carried, Kept
    <2> QED
      BY <2>1, <2>3, UidsAre
  <1>2. ConvInv /\ [Next]_vars =>
            [phase' # "off" /\ ~(wiping' /\ ~wiping) =>
                \A t \in Threads :
                    /\ Uids(convs, t) \subseteq Uids(convs', t)
                    /\ LoadFailed \/ Unmerged(t) \subseteq Uids(convs', t) \cup Unmerged(t)']_vars
    BY <1>1, StepMerges
  <1> QED
    BY <1>2, ConvAlways, PTL DEF Spec, NoneVanish

\* While the process lives no tick falls back, in whatever order acks and statuses
\* arrive and also when the history is merged (applyStatus, hydrate).
THEOREM TicksRise == Spec => TicksOnlyRise
  <1>1. ASSUME ConvInv, [Next]_vars, phase' # "off", NEW t \in Threads,
               NEW m \in In(convs, t), NEW n \in In(convs', t), m.uid = n.uid
        PROVE  Rank[n.status] >= Rank[m.status]
    <2> DEFINE ms == Msgs(convs, t)
               ns == Msgs(convs', t)
    <2>0. ConvInv' /\ convs \in Table /\ convs' \in Table
      BY <1>1, ConvStep DEF ConvInv, TypeOK
    <2>1. DOMAIN ms = 1..Len(ms) /\ DOMAIN ns = 1..Len(ns)
      BY <2>0, TableTyped, LenProperties
    <2>2. PICK i \in 1..Len(ms) : m = ms[i]
      BY <1>1, <2>1 DEF In, Msgs
    <2>3. PICK l \in 1..Len(ns) : n = ns[l]
      BY <1>1, <2>1 DEF In, Msgs
    <2>4. convs' # NoConvs
      BY <1>1 DEF In, NoConvs
    <2>5. PICK k \in 1..Len(ns) : Kept(ms[i], ns[k])
      BY <1>1, <2>2, <2>4, StepCarries DEF Carried
    <2>6. \A a, b \in 1..Len(ns) : ns[a].uid = ns[b].uid => a = b
      BY <2>0 DEF ConvInv, Numbered, Numbers
    <2>7. k = l
      BY <1>1, <2>2, <2>3, <2>5, <2>6 DEF Kept
    <2> QED
      BY <2>2, <2>3, <2>5, <2>7 DEF Kept
  <1>2. ConvInv /\ [Next]_vars =>
            [phase' # "off" => \A t \in Threads : \A m \in In(convs, t), n \in In(convs', t) :
                m.uid = n.uid => Rank[n.status] >= Rank[m.status]]_vars
    BY <1>1
  <1> QED
    BY <1>2, ConvAlways, PTL DEF Spec, TicksOnlyRise

-----------------------------------------------------------------------------
(* Saving. *)

Settled == IF disk = NoBlob THEN convs = NoConvs ELSE disk = Blob

\* The file is what a save would write or the timer is armed also while a load that
\* found no file is under way; a file it found is merged with the timer armed.
DueInv == phase = "up" \/ (phase = "loading" /\ read = NoBlob) => behind \/ saveTimer \/ Settled

\* Every step outside the history that changes what a save writes arms the timer.
LEMMA StepArms ==
    ASSUME Next, ~History
    PROVE  /\ UNCHANGED <<phase, read, disk, behind>>
           /\ saveTimer' = TRUE \/ UNCHANGED <<convs, counter, saveTimer>>
  <1>1. CASE Inbound \/ \E g \in Groups : CreateGroup(g)
    BY <1>1 DEF Inbound, EnsurePeer, Receive, ReceiveGroup, CreateGroup, Emit, fileVars
  <1>2. ASSUME NEW t \in Threads, Chat(t)
        PROVE  /\ UNCHANGED <<phase, read, disk, behind>>
               /\ saveTimer' = TRUE \/ UNCHANGED <<convs, counter, saveTimer>>
    BY <1>2 DEF Chat, Send, SendMedia, MarkRead, LoadPendingMedia, ToggleStar, DismissScamWarning,
       DownloadMedia, SaveMedia, Patch, Emit, fileVars, countVars
  <1>3. CASE Background
    BY <1>3 DEF Background, Ack, StatusUpdate, ApplyStatus, Uploaded, MediaSent, SendMediaFails, Loaded,
       LoadFails, Written, WriteFails, Patch, Emit, fileVars, countVars
  <1> QED
    BY <1>1, <1>2, <1>3 DEF Next

LEMMA DueStep ==
    ASSUME ConvInv, DueInv, [Next]_vars
    PROVE  DueInv'
  <1>1. CASE UNCHANGED <<phase, read, disk, behind>>
             /\ (saveTimer' = TRUE \/ UNCHANGED <<convs, counter, saveTimer>>)
    BY <1>1 DEF DueInv, Settled, Blob
  <1>2. CASE Start
    BY <1>2 DEF Start, DueInv, Settled, diskVars, ConvInv, OffIsEmpty
  <1>3. CASE Hydrate \/ HydrateFails
    BY <1>3 DEF Hydrate, HydrateFails, DueInv, Settled, Blob, diskVars, Emit
  <1>4. CASE Save
    <2>1. Blob # NoBlob /\ Blob' = Blob
      BY <1>4, BlobNumbered DEF Save, Blob, countVars
    <2> QED
      BY <1>4, <2>1 DEF Save, Write, DueInv, Settled
  <1>5. CASE Reset \/ Kill
    BY <1>5 DEF Reset, Kill, DueInv, Emit
  <1>6. CASE NativeReset
    <2>1. /\ Blob' = Blob /\ UNCHANGED <<phase, read, convs, saveTimer>>
          /\ (disk' = NoBlob /\ (convs = NoConvs \/ behind')) \/ UNCHANGED <<disk, behind>>
      BY <1>6 DEF NativeReset, Blob, loadVars, countVars
    <2> QED
      BY <2>1 DEF DueInv, Settled
  <1> QED
    BY <1>1, <1>2, <1>3, <1>4, <1>5, <1>6, StepArms DEF History, vars

\* Nothing waits for a save that nobody will make: with the history there, the file is
\* what a save would write or the save timer is armed, whatever ran while a load, a
\* save or a sign-out was waiting (conversations.ts emit, scheduleSave, hydrate, reset).
THEOREM EveryChangeIsSaved == Spec => []SaveDue
  <1>1. Init => DueInv
    BY DEF Init, DueInv
  <1>2. DueInv => SaveDue
    BY DEF DueInv, SaveDue, Settled
  <1> QED
    BY <1>1, <1>2, DueStep, ConvAlways, PTL DEF Spec

-----------------------------------------------------------------------------
(* Downloads. *)

Loads(js, t, id) == \E j \in js : j.kind \in {"load", "loadsave"} /\ j.thread = t /\ j.id = id

\* What a bubble shows as loading has its download; what is saved is never loading,
\* so the history that hydrate merges needs none.
LoadInv ==
    /\ ~raced => \A t \in Threads : \A i \in 1..Len(Msgs(convs, t)) :
           Msgs(convs, t)[i].mediaState = "loading" => Loads(jobs, t, Msgs(convs, t)[i].id)
    /\ \A b \in {read, disk} : b # NoBlob =>
           \A t \in Threads : \A i \in 1..Len(Msgs(b.convs, t)) :
               Msgs(b.convs, t)[i].mediaState # "loading"

\* The step begins no download, or only with a job.
Calm(m, n) == n.mediaState = "loading" => m.mediaState = "loading"

CalmBut(t, S) ==
    \A s \in Threads : \A i \in 1..Len(Msgs(convs, s)) :
        (s = t /\ i \in S) \/ Calm(Msgs(convs, s)[i], Msgs(convs', s)[i])

\* No download ends.
KeepsLoads == \A j \in jobs : j.kind \in {"load", "loadsave"} => j \in jobs'

\* The changes of a message that begin no download.
LEMMA CalmChanges ==
    ASSUME NEW m \in Message
    PROVE  /\ Calm(m, WithRef(m)) /\ Calm(m, InError(m)) /\ Calm(m, Ready(m)) /\ Calm(m, OnDisk(m))
           /\ InError(m).mediaState = "error" /\ Ready(m).mediaState = "ready"
           /\ Bare(m).mediaState = "none"
           /\ \A b : Calm(m, [m EXCEPT !.readSent = b]) /\ Calm(m, [m EXCEPT !.marks = b])
                     /\ Calm(m, [m EXCEPT !.status = b])
  <1>1. WithRef(m).mediaState = m.mediaState /\ OnDisk(m).mediaState = m.mediaState
        /\ InError(m).mediaState = "error"
    BY DEF Message, WithRef, OnDisk, InError
  <1>2. Ready(m).mediaState = "ready" /\ Bare(m).mediaState = "none"
    BY Zenon DEF Message, Ready, Bare
  <1>3. \A b : /\ [m EXCEPT !.readSent = b].mediaState = m.mediaState
               /\ [m EXCEPT !.marks = b].mediaState = m.mediaState
               /\ [m EXCEPT !.status = b].mediaState = m.mediaState
    BY DEF Message
  <1> QED
    BY <1>1, <1>2, <1>3 DEF Calm

\* Thread t gets the messages ns: those outside S begin no download.
LEMMA PutCalm ==
    ASSUME convs \in Table, NEW t \in Threads, NEW ns \in Seq(Message), NEW unread \in Nat,
           NEW group \in BOOLEAN, Put(t, ns, unread, group), NEW S,
           \A i \in 1..Len(Messages(t)) : i \in S \/ Calm(Messages(t)[i], ns[i])
    PROVE  CalmBut(t, S)
  <1>1. /\ Msgs(convs', t) = ns /\ Messages(t) = Msgs(convs, t)
        /\ \A s \in Threads \ {t} : Msgs(convs', s) = Msgs(convs, s)
    BY PutIs, EnsureTyped
  <1> QED
    BY <1>1 DEF CalmBut, Calm

\* A message outside S is changed alone.
LEMMA OneCalm ==
    ASSUME convs \in Table, NEW t \in Threads, NEW i \in 1..Len(Messages(t)), NEW n \in Message,
           PutMessages(t, [Messages(t) EXCEPT ![i] = n]), NEW S, i \in S \/ Calm(Messages(t)[i], n)
    PROVE  CalmBut(t, S) /\ Msgs(convs', t)[i] = n
  <1> DEFINE ns == [Messages(t) EXCEPT ![i] = n]
  <1>1. ns \in Seq(Message) /\ \A k \in 1..Len(Messages(t)) : ns[k] = IF k = i THEN n ELSE Messages(t)[k]
    BY EnsureTyped, ExceptSeq
  <1>2. Put(t, ns, Ensure(t).unread, Ensure(t).group)
    BY DEF PutMessages
  <1> HIDE DEF ns
  <1>3. \A k \in 1..Len(Messages(t)) : k \in S \/ Calm(Messages(t)[k], ns[k])
    BY <1>1 DEF Calm
  <1> QED
    BY <1>1, <1>2, <1>3, EnsureTyped, PutCalm, PutIs

\* The invariant is kept when messages outside S begin no download, and those in S
\* have theirs, and no download ends.
LEMMA CalmKeeps ==
    ASSUME ConvInv, LoadInv, EditStep, KeepsLoads, NEW t, NEW S, CalmBut(t, S),
           \A i \in 1..Len(Msgs(convs, t)) : i \in S => Loads(jobs', t, Msgs(convs, t)[i].id)
    PROVE  LoadInv'
  <1>1. \A s \in Threads : /\ Len(Msgs(convs', s)) = Len(Msgs(convs, s))
                           /\ \A i \in 1..Len(Msgs(convs, s)) : Msgs(convs', s)[i].id = Msgs(convs, s)[i].id
    BY Basics, TableTyped, EditedLen DEF EditStep, Edit
  <1>2. \A s, id : Loads(jobs, s, id) => Loads(jobs', s, id)
    BY DEF KeepsLoads, Loads
  <1>3. UNCHANGED <<read, disk, raced>>
    BY DEF EditStep
  <1>4. ASSUME ~raced, NEW s \in Threads, NEW i \in 1..Len(Msgs(convs', s)),
               Msgs(convs', s)[i].mediaState = "loading"
        PROVE  Loads(jobs', s, Msgs(convs', s)[i].id)
    <2>1. i \in 1..Len(Msgs(convs, s)) /\ Msgs(convs', s)[i].id = Msgs(convs, s)[i].id
      BY <1>1
    <2>2. CASE s = t /\ i \in S
      BY <2>1, <2>2
    <2>3. CASE Calm(Msgs(convs, s)[i], Msgs(convs', s)[i])
      BY <1>2, <1>4, <2>1, <2>3 DEF Calm, LoadInv
    <2> QED
      BY <2>1, <2>2, <2>3 DEF CalmBut
  <1> QED
    BY <1>3, <1>4 DEF LoadInv

LEMMA SameCalm ==
    ASSUME convs' = convs, NEW t
    PROVE  CalmBut(t, {})
BY DEF CalmBut, Calm

LEMMA PatchCalm ==
    ASSUME convs \in Table, NEW t \in Threads, NEW id,
           \/ Patch(t, id, "media") \/ Patch(t, id, "error") \/ Patch(t, id, "ready")
           \/ Patch(t, id, "saved")
    PROVE  CalmBut(t, {})
  <1>1. CASE UNCHANGED convs
    BY <1>1, SameCalm
  <1>2. ASSUME NEW i \in Find(t, id), NEW n, PutMessages(t, [Messages(t) EXCEPT ![i] = n]),
               n \in {WithRef(Messages(t)[i]), InError(Messages(t)[i]), Ready(Messages(t)[i]),
                      OnDisk(Messages(t)[i])}
        PROVE  CalmBut(t, {})
    <2>1. i \in 1..Len(Messages(t)) /\ Messages(t)[i] \in Message
      BY FindIn
    <2>2. n \in Message /\ Calm(Messages(t)[i], n)
      BY <1>2, <2>1, EditsKeep, CalmChanges DEF Kept
    <2> QED
      BY <1>2, <2>1, <2>2, OneCalm
  <1> QED
    BY <1>1, <1>2 DEF Patch, Changed

LEMMA StatusCalm ==
    ASSUME convs \in Table, NEW u, NEW s \in Ticks, ApplyStatus(u, s)
    PROVE  \E t : CalmBut(t, {})
  <1>1. CASE UNCHANGED convs
    BY <1>1, SameCalm
  <1>2. ASSUME NEW t \in Threads, NEW i \in Raises(t, u, s), SetStatus(t, i, s)
        PROVE  CalmBut(t, {})
    <2> DEFINE n == [Messages(t)[i] EXCEPT !.status = s]
    <2>1. i \in 1..Len(Messages(t)) /\ Messages(t)[i] \in Message
          /\ Rank[s] > Rank[Messages(t)[i].status]
      BY EnsureTyped, ElementOfSeq DEF Raises
    <2>2. n \in Message /\ Calm(Messages(t)[i], n)
      BY <2>1, EditsKeep, CalmChanges DEF Kept
    <2>3. PutMessages(t, [Messages(t) EXCEPT ![i] = n])
      BY <1>2 DEF SetStatus
    <2> HIDE DEF n
    <2> QED
      BY <2>1, <2>2, <2>3, OneCalm
  <1> QED
    BY <1>1, <1>2 DEF ApplyStatus

LEMMA MarkCalm ==
    ASSUME convs \in Table, NEW t \in Threads,
           \/ \E online \in BOOLEAN : MarkRead(t, online)
           \/ \E id \in 0..MaxMsgs : ToggleStar(t, id) \/ DismissScamWarning(t, id)
    PROVE  CalmBut(t, {})
  <1> DEFINE ms == Messages(t)
  <1>0. /\ ms \in Seq(Message) /\ DOMAIN ms = 1..Len(ms)
        /\ Ensure(t).unread \in Nat /\ Ensure(t).group \in BOOLEAN
        /\ \A i \in 1..Len(ms) : ms[i] \in Message
    BY EnsureTyped, ElementOfSeq
  <1>1. ASSUME NEW ns, DOMAIN ns = DOMAIN ms, ns = [i \in DOMAIN ms |-> ns[i]],
               \A i \in 1..Len(ms) : Kept(ms[i], ns[i]) /\ Calm(ms[i], ns[i]),
               NEW unread \in Nat, Put(t, ns, unread, Ensure(t).group)
        PROVE  CalmBut(t, {})
    <2>1. ns \in Seq(Message)
      BY <1>0, <1>1, EditedAll DEF Edited
    <2> QED
      BY <1>0, <1>1, <2>1, PutCalm
  <1>2. ASSUME NEW online \in BOOLEAN, MarkRead(t, online)
        PROVE  CalmBut(t, {})
    <2> DEFINE todo == {i \in DOMAIN ms : Unreceipted(ms[i])}
               ns == [i \in DOMAIN ms |-> [ms[i] EXCEPT !.readSent = (ms[i].readSent \/ i \in todo)]]
    <2>1. Put(t, ns, 0, Ensure(t).group)
      BY <1>2 DEF MarkRead
    <2>2. ASSUME NEW i \in 1..Len(ms) PROVE Kept(ms[i], ns[i]) /\ Calm(ms[i], ns[i])
      BY <1>0, EditsKeep, CalmChanges
    <2>3. DOMAIN ns = DOMAIN ms /\ ns = [i \in DOMAIN ms |-> ns[i]]
      OBVIOUS
    <2> HIDE DEF ns
    <2> QED
      BY <1>1, <2>1, <2>2, <2>3
  <1>3. ASSUME NEW id, ToggleStar(t, id) \/ DismissScamWarning(t, id)
        PROVE  CalmBut(t, {})
    <2> DEFINE flip(m) == [m EXCEPT !.marks = IF "starred" \in m.marks THEN m.marks \ {"starred"}
                                              ELSE m.marks \cup {"starred"}]
               mark(m) == [m EXCEPT !.marks = m.marks \cup {"dismissed"}]
               fs == [i \in DOMAIN ms |-> IF ms[i].id = id THEN flip(ms[i]) ELSE ms[i]]
               gs == [i \in DOMAIN ms |-> IF ms[i].id = id THEN mark(ms[i]) ELSE ms[i]]
    <2>1. \/ Put(t, fs, Ensure(t).unread, Ensure(t).group)
          \/ Put(t, gs, Ensure(t).unread, Ensure(t).group)
      BY <1>3 DEF ToggleStar, DismissScamWarning, PutMessages
    <2>2. ASSUME NEW m \in Message
          PROVE  Kept(m, flip(m)) /\ Calm(m, flip(m)) /\ Kept(m, mark(m)) /\ Calm(m, mark(m))
      <3>1. m.marks \in SUBSET {"starred", "dismissed"}
        BY DEF Message
      <3> QED
        BY <3>1, EditsKeep, CalmChanges
    <2> HIDE DEF flip, mark
    <2>3. ASSUME NEW i \in 1..Len(ms)
          PROVE  Kept(ms[i], fs[i]) /\ Calm(ms[i], fs[i]) /\ Kept(ms[i], gs[i]) /\ Calm(ms[i], gs[i])
      BY <1>0, <2>2, KeptSame DEF Calm
    <2>4. /\ DOMAIN fs = DOMAIN ms /\ fs = [i \in DOMAIN ms |-> fs[i]]
          /\ DOMAIN gs = DOMAIN ms /\ gs = [i \in DOMAIN ms |-> gs[i]]
      OBVIOUS
    <2> HIDE DEF fs, gs
    <2> QED
      BY <1>0, <1>1, <2>1, <2>3, <2>4
  <1> QED
    BY <1>2, <1>3

\* The steps that begin and end no download.
LEMMA QuietKeeps ==
    ASSUME ConvInv, LoadInv, EditStep, NEW t, CalmBut(t, {}), KeepsLoads
    PROVE  LoadInv'
BY CalmKeeps

LEMMA QuietStep ==
    ASSUME ConvInv, LoadInv,
           \/ \E p \in Peers : EnsurePeer(p)
           \/ \E g \in Groups : CreateGroup(g)
           \/ \E t \in Threads : \/ \E online \in BOOLEAN : MarkRead(t, online)
                                 \/ \E id \in 0..MaxMsgs : ToggleStar(t, id) \/ DismissScamWarning(t, id)
                                                           \/ SaveMedia(t, id)
           \/ \E u \in wire : Ack(u) \/ \E s \in {"delivered", "read"} : StatusUpdate(u, s)
           \/ \E j \in jobs : \/ Uploaded(j) \/ MediaSent(j) \/ SendMediaFails(j) \/ Written(j)
                              \/ WriteFails(j)
    PROVE  LoadInv'
  <1>0. convs \in Table
    BY Basics
  <1>1. ASSUME NEW p \in Peers, EnsurePeer(p)
        PROVE  LoadInv'
    <2>1. /\ p \in Threads /\ convs[p] = NoConv /\ Put(p, <<>>, Ensure(p).unread, Ensure(p).group)
          /\ jobs' = jobs
      BY <1>1 DEF EnsurePeer, PutMessages, Threads
    <2>2. Len(Messages(p)) = 0 /\ <<>> \in Seq(Message)
      BY <2>1, EmptySeq DEF Messages, Ensure, Fresh
    <2>3. CalmBut(p, {})
      BY <1>0, <2>1, <2>2, EnsureTyped, PutCalm
    <2> QED
      BY <1>1, <2>1, <2>3, ThreadStep, QuietKeeps DEF KeepsLoads
  <1>2. ASSUME NEW g \in Groups, CreateGroup(g)
        PROVE  LoadInv'
    <2>1. /\ g \in Threads /\ Put(g, Messages(g), Ensure(g).unread, TRUE) /\ jobs' = jobs
      BY <1>2 DEF CreateGroup, Threads
    <2>2. CalmBut(g, {})
      BY <1>0, <2>1, EnsureTyped, PutCalm DEF Calm
    <2> QED
      BY <1>2, <2>1, <2>2, ThreadStep, QuietKeeps DEF KeepsLoads
  <1>3. ASSUME NEW t \in Threads,
               \/ \E online \in BOOLEAN : MarkRead(t, online)
               \/ \E id \in 0..MaxMsgs : ToggleStar(t, id) \/ DismissScamWarning(t, id)
        PROVE  LoadInv'
    <2>1. CalmBut(t, {}) /\ EditStep
      BY <1>0, <1>3, MarkCalm, MarkStep
    <2>2. jobs' = jobs
      BY <1>3 DEF MarkRead, ToggleStar, DismissScamWarning
    <2> QED
      BY <2>1, <2>2, QuietKeeps DEF KeepsLoads
  <1>4. ASSUME NEW t \in Threads, NEW id \in 0..MaxMsgs, SaveMedia(t, id)
        PROVE  LoadInv'
    <2>1. convs' = convs /\ jobs \subseteq jobs'
      BY <1>4 DEF SaveMedia
    <2> QED
      BY <1>4, <2>1, SameCalm, FetchStep, QuietKeeps DEF KeepsLoads
  <1>5. ASSUME NEW u \in wire, Ack(u) \/ \E s \in {"delivered", "read"} : StatusUpdate(u, s)
        PROVE  LoadInv'
    <2>1. jobs' = jobs /\ \E s \in Ticks : ApplyStatus(u, s)
      BY <1>5 DEF Ack, StatusUpdate, Ticks
    <2>2. PICK t : CalmBut(t, {})
      BY <1>0, <2>1, StatusCalm
    <2> QED
      BY <1>5, <2>1, <2>2, TickStep, QuietKeeps DEF KeepsLoads
  <1>6. ASSUME NEW j \in jobs,
               Uploaded(j) \/ MediaSent(j) \/ SendMediaFails(j) \/ Written(j) \/ WriteFails(j)
        PROVE  LoadInv'
    <2>1. CalmBut(j.thread, {})
      BY <1>0, <1>6, Basics, SameCalm, PatchCalm
      DEF Uploaded, MediaSent, SendMediaFails, Written, WriteFails
    <2>2. jobs \ {j} \subseteq jobs' /\ j.kind \notin {"load", "loadsave"}
      BY <1>6 DEF Uploaded, MediaSent, SendMediaFails, Written, WriteFails
    <2> QED
      BY <1>6, <2>1, <2>2, TransferStep, QuietKeeps DEF KeepsLoads
  <1> QED
    BY <1>1, <1>2, <1>3, <1>4, <1>5, <1>6

\* loadPendingMedia, downloadMedia and saveMedia begin downloads, each with its job.
LEMMA BeginKeeps ==
    ASSUME ConvInv, LoadInv, NEW t \in Threads,
           \/ LoadPendingMedia(t)
           \/ \E id \in 0..MaxMsgs : DownloadMedia(t, id, "load") \/ DownloadMedia(t, id, "loadsave")
    PROVE  LoadInv'
  <1> DEFINE ms == Messages(t)
  <1>0. /\ convs \in Table /\ ms \in Seq(Message) /\ DOMAIN ms = 1..Len(ms) /\ ms = Msgs(convs, t)
        /\ Ensure(t).unread \in Nat /\ Ensure(t).group \in BOOLEAN
        /\ \A i \in 1..Len(ms) : ms[i] \in Message
    BY Basics, EnsureTyped, ElementOfSeq
  <1>1. EditStep
    BY FetchStep
  <1>2. CASE LoadPendingMedia(t)
    <2>1. PICK todo \in SUBSET DOMAIN ms :
              LET hit == UNION {Find(t, ms[i].id) : i \in todo}
              IN  /\ PutMessages(t, [i \in DOMAIN ms |-> IF i \in hit THEN Loading(ms[i]) ELSE ms[i]])
                  /\ jobs' = jobs \cup {Job("load", t, ms[i]) : i \in todo}
      BY <1>2 DEF LoadPendingMedia
    <2> DEFINE hit == UNION {Find(t, ms[i].id) : i \in todo}
               ns == [i \in DOMAIN ms |-> IF i \in hit THEN Loading(ms[i]) ELSE ms[i]]
    <2>2. Put(t, ns, Ensure(t).unread, Ensure(t).group)
      BY <2>1 DEF PutMessages
    <2>3. ASSUME NEW i \in 1..Len(ms), i \in hit
          PROVE  Loads(jobs', t, ms[i].id)
      <3>1. PICK k \in todo : i \in Find(t, ms[k].id)
        BY <2>3
      <3>2. ms[i].id = ms[k].id
        BY <1>0, <3>1, FindIn
      <3>3. Job("load", t, ms[k]) \in jobs'
        BY <2>1
      <3>4. LET j == Job("load", t, ms[k]) IN j.kind = "load" /\ j.thread = t /\ j.id = ms[k].id
        BY DEF Job
      <3> QED
        BY <3>2, <3>3, <3>4 DEF Loads
    <2> HIDE DEF hit
    <2>4. ASSUME NEW i \in 1..Len(ms)
          PROVE  Kept(ms[i], ns[i]) /\ (i \in hit \/ Calm(ms[i], ns[i]))
      BY <1>0, EditsKeep, KeptSame DEF Calm
    <2>5. DOMAIN ns = DOMAIN ms /\ ns = [i \in DOMAIN ms |-> ns[i]]
      OBVIOUS
    <2> HIDE DEF ns
    <2>6. ns \in Seq(Message)
      BY <1>0, <2>4, <2>5, EditedAll DEF Edited
    <2>7. CalmBut(t, hit)
      BY <1>0, <2>2, <2>4, <2>6, PutCalm
    <2>8. KeepsLoads
      BY <2>1 DEF KeepsLoads
    <2> QED
      BY <1>0, <1>1, <2>3, <2>7, <2>8, CalmKeeps
  <1>3. ASSUME NEW id, NEW k \in {"load", "loadsave"}, DownloadMedia(t, id, k)
        PROVE  LoadInv'
    <2>1. PICK i \in Find(t, id) : jobs' = jobs \cup {Job(k, t, ms[i])}
      BY <1>3 DEF DownloadMedia
    <2>2. PICK l \in Find(t, id) : PutMessages(t, [ms EXCEPT ![l] = Loading(ms[l])])
      BY <1>3, <2>1 DEF DownloadMedia, Patch, Changed
    <2>3. /\ l \in 1..Len(ms) /\ Loading(ms[l]) \in Message /\ ms[l].id = id /\ ms[i].id = id
      <3>1. l \in 1..Len(ms) /\ ms[l] \in Message /\ ms[l].id = id /\ ms[i].id = id
        BY <1>0, <2>1, <2>2, FindIn
      <3>2. Kept(ms[l], Loading(ms[l]))
        BY <3>1, EditsKeep
      <3> QED
        BY <3>1, <3>2 DEF Kept
    <2>4. CalmBut(t, {l})
      BY <1>0, <2>2, <2>3, OneCalm
    <2>5. LET j == Job(k, t, ms[i]) IN j.kind = k /\ j.thread = t /\ j.id = ms[i].id
      BY DEF Job
    <2>6. Loads(jobs', t, ms[l].id) /\ KeepsLoads
      BY <2>1, <2>3, <2>5 DEF Loads, KeepsLoads
    <2> QED
      BY <1>0, <1>1, <2>4, <2>6, CalmKeeps
  <1> QED
    BY <1>2, <1>3

\* A download that ends, well or not, patches the one message with its id: no other
\* message shows as loading for it.
LEMMA EndKeeps ==
    ASSUME ConvInv, LoadInv, NEW j \in jobs, Loaded(j) \/ LoadFails(j)
    PROVE  LoadInv'
  <1> DEFINE t == j.thread
             ms == Messages(t)
  <1>0. t \in Threads /\ convs \in Table /\ ms = Msgs(convs, t) /\ DOMAIN ms = 1..Len(ms) /\ EditStep
    BY Basics, EnsureTyped, TransferStep
  <1>1. jobs \ {j} \subseteq jobs' /\ (Patch(t, j.id, "ready") \/ Patch(t, j.id, "error"))
    BY DEF Loaded, LoadFails
  <1>2. CalmBut(t, {})
    BY <1>0, <1>1, PatchCalm
  <1>3. \A s \in Threads : /\ Len(Msgs(convs', s)) = Len(Msgs(convs, s))
                           /\ \A i \in 1..Len(Msgs(convs, s)) : Msgs(convs', s)[i].id = Msgs(convs, s)[i].id
    BY <1>0, TableTyped, EditedLen DEF EditStep, Edit
  <1>4. UNCHANGED <<read, disk, raced>>
    BY <1>0 DEF EditStep
  <1>5. ASSUME ~raced, NEW i \in 1..Len(ms), ms[i].id = j.id
        PROVE  Msgs(convs', t)[i].mediaState # "loading"
    <2>1. \A k \in 1..Len(ms) : ms[k].id = j.id => k = i
      BY <1>0, <1>5 DEF ConvInv, Numbered, Numbers
    <2>2. i \in Find(t, j.id)
      BY <1>0, <1>5, <2>1 DEF Find
    <2>3. \A l \in Find(t, j.id) : l = i
      BY <1>0, <2>1 DEF Find
    <2>4. PICK n \in {Ready(ms[i]), InError(ms[i])} : PutMessages(t, [ms EXCEPT ![i] = n])
      BY <1>1, <2>2, <2>3 DEF Patch, Changed
    <2>5. ms[i] \in Message
      BY <1>0, <2>2, FindIn
    <2>6. Kept(ms[i], n) /\ n.mediaState \in {"ready", "error"}
      BY <2>4, <2>5, EditsKeep, CalmChanges
    <2>7. n \in Message /\ Calm(ms[i], n)
      BY <2>6 DEF Kept, Calm
    <2>8. Msgs(convs', t)[i] = n
      BY <1>0, <2>4, <2>7, OneCalm
    <2> QED
      BY <2>6, <2>8
  <1>6. ASSUME ~raced, NEW s \in Threads, NEW i \in 1..Len(Msgs(convs', s)),
               Msgs(convs', s)[i].mediaState = "loading"
        PROVE  Loads(jobs', s, Msgs(convs', s)[i].id)
    <2>1. i \in 1..Len(Msgs(convs, s)) /\ Msgs(convs', s)[i].id = Msgs(convs, s)[i].id
      BY <1>3
    <2>2. Msgs(convs, s)[i].mediaState = "loading"
      BY <1>2, <1>6, <2>1 DEF CalmBut, Calm
    <2>3. PICK k \in jobs : /\ k.kind \in {"load", "loadsave"} /\ k.thread = s
                            /\ k.id = Msgs(convs, s)[i].id
      BY <1>6, <2>1, <2>2 DEF LoadInv, Loads
    <2>4. k # j
      BY <1>0, <1>5, <1>6, <2>1, <2>3
    <2> QED
      BY <1>1, <2>1, <2>3, <2>4 DEF Loads
  <1> QED
    BY <1>4, <1>6 DEF LoadInv

\* A message that arrives as loading comes with its download.
LEMMA GrowLoads ==
    ASSUME ConvInv, LoadInv, NEW t \in Threads, NEW m, GrowStep(t, m)
    PROVE  LoadInv'
  <1> DEFINE ms == Msgs(convs, t)
  <1>1. /\ UNCHANGED <<read, disk>> /\ (raced => raced') /\ jobs \subseteq jobs'
        /\ (m.mediaState = "loading" => Job("load", t, m) \in jobs') /\ m \in Message
        /\ Msgs(convs', t) = Append(ms, m)
        /\ \A s \in Threads \ {t} : Msgs(convs', s) = Msgs(convs, s)
    BY DEF GrowStep, Grows, Made
  <1>2. /\ Len(ms) \in Nat /\ Len(Append(ms, m)) = Len(ms) + 1 /\ Append(ms, m)[Len(ms) + 1] = m
        /\ \A i \in 1..Len(ms) : Append(ms, m)[i] = ms[i]
    BY <1>1, Basics, TableTyped, AppendProperties, LenProperties
  <1>3. \A s, id : Loads(jobs, s, id) => Loads(jobs', s, id)
    BY <1>1 DEF Loads
  <1>4. m.mediaState = "loading" => Loads(jobs', t, m.id)
    <2>1. LET j == Job("load", t, m) IN j.kind = "load" /\ j.thread = t /\ j.id = m.id
      BY DEF Job
    <2> QED
      BY <1>1, <2>1 DEF Loads
  <1>5. ASSUME ~raced', NEW s \in Threads, NEW i \in 1..Len(Msgs(convs', s)),
               Msgs(convs', s)[i].mediaState = "loading"
        PROVE  Loads(jobs', s, Msgs(convs', s)[i].id)
    <2>1. CASE s = t /\ i = Len(ms) + 1
      BY <1>1, <1>2, <1>4, <1>5, <2>1
    <2>2. CASE i \in 1..Len(Msgs(convs, s)) /\ Msgs(convs', s)[i] = Msgs(convs, s)[i]
      BY <1>1, <1>3, <1>5, <2>2 DEF LoadInv
    <2> QED
      BY <1>1, <1>2, <2>1, <2>2
  <1> QED
    BY <1>1, <1>5 DEF LoadInv

LEMMA HistoryLoads ==
    ASSUME ConvInv, LoadInv, History
    PROVE  LoadInv'
  <1>0. (\A t \in Threads : Msgs(NoConvs, t) = <<>>) /\ Len(<<>>) = 0
    BY NoConvsEmpty, EmptySeq
  <1>1. CASE \/ Start \/ HydrateFails \/ NativeReset \/ (Hydrate /\ read = NoBlob)
    <2>1. UNCHANGED <<convs, jobs, raced>> /\ {read', disk'} \subseteq {read, disk, NoBlob}
      BY <1>1 DEF Start, HydrateFails, NativeReset, Hydrate, diskVars, loadVars, countVars
    <2> QED
      BY <2>1 DEF LoadInv
  <1>2. CASE Hydrate /\ read # NoBlob
    <2>1. UNCHANGED <<jobs, raced, disk>> /\ read' = NoBlob
      BY <1>2 DEF Hydrate, diskVars
    <2>2. ASSUME ~raced, NEW t \in Threads, NEW i \in 1..Len(Msgs(convs', t))
          PROVE  Msgs(convs', t)[i].mediaState # "loading"
      <3>1. Msgs(convs', t) = Msgs(read.convs, t) \o <<>>
        BY <1>2, <2>2, HydrateStep DEF ConvInv, HistoryApart
      <3>2. Msgs(read.convs, t) \in Seq(Message)
        BY <1>2, SavesTyped, TableTyped DEF ConvInv, TypeOK
      <3>3. Msgs(convs', t) = Msgs(read.convs, t)
        BY <3>1, <3>2, ConcatEmptySeq
      <3> QED
        BY <1>2, <3>3 DEF LoadInv
    <2> QED
      BY <2>1, <2>2 DEF LoadInv
  <1>3. CASE Save
    <2>1. UNCHANGED <<convs, jobs, raced, read>> /\ disk' \in {Blob, disk}
      BY <1>3 DEF Save, Write, countVars, loadVars
    <2>2. ASSUME NEW t \in Threads, NEW i \in 1..Len(Msgs(Blob.convs, t))
          PROVE  Msgs(Blob.convs, t)[i].mediaState # "loading"
      <3>1. /\ Len(Msgs(Blob.convs, t)) = Len(Msgs(convs, t)) /\ Msgs(convs, t)[i] \in Message
            /\ Msgs(Blob.convs, t)[i] = Bare(Msgs(convs, t)[i])
        BY Basics, BlobTyped, TableTyped, EditedLen, ElementOfSeq
      <3> QED
        BY <3>1, CalmChanges
    <2> QED
      BY <2>1, <2>2 DEF LoadInv
  <1>4. CASE Reset
    <2>1. convs' = NoConvs /\ read' = read /\ disk' \in {disk, [counter |-> 0, convs |-> NoConvs]}
      BY <1>4 DEF Reset, Write, loadVars
    <2> QED
      BY <1>0, <2>1 DEF LoadInv
  <1>5. CASE Kill
    BY <1>0, <1>5 DEF Kill, LoadInv
  <1> QED
    BY <1>1, <1>2, <1>3, <1>4, <1>5 DEF History

LEMMA LoadStep ==
    ASSUME ConvInv, LoadInv, [Next]_vars
    PROVE  LoadInv'
  <1>1. CASE UNCHANGED vars
    BY <1>1 DEF vars, LoadInv
  <1>2. CASE Inbound \/ \E g \in Groups : CreateGroup(g)
    BY <1>2, QuietStep, ReceiveGrows, GrowLoads DEF Inbound
  <1>3. ASSUME NEW t \in Threads, Chat(t)
        PROVE  LoadInv'
    BY <1>3, QuietStep, BeginKeeps, SendGrows, GrowLoads DEF Chat
  <1>4. CASE Background
    BY <1>4, QuietStep, EndKeeps DEF Background
  <1> QED
    BY <1>1, <1>2, <1>3, <1>4, HistoryLoads DEF Next

\* A download that a bubble shows is under way, unless ids may clash: no picture is
\* stuck as loading, which loadPendingMedia would skip for good (loadMedia, hydrate).
THEOREM LoadingIsUnderWay == Spec => []LoadingHasJob
  <1>1. Init => LoadInv
    BY NoConvsEmpty, EmptySeq DEF Init, LoadInv
  <1>2. ConvInv /\ LoadInv => LoadingHasJob
    <2> SUFFICES ASSUME ConvInv, LoadInv, ~raced, NEW t \in Threads, NEW m \in In(convs, t),
                        m.mediaState = "loading"
                 PROVE  \E j \in jobs : j.kind \in {"load", "loadsave"} /\ j.thread = t /\ j.id = m.id
      BY DEF LoadingHasJob
    <2>1. DOMAIN Msgs(convs, t) = 1..Len(Msgs(convs, t))
      BY Basics, TableTyped, LenProperties
    <2>2. PICK i \in 1..Len(Msgs(convs, t)) : m = Msgs(convs, t)[i]
      BY <2>1 DEF In, Msgs
    <2> QED
      BY <2>2 DEF LoadInv, Loads
  <1> QED
    BY <1>1, <1>2, LoadStep, ConvAlways, PTL DEF Spec
=============================================================================
