--------------------------- MODULE ClientProofs ---------------------------
(***************************************************************************)
(* Proofs about packages/client: the types of the tokens and attachments,  *)
(* the token of the user, that Media implements MediaPromise; and, of the  *)
(* send path, that what is sent can be read and no delivered tick is       *)
(* false.                                                                  *)
(***************************************************************************)
EXTENDS Media, Sending, FiniteSetTheorems, TLAPS

-----------------------------------------------------------------------------
(* Types. *)

CallType == [at : {"idle", "sent", "refresh"}, kind : Kinds,
             bearer : Token \union {None}, retried : BOOLEAN]

\* A call that is over, and one that is sent or waits, have the type of a call.
LEMMA CallTypes ==
    ASSUME TokensTypeOK
    PROVE  /\ NoCall \in CallType
           /\ \A kind \in Kinds, bearer \in Token \union {None}, r \in BOOLEAN :
                  /\ [at |-> "sent", kind |-> kind, bearer |-> bearer, retried |-> r] \in CallType
                  /\ [at |-> "refresh", kind |-> kind, bearer |-> bearer, retried |-> r] \in CallType
  BY DEF NoCall, CallType, Kinds

\* A token just issued is a token.
LEMMA NewToken ==
    ASSUME TokensTypeOK, NEW a \in Accounts
    PROVE  New(a) \in Token
  BY DEF TokensTypeOK, New, Token

\* Every step of the directory client keeps its types.
LEMMA TokensTypeStep ==
    ASSUME TokensTypeOK, TokensNext
    PROVE  TokensTypeOK'
  <1>0. call \in [Calls -> CallType]
    BY DEF TokensTypeOK, CallType
  <1>r. ASSUME NEW c \in Calls, NEW kind \in Kinds, Refresh(c, kind)
        PROVE  call' \in [Calls -> CallType] /\ refreshing' \in Accounts \union {None}
    BY <1>0, <1>r, CallTypes DEF Refresh, TokensTypeOK
  <1>e. ASSUME NEW c \in Calls, Ends(c)
        PROVE  call' \in [Calls -> CallType]
    BY <1>0, <1>e, CallTypes DEF Ends
  <1>u. ASSUME NEW bearer \in Token
        PROVE  Resumed(bearer) \in [Calls -> CallType]
    BY <1>0, CallTypes DEF Resumed, Kinds
  <1>1. CASE \E a \in Accounts : SubmitOtp(a)
    <2>1. PICK a \in Accounts : SubmitOtp(a)
      BY <1>1
    <2>2. issued' \in 0..MaxTokens
      BY <2>1, TokensAssumption DEF SubmitOtp, TokensTypeOK
    <2> QED
      BY <2>1, <2>2, NewToken DEF SubmitOtp, Crossing, TokensTypeOK
  <1>2. CASE \E c \in Calls, kind \in Kinds : Begin(c, kind)
    <2>1. PICK c \in Calls, kind \in Kinds : Begin(c, kind)
      BY <1>2
    <2>2. call' \in [Calls -> CallType]
      BY <2>1, <1>0, CallTypes DEF Begin, TokensTypeOK
    <2> QED
      BY <2>1, <2>2 DEF Begin, TokensTypeOK, CallType
  <1>3. CASE \E c \in Calls : EnsureAccess(c)
    <2>1. PICK c \in Calls : EnsureAccess(c)
      BY <1>3
    <2>2. call' \in [Calls -> CallType] /\ refreshing' \in Accounts \union {None}
      BY <2>1, <1>r DEF EnsureAccess, Kinds
    <2> QED
      BY <2>1, <2>2 DEF EnsureAccess, TokensTypeOK, CallType
  <1>4. CASE \E c \in Calls : Accepted(c)
    <2>1. PICK c \in Calls : Accepted(c)
      BY <1>4
    <2>2. call' \in [Calls -> CallType]
      BY <2>1, <1>e DEF Accepted
    <2> QED
      BY <2>1, <2>2 DEF Accepted, TokensTypeOK, CallType
  <1>5. CASE \E c \in Calls : Unauthorized(c)
    <2>1. PICK c \in Calls : Unauthorized(c)
      BY <1>5
    <2>2. call' \in [Calls -> CallType] /\ refreshing' \in Accounts \union {None}
      BY <2>1, <1>r, <1>e DEF Unauthorized, Kinds, TokensTypeOK
    <2> QED
      BY <2>1, <2>2 DEF Unauthorized, TokensTypeOK, CallType
  <1>6. CASE \E c \in Calls : Lost(c)
    <2>1. PICK c \in Calls : Lost(c)
      BY <1>6
    <2>2. call' \in [Calls -> CallType]
      BY <2>1, <1>e DEF Lost
    <2> QED
      BY <2>1, <2>2 DEF Lost, TokensTypeOK, CallType
  <1>7. CASE RefreshOK
    <2>1. refreshing \in Accounts /\ New(refreshing) \in Token
      BY <1>7, NewToken DEF RefreshOK, TokensTypeOK
    <2>2. issued' \in 0..MaxTokens
      BY <1>7, TokensAssumption DEF RefreshOK, TokensTypeOK
    <2>3. call' \in [Calls -> CallType]
      BY <1>7, <2>1, <1>u DEF RefreshOK
    <2> QED
      BY <1>7, <2>1, <2>2, <2>3 DEF RefreshOK, TokensTypeOK, CallType
  <1>8. CASE RefreshFails
    <2>1. call' \in [Calls -> CallType]
      BY <1>8, <1>0, CallTypes DEF RefreshFails
    <2> QED
      BY <1>8, <2>1 DEF RefreshFails, TokensTypeOK, CallType
  <1>9. CASE \E t \in live : Expire(t)
    BY <1>9 DEF Expire, TokensTypeOK
  <1> QED
    BY <1>1, <1>2, <1>3, <1>4, <1>5, <1>6, <1>7, <1>8, <1>9 DEF TokensNext, Settle

\* What is left unchanged keeps its type.
LEMMA TokensTypeStutter ==
    ASSUME TokensTypeOK, UNCHANGED tokenVars
    PROVE  TokensTypeOK'
  BY DEF TokensTypeOK, tokenVars

\* A job that asks for a URL, and one that has it, have the type of a job.
LEMMA JobTypes ==
    ASSUME TokensTypeOK
    PROVE  /\ NoJob \in Job /\ Presign \in Job
           /\ [at |-> "transfer", bearer |-> None] \in Job
           /\ [at |-> "encrypt", bearer |-> None] \in Job
  BY DEF TokensTypeOK, NoJob, Job, Presign

-----------------------------------------------------------------------------
(* The inductive invariant. *)

\* What is being uploaded was picked; a reference carries the digest of what was
\* picked; what is being downloaded has a reference.  TypeOK is not inductive
\* without it: Put stores the bytes of a pick.
Backed ==
    \A i \in Items :
        /\ up[i] # NoJob => attached[i] # None
        /\ ref[i] # None => attached[i] # None /\ ref[i].sha256 = attached[i]
        /\ down[i] # NoJob => ref[i] # None

MInv == TypeOK /\ Backed

\* decryptMedia returns nothing, or what the reference's digest names.
LEMMA DecryptsToDigest ==
    ASSUME NEW r, NEW o
    PROVE  DecryptMedia(r, o) \in {None, r.sha256}
  BY DEF DecryptMedia

\* An attachment that is encrypted has its type.
LEMMA EncryptTypes ==
    ASSUME NEW i \in Items, NEW bytes \in Data
    PROVE  /\ EncryptMedia(i, bytes).ciphertext \in Objects
           /\ EncryptMedia(i, bytes).keyMaterial.key = i
           /\ EncryptMedia(i, bytes).keyMaterial.sha256 = bytes
  BY DEF EncryptMedia, Objects

\* A reference or a stored object is not None, nor are the bytes of an attachment.
LEMMA NotNone ==
    /\ None \notin Data /\ None \notin Items
    /\ NoJob.at = "idle" /\ None \notin Reference
  BY MediaAssumption DEF NoJob, Reference

\* The initial state.
LEMMA MInvInit == Init => MInv
  <1> SUFFICES ASSUME Init PROVE MInv
    OBVIOUS
  <1>1. call \in [Calls -> CallType] /\ issued \in 0..MaxTokens
    BY TokensAssumption DEF Init, TokensInit, CallType, NoCall, Kinds
  <1>2. TokensTypeOK
    BY <1>1 DEF Init, TokensInit, TokensTypeOK, CallType
  <1>3. TypeOK
    BY <1>2, JobTypes DEF Init, TypeOK
  <1>4. Backed
    BY DEF Init, Backed
  <1> QED
    BY <1>3, <1>4 DEF MInv

\* Every step of the attachments keeps the invariant.
LEMMA MediaStep ==
    ASSUME MInv, MediaNext
    PROVE  MInv'
  <1>0. TokensTypeOK /\ TypeOK /\ Backed
    BY DEF MInv, TypeOK
  <1>1. PICK i \in Items :
            \/ \E bytes \in Data : PickMedia(i, bytes)
            \/ Encrypted(i) \/ UploadUrl(i) \/ Put(i) \/ UploadFails(i)
            \/ Download(i) \/ DownloadUrl(i) \/ Get(i) \/ DownloadFails(i)
            \/ Corrupt(i)
    BY DEF MediaNext
  <1>t. UNCHANGED tokenVars
    BY <1>1 DEF PickMedia, Encrypted, UploadUrl, Put, UploadFails, Download, DownloadUrl, Get,
                DownloadFails, Corrupt
  <1>u. TokensTypeOK'
    BY <1>0, <1>t, TokensTypeStutter
  <1>2. CASE \E bytes \in Data : PickMedia(i, bytes)
    <2>1. TypeOK'
      BY <1>0, <1>u, <1>2, JobTypes DEF PickMedia, TypeOK
    <2>2. Backed'
      BY <1>0, <1>2, NotNone DEF PickMedia, TypeOK, Backed
    <2> QED
      BY <2>1, <2>2 DEF MInv
  <1>3. CASE Encrypted(i) \/ UploadUrl(i)
    <2>1. TypeOK'
      BY <1>0, <1>u, <1>3, JobTypes DEF Encrypted, UploadUrl, TypeOK
    <2>2. up[i] # NoJob
      BY <1>3, NotNone DEF Encrypted, UploadUrl
    <2>3. Backed'
      BY <1>0, <1>3, <2>2 DEF Encrypted, UploadUrl, TypeOK, Backed
    <2> QED
      BY <2>1, <2>3 DEF MInv
  <1>4. CASE Put(i)
    <2>1. attached[i] \in Data
      BY <1>0, <1>4, NotNone DEF Put, TypeOK, Backed
    <2>2. /\ store' = [store EXCEPT ![i] = EncryptMedia(i, attached[i]).ciphertext]
          /\ ref' = [ref EXCEPT ![i] = [key |-> i, sha256 |-> attached[i], locator |-> i]]
      BY <1>4, <2>1, EncryptTypes DEF Put
    <2>3. store' \in [Items -> Objects \union {None}]
      BY <1>0, <2>1, <2>2, EncryptTypes DEF TypeOK
    <2>4. ref' \in [Items -> Reference \union {None}]
      BY <1>0, <2>1, <2>2 DEF TypeOK, Reference
    <2>5. TypeOK'
      BY <1>0, <1>u, <1>4, <2>3, <2>4, JobTypes DEF Put, TypeOK
    <2>6. Backed'
      <3>1. ref'[i] # None /\ ref'[i].sha256 = attached[i]
        BY <1>0, <2>1, <2>2, NotNone DEF TypeOK, Reference
      <3>2. attached[i] # None /\ up'[i] = NoJob /\ UNCHANGED <<attached, down>>
        BY <1>0, <1>4, <2>1, NotNone DEF Put, TypeOK
      <3>3. \A j \in Items \ {i} : ref'[j] = ref[j] /\ up'[j] = up[j]
        BY <1>0, <1>4, <2>2 DEF Put, TypeOK
      <3> QED
        BY <1>0, <3>1, <3>2, <3>3 DEF Backed
    <2> QED
      BY <2>5, <2>6 DEF MInv
  <1>5. CASE UploadFails(i)
    <2>1. attached[i] \in Data
      BY <1>0, <1>5, NotNone DEF UploadFails, TypeOK, Backed
    <2>2. store' \in [Items -> Objects \union {None}]
      BY <1>0, <1>5, <2>1, EncryptTypes DEF UploadFails, TypeOK
    <2>3. TypeOK'
      BY <1>0, <1>u, <1>5, <2>2, JobTypes DEF UploadFails, TypeOK
    <2>4. Backed'
      BY <1>0, <1>5 DEF UploadFails, TypeOK, Backed
    <2> QED
      BY <2>3, <2>4 DEF MInv
  <1>6. CASE Download(i)
    <2>1. TypeOK'
      BY <1>0, <1>u, <1>6, JobTypes DEF Download, TypeOK
    <2>2. Backed'
      BY <1>0, <1>6 DEF Download, TypeOK, Backed
    <2> QED
      BY <2>1, <2>2 DEF MInv
  <1>7. CASE DownloadUrl(i)
    <2>1. TypeOK'
      BY <1>0, <1>u, <1>7, JobTypes DEF DownloadUrl, TypeOK
    <2>2. down[i] # NoJob
      BY <1>7, NotNone DEF DownloadUrl
    <2>3. Backed'
      BY <1>0, <1>7, <2>2 DEF DownloadUrl, TypeOK, Backed
    <2> QED
      BY <2>1, <2>3 DEF MInv
  <1>8. CASE Get(i)
    <2>1. ref[i] # None /\ ref[i].sha256 = attached[i] /\ attached[i] \in Data
      BY <1>0, <1>8, NotNone DEF Get, TypeOK, Backed
    <2>2. shown' \in [Items -> Data \union {None}]
      BY <1>0, <1>8, <2>1, DecryptsToDigest DEF Get, TypeOK
    <2>3. TypeOK'
      BY <1>0, <1>u, <1>8, <2>2, JobTypes DEF Get, TypeOK
    <2>4. Backed'
      BY <1>0, <1>8 DEF Get, TypeOK, Backed
    <2> QED
      BY <2>3, <2>4 DEF MInv
  <1>9. CASE DownloadFails(i)
    <2>1. TypeOK'
      BY <1>0, <1>u, <1>9, JobTypes DEF DownloadFails, TypeOK
    <2>2. Backed'
      BY <1>0, <1>9 DEF DownloadFails, TypeOK, Backed
    <2> QED
      BY <2>1, <2>2 DEF MInv
  <1>10. CASE Corrupt(i)
    <2>1. PICK o \in {store[k] : k \in Items} \union [key : {None}, bytes : Data]
                         \union {None} :
              store' = [store EXCEPT ![i] = o]
      BY <1>10 DEF Corrupt
    <2>2. o \in Objects \union {None}
      BY <1>0, <2>1 DEF TypeOK, Objects
    <2>3. TypeOK'
      BY <1>0, <1>u, <1>10, <2>1, <2>2 DEF Corrupt, TypeOK
    <2>4. Backed'
      BY <1>0, <1>10 DEF Corrupt, TypeOK, Backed
    <2> QED
      BY <2>3, <2>4 DEF MInv
  <1> QED
    BY <1>1, <1>2, <1>3, <1>4, <1>5, <1>6, <1>7, <1>8, <1>9, <1>10

\* Every step of the composition keeps the invariant.
LEMMA MInvStep == MInv /\ [Next]_vars => MInv'
  <1> SUFFICES ASSUME MInv, [Next]_vars PROVE MInv'
    OBVIOUS
  <1>1. CASE TokensNext /\ UNCHANGED mediaVars
    BY <1>1, TokensTypeStep DEF MInv, TypeOK, Backed, mediaVars
  <1>2. CASE MediaNext
    BY <1>2, MediaStep
  <1>3. CASE UNCHANGED vars
    BY <1>3, TokensTypeStutter DEF MInv, TypeOK, Backed, vars, mediaVars
  <1> QED
    BY <1>1, <1>2, <1>3 DEF Next

\* The invariant holds in every behaviour.
THEOREM Invariant == Spec => []MInv
  BY MInvInit, MInvStep, PTL DEF Spec

\* Tokens, jobs, references and stored objects have their types, for any accounts,
\* calls, attachments and bytes.
THEOREM TypeCorrect == Spec => []TypeOK
  <1>1. MInv => TypeOK
    BY DEF MInv
  <1> QED
    BY <1>1, Invariant, PTL

-----------------------------------------------------------------------------
(* The token of the user. *)

\* The access token and the refresh token are the user's until another account's
\* refresh is answered; so is the refresh in flight, unless it is that one.
AllOwn ==
    /\ crossed # "done" =>
        /\ token = None \/ token.of = user
        /\ refresh_ \in {None, user}
    /\ crossed = "no" => refreshing \in {None, user}
    /\ crossed = "sent" => refreshing # None

\* Every step of the directory client keeps it.
LEMMA AllOwnStep ==
    ASSUME TypeOK, AllOwn, [Next]_vars
    PROVE  AllOwn'
  <1>0. \A a \in Accounts : New(a).of = a
    BY DEF New
  <1>1. CASE \E a \in Accounts : SubmitOtp(a)
    BY <1>0, <1>1 DEF SubmitOtp, Crossing, AllOwn
  <1>2. CASE \E c \in Calls, kind \in Kinds : Begin(c, kind)
    BY <1>2 DEF Begin, AllOwn
  <1>3. CASE \E c \in Calls : EnsureAccess(c)
    BY <1>3 DEF EnsureAccess, Refresh, AllOwn
  <1>4. CASE \E c \in Calls : Accepted(c)
    BY <1>4 DEF Accepted, AllOwn
  <1>5. CASE \E c \in Calls : Unauthorized(c)
    BY <1>5 DEF Unauthorized, Refresh, AllOwn
  <1>6. CASE \E c \in Calls : Lost(c)
    BY <1>6 DEF Lost, AllOwn
  <1>7. CASE RefreshOK
    <2>1. refreshing \in Accounts
      BY <1>7 DEF RefreshOK, TypeOK, TokensTypeOK
    <2>2. crossed \in {"no", "sent", "done"}
      BY DEF TypeOK, TokensTypeOK
    <2> QED
      BY <1>0, <1>7, <2>1, <2>2 DEF RefreshOK, AllOwn
  <1>8. CASE RefreshFails
    BY <1>8 DEF RefreshFails, AllOwn
  <1>9. CASE \E t \in live : Expire(t)
    BY <1>9 DEF Expire, AllOwn
  <1>10. CASE UNCHANGED tokenVars
    BY <1>10 DEF tokenVars, AllOwn
  <1>11. ASSUME MediaNext PROVE UNCHANGED tokenVars
    BY <1>11 DEF MediaNext, PickMedia, Encrypted, UploadUrl, Put, UploadFails, Download, DownloadUrl,
                 Get, DownloadFails, Corrupt
  <1>12. TokensNext \/ UNCHANGED tokenVars
    BY <1>11 DEF Next, vars
  <1> QED
    BY <1>1, <1>2, <1>3, <1>4, <1>5, <1>6, <1>7, <1>8, <1>9, <1>10, <1>12
    DEF TokensNext, Settle

\* The client's access token is the user's own, whatever refreshes, deletions and
\* onboardings came before, but for the answer to a refresh of another account.
THEOREM TokenIsOwn == Spec => []OwnToken
  <1>1. Init => AllOwn
    BY DEF Init, TokensInit, AllOwn
  <1>2. AllOwn => OwnToken
    BY DEF AllOwn, OwnToken
  <1> QED
    BY <1>1, <1>2, AllOwnStep, TypeCorrect, PTL DEF Spec

-----------------------------------------------------------------------------
(* Media implements MediaPromise. *)

\* Every step is a step of the abstract specification or leaves it alone.
LEMMA PromiseStep ==
    ASSUME MInv, [Next]_vars
    PROVE  [Promise!Next]_<<attached, shown>>
  <1>0. TypeOK /\ Backed
    BY DEF MInv
  <1>1. CASE UNCHANGED mediaVars
    BY <1>1 DEF mediaVars
  <1>2. ASSUME NEW i \in Items, NEW bytes \in Data, PickMedia(i, bytes)
        PROVE  Promise!Next
    BY <1>2 DEF PickMedia, Promise!Next, Promise!Pick
  <1>3. ASSUME NEW i \in Items, Get(i)
        PROVE  Promise!Next \/ UNCHANGED <<attached, shown>>
    <2>1. ref[i] # None /\ attached[i] # None /\ ref[i].sha256 = attached[i]
      BY <1>0, <1>3, NotNone DEF Get, Backed
    <2>2. DecryptMedia(ref[i], store[ref[i].locator]) \in {None, attached[i]}
      BY <2>1, DecryptsToDigest
    <2>3. CASE DecryptMedia(ref[i], store[ref[i].locator]) = None
      BY <1>3, <2>3 DEF Get
    <2>4. CASE DecryptMedia(ref[i], store[ref[i].locator]) = attached[i]
      <3>1. Promise!Show(i)
        BY <1>3, <2>1, <2>4 DEF Get, Promise!Show
      <3> QED
        BY <3>1 DEF Promise!Next
    <2> QED
      BY <2>2, <2>3, <2>4
  <1>4. ASSUME NEW i \in Items,
               Encrypted(i) \/ UploadUrl(i) \/ Put(i) \/ UploadFails(i) \/ Download(i)
                   \/ DownloadUrl(i) \/ DownloadFails(i) \/ Corrupt(i)
        PROVE  UNCHANGED <<attached, shown>>
    BY <1>4 DEF Encrypted, UploadUrl, Put, UploadFails, Download, DownloadUrl, DownloadFails, Corrupt
  <1> QED
    BY <1>1, <1>2, <1>3, <1>4 DEF Next, MediaNext, vars

\* The detailed specification, with its keys, tokens, failures and a store that may
\* lose, damage or exchange objects, implements the promise: an attachment is shown
\* as what its sender picked, or not at all.
THEOREM ImplementsPromise == Spec => KeepsPromise
  <1>1. Init => Promise!Init
    BY DEF Init, Promise!Init
  <1> QED
    BY <1>1, PromiseStep, Invariant, PTL DEF Spec, KeepsPromise, Promise!Spec

-----------------------------------------------------------------------------
(***************************************************************************)
(* Encrypted sending: types.                                               *)
(***************************************************************************)
Key == [id : Nat, mint : Nat]

Session == [dev : Devices, by : Refs \union {Nil}, key : Key \union {Nil}]

Letter == [to : Devices, ref : Refs, tracked : BOOLEAN, session : Session, prekey : BOOLEAN]

SendCall == [at : {"idle", "devices", "loop", "bundle", "backfill", "establish", "encrypt", "done"},
             dev : Devices \union {Nil}, todo : SUBSET Devices, key : Key \union {Nil}]

Upkeep == [at : {"idle", "mint", "upload"}, count : Nat, keys : SUBSET Key]

CallsTyped ==
    /\ send \in [Refs -> SendCall]
    /\ \A r \in Refs : send[r].at \in {"bundle", "backfill", "establish", "encrypt"} =>
           send[r].dev \in Devices
    /\ cache \in [devices : SUBSET Devices, fresh : BOOLEAN] \union {Nil}
    /\ linked \subseteq Devices

StoresTyped ==
    /\ pool \in [Devices -> SUBSET Key] /\ held \in [Devices -> SUBSET Key]
    /\ minted \in [Devices -> [high : Nat, calls : Nat]]
    /\ upkeep \in [Devices -> [Upkeeps -> Upkeep]]
    /\ \A d \in Devices : IsFiniteSet(pool[d])
    /\ \A d \in Devices : \A t \in Upkeeps : IsFiniteSet(upkeep[d][t].keys)

SessionsTyped ==
    /\ mine \in [Devices -> SUBSET Session] /\ theirs \in [Devices -> SUBSET Session]
    /\ DOMAIN current = Devices
    /\ \A d \in Devices : \A s \in mine[d] : s.dev = d
    /\ \A d \in Devices : current[d] \in mine[d] \union {Nil}
    /\ box \subseteq Letter
    /\ \A e \in box : e.session.dev = e.to

SendingTyped == CallsTyped /\ StoresTyped /\ SessionsTyped

\* The steps that leave the calls and the directory's list alone.
LEMMA CallsTypedStep == SendingTyped /\ [SendingNext]_sendingVars => CallsTyped'
<1> SUFFICES ASSUME SendingTyped, [SendingNext]_sendingVars
             PROVE  CallsTyped'
  OBVIOUS
<1> USE SendingAssumption
<1>1. ASSUME UNCHANGED <<send, cache, linked>>
      PROVE  CallsTyped'
  BY <1>1 DEF SendingTyped, CallsTyped
<1>2. ASSUME NEW todo \in SUBSET Devices
      PROVE  Loop(todo) \in SendCall /\ Loop(todo).at \notin {"bundle", "backfill", "establish", "encrypt"}
  BY <1>2 DEF Loop, SendCall
<1>3. ASSUME NEW r \in Refs, NEW x \in SendCall, Call(r, x), UNCHANGED <<cache, linked>>,
             x.at \in {"bundle", "backfill", "establish", "encrypt"} => x.dev \in Devices
      PROVE  CallsTyped'
  BY <1>3 DEF SendingTyped, CallsTyped, Call
<1>4. ASSUME NEW r \in Refs, SendText(r)
      PROVE  CallsTyped'
  <2>1. CASE cache # Nil /\ cache.fresh
    <3>1. cache.devices \in SUBSET Devices
      BY <2>1 DEF SendingTyped, CallsTyped
    <3>2. Call(r, Loop(cache.devices)) /\ UNCHANGED <<cache, linked>>
      BY <1>4, <2>1 DEF SendText, dirVars
    <3> QED
      BY <1>2, <1>3, <3>1, <3>2
  <2>2. CASE ~(cache # Nil /\ cache.fresh)
    <3> DEFINE x == [at |-> "devices", dev |-> Nil, todo |-> {}, key |-> Nil]
    <3>1. Call(r, x) /\ UNCHANGED <<cache, linked>>
      BY <1>4, <2>2 DEF SendText, dirVars
    <3>2. x \in SendCall /\ x.at = "devices"
      BY DEF SendCall
    <3> HIDE DEF x
    <3> QED
      BY <1>3, <3>1, <3>2
  <2> QED
    BY <2>1, <2>2
<1>5. ASSUME NEW r \in Refs, DevicesForPeer(r)
      PROVE  CallsTyped'
  <2>1. PICK devices \in {linked \union {Primary}, {Primary}} :
            cache' = [devices |-> devices, fresh |-> TRUE] /\ Call(r, Loop(devices))
    BY <1>5 DEF DevicesForPeer
  <2>2. devices \in SUBSET Devices
    BY DEF SendingTyped, CallsTyped
  <2>3. UNCHANGED linked
    BY <1>5 DEF DevicesForPeer, dirVars
  <2> QED
    BY <1>2, <2>1, <2>2, <2>3 DEF SendingTyped, CallsTyped, Call
<1>6. ASSUME NEW r \in Refs, NEW d \in Devices, EnsureSession(r, d)
      PROVE  CallsTyped'
  <2> DEFINE x == [at |-> CASE d \notin peerDevice -> "bundle"
                            [] d \in peerDevice \ peerIdentity -> "backfill"
                            [] OTHER -> "encrypt",
                   dev |-> d, todo |-> send[r].todo \ {d}, key |-> Nil]
  <2>1. x \in SendCall /\ x.dev \in Devices
    BY DEF SendingTyped, CallsTyped, SendCall
  <2>2. Call(r, x) /\ UNCHANGED <<cache, linked>>
    BY <1>6 DEF EnsureSession, dirVars
  <2> QED
    BY <1>3, <2>1, <2>2
<1>7. ASSUME NEW r \in Refs, NEW at \in {"establish", "encrypt"}, NEW k \in Key \union {Nil},
             send[r].at \in {"bundle", "backfill", "establish"}, Await(r, at, k),
             UNCHANGED <<cache, linked>>
      PROVE  CallsTyped'
  <2> DEFINE x == [at |-> at, dev |-> send[r].dev, todo |-> send[r].todo, key |-> k]
  <2>1. x \in SendCall /\ x.dev \in Devices
    BY <1>7 DEF SendingTyped, CallsTyped, SendCall
  <2>2. Call(r, x)
    BY <1>7 DEF Await
  <2> QED
    BY <1>3, <1>7, <2>1, <2>2
<1>8. ASSUME NEW r \in Refs, Skip(r), UNCHANGED <<cache, linked>>
      PROVE  CallsTyped'
  <2>1. send[r].todo \in SUBSET Devices
    BY DEF SendingTyped, CallsTyped, SendCall
  <2> QED
    BY <1>2, <1>3, <1>8, <2>1 DEF Skip
<1>9. ASSUME NEW r \in Refs, FetchBundle(r)
      PROVE  CallsTyped'
  <2>1. PICK k \in IF pool[send[r].dev] = {} THEN {Nil} ELSE pool[send[r].dev] :
            Await(r, "establish", k) \/ Await(r, "encrypt", Nil)
    BY <1>9 DEF FetchBundle
  <2>2. k \in Key \union {Nil}
    BY <1>9 DEF FetchBundle, SendingTyped, CallsTyped, StoresTyped
  <2>3. UNCHANGED <<cache, linked>> /\ send[r].at \in {"bundle", "backfill"}
    BY <1>9 DEF FetchBundle
  <2> QED
    BY <1>7, <2>1, <2>2, <2>3
<1>10. ASSUME NEW r \in Refs, FetchFails(r) \/ EstablishThrows(r) \/ Establish(r) \/ Encrypt(r)
       PROVE  CallsTyped'
  <2>1. UNCHANGED <<cache, linked>>
    BY <1>10 DEF FetchFails, EstablishThrows, Establish, Encrypt, dirVars
  <2>2. Skip(r) \/ (send[r].at \in {"backfill", "bundle", "establish"} /\ Await(r, "encrypt", Nil))
    BY <1>10 DEF FetchFails, EstablishThrows, Establish, Encrypt
  <2> QED
    BY <1>7, <1>8, <2>1, <2>2
<1>11. CASE Relaunch
  <2>1. /\ send' = [r \in Refs |-> IF send[r].at = "idle" THEN Unsent ELSE Loop({})]
        /\ cache' = Nil /\ UNCHANGED linked
    BY <1>11 DEF Relaunch, dirVars
  <2>2. Unsent \in SendCall /\ Unsent.at = "idle"
    BY DEF Unsent, SendCall
  <2> QED
    BY <1>2, <2>1, <2>2 DEF SendingTyped, CallsTyped
<1>12. ASSUME NEW d \in Devices, Relink(d)
       PROVE  CallsTyped'
  BY <1>12 DEF Relink, SendingTyped, CallsTyped
<1>13. CASE CacheExpires
  <2>1. cache \in [devices : SUBSET Devices, fresh : BOOLEAN]
    BY <1>13 DEF CacheExpires, SendingTyped, CallsTyped
  <2>2. cache' \in [devices : SUBSET Devices, fresh : BOOLEAN]
    BY <1>13, <2>1 DEF CacheExpires
  <2> QED
    BY <1>13, <2>2 DEF CacheExpires, SendingTyped, CallsTyped, dirVars
<1>14. ASSUME NEW r \in Refs, HandleAck(r) \/ HandleStatus(r)
       PROVE  UNCHANGED <<send, cache, linked>>
  BY <1>14 DEF HandleAck, HandleStatus, dirVars
<1>15. ASSUME NEW e \in box, Deliver(e)
       PROVE  UNCHANGED <<send, cache, linked>>
  BY <1>15 DEF Deliver, dirVars
<1>16. ASSUME NEW d \in Devices, WriteFirst(d) \/ \E s \in mine[d] : Answer(s)
       PROVE  UNCHANGED <<send, cache, linked>>
  BY <1>16 DEF WriteFirst, Answer, HandleDeliver, dirVars
<1>17. ASSUME NEW d \in Devices, NEW t \in Upkeeps, PoolSize(d, t) \/ Replenish(d, t) \/ Upload(d, t)
       PROVE  UNCHANGED <<send, cache, linked>>
  BY <1>17 DEF PoolSize, Replenish, Upload, dirVars
<1>18. CASE Socket \/ OnboardAgain \/ UNCHANGED sendingVars
  BY <1>1, <1>18 DEF Socket, OnboardAgain, sendingVars, dirVars
<1> QED
  BY <1>1, <1>4, <1>5, <1>6, <1>9, <1>10, <1>11, <1>12, <1>13, <1>14, <1>15, <1>16, <1>17, <1>18
  DEF SendingNext, SettleSend

\* mintOneTimePreKeys makes a finite set of keys with ids after the start.
LEMMA MintKeys ==
    ASSUME NEW start \in Nat, NEW count \in Nat, NEW calls \in Nat
    PROVE  /\ Mint(start, count, calls) \in SUBSET Key
           /\ IsFiniteSet(Mint(start, count, calls))
           /\ \A k \in Mint(start, count, calls) : k.id >= start /\ k.id < start + count
<1> DEFINE ids == start..(start + count - 1)
           f == [i \in ids |-> [id |-> i, mint |-> calls]]
<1>1. IsFiniteSet(ids)
  BY FS_Interval
<1>2. f \in Surjection(ids, Mint(start, count, calls))
  BY DEF Mint, Surjection
<1>3. IsFiniteSet(Mint(start, count, calls))
  BY <1>1, <1>2, FS_Surjection
<1>4. \A k \in Mint(start, count, calls) : k \in Key /\ k.id >= start /\ k.id < start + count
  BY DEF Mint, Key
<1> QED
  BY <1>3, <1>4

\* Only bundles, deliveries and the upkeep touch the prekeys.
LEMMA StoresTypedStep == SendingTyped /\ [SendingNext]_sendingVars => StoresTyped'
<1> SUFFICES ASSUME SendingTyped, [SendingNext]_sendingVars
             PROVE  StoresTyped'
  OBVIOUS
<1> USE SendingAssumption
<1>1. ASSUME UNCHANGED <<pool, held, minted, upkeep>>
      PROVE  StoresTyped'
  BY <1>1 DEF SendingTyped, StoresTyped
<1>2. ASSUME NEW r \in Refs, FetchBundle(r)
      PROVE  StoresTyped'
  <2>1. PICK k : pool' = [pool EXCEPT ![send[r].dev] = @ \ {k}]
    BY <1>2 DEF FetchBundle
  <2>2. UNCHANGED <<held, minted, upkeep>>
    BY <1>2 DEF FetchBundle, keyVars
  <2>3. pool' \in [Devices -> SUBSET Key]
    BY <2>1 DEF SendingTyped, StoresTyped
  <2>4. \A d \in Devices : pool'[d] \subseteq pool[d]
    BY <2>1 DEF SendingTyped, StoresTyped
  <2>5. \A d \in Devices : IsFiniteSet(pool'[d])
    BY <2>4, FS_Subset DEF SendingTyped, StoresTyped
  <2> QED
    BY <2>2, <2>3, <2>5 DEF SendingTyped, StoresTyped
<1>3. ASSUME NEW e \in box, Deliver(e)
      PROVE  StoresTyped'
  <2>1. held' \in [Devices -> SUBSET Key]
    BY <1>3 DEF Deliver, SendingTyped, StoresTyped
  <2>2. UNCHANGED <<pool, minted, upkeep>>
    BY <1>3 DEF Deliver, dirVars
  <2> QED
    BY <2>1, <2>2 DEF SendingTyped, StoresTyped
<1>4. ASSUME NEW d \in Devices, NEW t \in Upkeeps, NEW x \in Upkeep, IsFiniteSet(x.keys),
             upkeep' = [upkeep EXCEPT ![d] = [upkeep[d] EXCEPT ![t] = x]]
      PROVE  /\ upkeep' \in [Devices -> [Upkeeps -> Upkeep]]
             /\ \A b \in Devices : \A u \in Upkeeps : IsFiniteSet(upkeep'[b][u].keys)
  <2>1. upkeep \in [Devices -> [Upkeeps -> Upkeep]]
    BY DEF SendingTyped, StoresTyped
  <2>2. \A b \in Devices : \A u \in Upkeeps : upkeep'[b][u] \in {x, upkeep[b][u]}
    BY <1>4, <2>1
  <2>3. upkeep' \in [Devices -> [Upkeeps -> Upkeep]]
    BY <1>4, <2>1
  <2> QED
    BY <1>4, <2>2, <2>3 DEF SendingTyped, StoresTyped
<1>5. ASSUME NEW d \in Devices, NEW t \in Upkeeps, PoolSize(d, t)
      PROVE  StoresTyped'
  <2> DEFINE size == Cardinality(pool[d])
             x == [at |-> "mint", count |-> Target - size, keys |-> {}]
  <2>1. size \in Nat
    BY FS_CardinalityType DEF SendingTyped, StoresTyped
  <2>2. size < LowWater /\ upkeep' = [upkeep EXCEPT ![d] = [upkeep[d] EXCEPT ![t] = x]]
    BY <1>5 DEF PoolSize
  <2>3. Target - size \in Nat
    BY <2>1, <2>2
  <2>4. x \in Upkeep /\ x.keys = {}
    BY <2>3 DEF Upkeep
  <2>5. IsFiniteSet(x.keys)
    BY <2>4, FS_EmptySet
  <2>6. UNCHANGED <<pool, held, minted>>
    BY <1>5 DEF PoolSize, dirVars
  <2> HIDE DEF x
  <2> QED
    BY <1>4, <2>2, <2>4, <2>5, <2>6 DEF SendingTyped, StoresTyped
<1>6. ASSUME NEW d \in Devices, NEW t \in Upkeeps, Replenish(d, t)
      PROVE  StoresTyped'
  <2> DEFINE n == upkeep[d][t].count
             keys == Mint(minted[d].high + 1, n, minted[d].calls)
             x == [at |-> "upload", count |-> 0, keys |-> keys]
  <2>1. n \in Nat /\ minted[d].high \in Nat /\ minted[d].calls \in Nat
    BY DEF SendingTyped, StoresTyped, Upkeep
  <2>2. keys \in SUBSET Key /\ IsFiniteSet(keys)
    <3>1. minted[d].high + 1 \in Nat
      BY <2>1
    <3> QED
      BY <2>1, <3>1, MintKeys
  <2>3. /\ held' = [held EXCEPT ![d] = Saved(@, keys)]
        /\ upkeep' = [upkeep EXCEPT ![d] = [upkeep[d] EXCEPT ![t] = x]]
        /\ minted' = [minted EXCEPT ![d] = [high |-> minted[d].high + n, calls |-> minted[d].calls + 1]]
        /\ UNCHANGED pool
    BY <1>6 DEF Replenish, dirVars
  <2> HIDE DEF n, keys
  <2>4. x \in Upkeep /\ IsFiniteSet(x.keys)
    BY <2>2 DEF Upkeep
  <2>5. held' \in [Devices -> SUBSET Key]
    BY <2>2, <2>3 DEF SendingTyped, StoresTyped, Saved
  <2>6. minted' \in [Devices -> [high : Nat, calls : Nat]]
    BY <2>1, <2>3 DEF SendingTyped, StoresTyped
  <2> HIDE DEF x
  <2> QED
    BY <1>4, <2>3, <2>4, <2>5, <2>6 DEF SendingTyped, StoresTyped
<1>7. ASSUME NEW d \in Devices, NEW t \in Upkeeps, Upload(d, t)
      PROVE  StoresTyped'
  <2>1. NoUpkeep \in Upkeep /\ IsFiniteSet(NoUpkeep.keys)
    BY FS_EmptySet DEF NoUpkeep, Upkeep
  <2>2. /\ upkeep' = [upkeep EXCEPT ![d] = [upkeep[d] EXCEPT ![t] = NoUpkeep]]
        /\ UNCHANGED <<held, minted>>
        /\ pool' = pool \/ pool' = [pool EXCEPT ![d] = @ \union upkeep[d][t].keys]
    BY <1>7 DEF Upload
  <2>3. upkeep[d][t].keys \in SUBSET Key /\ IsFiniteSet(upkeep[d][t].keys)
    BY DEF SendingTyped, StoresTyped, Upkeep
  <2>4. pool' \in [Devices -> SUBSET Key]
    BY <2>2, <2>3 DEF SendingTyped, StoresTyped
  <2>5. \A b \in Devices : pool'[b] = pool[b] \/ pool'[b] = pool[b] \union upkeep[d][t].keys
    BY <2>2 DEF SendingTyped, StoresTyped
  <2>6. \A b \in Devices : IsFiniteSet(pool'[b])
    <3> SUFFICES ASSUME NEW b \in Devices
                 PROVE  IsFiniteSet(pool'[b])
      OBVIOUS
    <3>1. IsFiniteSet(pool[b])
      BY DEF SendingTyped, StoresTyped
    <3>2. IsFiniteSet(pool[b] \union upkeep[d][t].keys)
      BY <2>3, <3>1, FS_Union, Zenon
    <3> QED
      BY <2>5, <3>1, <3>2
  <2> QED
    BY <1>4, <2>1, <2>2, <2>4, <2>6 DEF SendingTyped, StoresTyped
<1>8. ASSUME NEW r \in Refs,
             \/ SendText(r) \/ DevicesForPeer(r) \/ (\E d \in Devices : EnsureSession(r, d))
             \/ FetchFails(r) \/ EstablishThrows(r) \/ Establish(r) \/ Encrypt(r) \/ HandleAck(r) \/ HandleStatus(r)
      PROVE  UNCHANGED <<pool, held, minted, upkeep>>
  BY <1>8 DEF SendText, DevicesForPeer, EnsureSession, FetchFails, EstablishThrows, Establish, Encrypt, HandleAck,
              HandleStatus, dirVars, keyVars
<1>9. ASSUME NEW d \in Devices, WriteFirst(d) \/ Relink(d) \/ \E s \in mine[d] : Answer(s)
      PROVE  UNCHANGED <<pool, held, minted, upkeep>>
  BY <1>9 DEF WriteFirst, Relink, Answer, HandleDeliver, dirVars, keyVars
<1>10. CASE Socket \/ CacheExpires \/ Relaunch \/ OnboardAgain \/ UNCHANGED sendingVars
  BY <1>1, <1>10 DEF Socket, CacheExpires, Relaunch, OnboardAgain, sendingVars, dirVars, keyVars
<1> QED
  BY <1>1, <1>2, <1>3, <1>5, <1>6, <1>7, <1>8, <1>9, <1>10 DEF SendingNext, SettleSend

\* Only a new session, a send, a delivery and an answer touch the sessions.
LEMMA SessionsTypedStep == SendingTyped /\ [SendingNext]_sendingVars => SessionsTyped'
<1> SUFFICES ASSUME SendingTyped, [SendingNext]_sendingVars
             PROVE  SessionsTyped'
  OBVIOUS
<1>1. ASSUME UNCHANGED <<mine, theirs, current, box>>
      PROVE  SessionsTyped'
  BY <1>1 DEF SendingTyped, SessionsTyped
<1>2. ASSUME NEW r \in Refs, Establish(r)
      PROVE  SessionsTyped'
  <2> DEFINE d == send[r].dev
             s == [dev |-> d, by |-> r, key |-> send[r].key]
  <2>1. d \in Devices /\ s \in Session /\ s.dev = d
    BY <1>2 DEF Establish, SendingTyped, CallsTyped, SendCall, Session
  <2>2. /\ mine' = [mine EXCEPT ![d] = @ \union {s}] /\ current' = [current EXCEPT ![d] = s]
        /\ UNCHANGED <<theirs, box>>
    BY <1>2 DEF Establish, peerVars
  <2> HIDE DEF d, s
  <2> QED
    BY <2>1, <2>2 DEF SendingTyped, SessionsTyped
<1>3. ASSUME NEW r \in Refs, Encrypt(r)
      PROVE  SessionsTyped'
  <2> DEFINE d == send[r].dev
             s == current[d]
             e == [to |-> d, ref |-> r, tracked |-> d = Primary,
                   session |-> s, prekey |-> s \notin confirmed]
  <2>1. UNCHANGED <<mine, theirs, current>>
    BY <1>3 DEF Encrypt, sessVars, peerVars
  <2>2. CASE UNCHANGED box
    BY <1>1, <2>1, <2>2
  <2>3. CASE s # Nil /\ box' = box \union {e}
    <3>1. d \in Devices
      BY <1>3 DEF Encrypt, SendingTyped, CallsTyped
    <3>2. s \in Session /\ s.dev = d
      BY <2>3, <3>1 DEF SendingTyped, SessionsTyped
    <3>3. e \in Letter /\ e.session.dev = e.to
      BY <3>1, <3>2 DEF Letter
    <3> HIDE DEF e
    <3> QED
      BY <2>1, <2>3, <3>3 DEF SendingTyped, SessionsTyped
  <2> QED
    BY <1>3, <2>2, <2>3 DEF Encrypt
<1>4. ASSUME NEW e \in box, Deliver(e)
      PROVE  SessionsTyped'
  <2>1. e \in Letter
    BY DEF SendingTyped, SessionsTyped
  <2>2. box' \subseteq box /\ UNCHANGED <<mine, current>>
    BY <1>4 DEF Deliver, sessVars
  <2>3. theirs' \in [Devices -> SUBSET Session]
    BY <1>4, <2>1 DEF Deliver, Letter, SendingTyped, SessionsTyped
  <2> QED
    BY <2>2, <2>3 DEF SendingTyped, SessionsTyped
<1>5. ASSUME NEW d \in Devices, NEW s \in Session, s.dev = d, HandleDeliver(s),
             theirs' \in [Devices -> SUBSET Session]
      PROVE  SessionsTyped'
  BY <1>5 DEF HandleDeliver, SendingTyped, SessionsTyped
<1>6. ASSUME NEW d \in Devices, NEW s \in mine[d], Answer(s)
      PROVE  SessionsTyped'
  BY <1>5, <1>6 DEF Answer, SendingTyped, SessionsTyped
<1>7. ASSUME NEW d \in Devices, WriteFirst(d)
      PROVE  SessionsTyped'
  <2> DEFINE s == [dev |-> d, by |-> Nil, key |-> Nil]
  <2>1. s \in Session /\ s.dev = d
    BY DEF Session
  <2>2. theirs' = [theirs EXCEPT ![d] = {s}] /\ HandleDeliver(s)
    BY <1>7 DEF WriteFirst
  <2> HIDE DEF s
  <2>3. theirs' \in [Devices -> SUBSET Session]
    BY <2>1, <2>2 DEF SendingTyped, SessionsTyped
  <2> QED
    BY <1>5, <2>1, <2>2, <2>3
<1>8. CASE OnboardAgain
  BY <1>8 DEF OnboardAgain, peerVars, SendingTyped, SessionsTyped
<1>9. ASSUME NEW r \in Refs,
             \/ SendText(r) \/ DevicesForPeer(r) \/ (\E d \in Devices : EnsureSession(r, d))
             \/ FetchBundle(r) \/ FetchFails(r) \/ EstablishThrows(r) \/ HandleAck(r) \/ HandleStatus(r)
      PROVE  UNCHANGED <<mine, theirs, current, box>>
  BY <1>9 DEF SendText, DevicesForPeer, EnsureSession, FetchBundle, FetchFails, EstablishThrows, HandleAck,
              HandleStatus, sessVars, peerVars
<1>10. ASSUME NEW d \in Devices,
              Relink(d) \/ \E t \in Upkeeps : PoolSize(d, t) \/ Replenish(d, t) \/ Upload(d, t)
       PROVE  UNCHANGED <<mine, theirs, current, box>>
  BY <1>10 DEF Relink, PoolSize, Replenish, Upload, sessVars, peerVars
<1>11. CASE Socket \/ CacheExpires \/ Relaunch \/ UNCHANGED sendingVars
  BY <1>1, <1>11 DEF Socket, CacheExpires, Relaunch, sendingVars, sessVars, peerVars
<1> QED
  BY <1>1, <1>2, <1>3, <1>4, <1>6, <1>7, <1>8, <1>9, <1>10, <1>11 DEF SendingNext, SettleSend

\* The types of the send path are kept.
LEMMA SendingTypes == SendingSpec => []SendingTyped
<1>1. SendingInit => SendingTyped
  <2> SUFFICES ASSUME SendingInit
               PROVE  SendingTyped
    OBVIOUS
  <2>1. CallsTyped
    BY SendingAssumption DEF SendingInit, CallsTyped, Unsent, SendCall
  <2>2. Mint(1, 1, 0) \in SUBSET Key /\ IsFiniteSet(Mint(1, 1, 0))
    BY MintKeys
  <2>3. NoUpkeep \in Upkeep /\ IsFiniteSet(NoUpkeep.keys)
    BY FS_EmptySet DEF NoUpkeep, Upkeep
  <2>4. StoresTyped
    BY <2>2, <2>3 DEF SendingInit, StoresTyped
  <2>5. SessionsTyped
    BY DEF SendingInit, SessionsTyped
  <2> QED
    BY <2>1, <2>4, <2>5 DEF SendingTyped
<1>2. SendingTyped /\ [SendingNext]_sendingVars => SendingTyped'
  BY CallsTypedStep, StoresTypedStep, SessionsTypedStep DEF SendingTyped
<1> QED
  BY <1>1, <1>2, PTL DEF SendingSpec

-----------------------------------------------------------------------------
(***************************************************************************)
(* Ticks.  A delivered status is under way only for a message that has     *)
(* reached the primary device, because only its copy is tracked.           *)
(***************************************************************************)
TickInv ==
    /\ DOMAIN status = Refs
    /\ \A r \in Refs : [kind |-> "delivered", ref |-> r] \in upstream => r \in reached
    /\ \A e \in box : e.tracked => e.to = Primary
    /\ DeliveredTrue

LEMMA TickStep == SendingTyped /\ TickInv /\ [SendingNext]_sendingVars => TickInv'
<1> SUFFICES ASSUME SendingTyped, TickInv, [SendingNext]_sendingVars
             PROVE  TickInv'
  OBVIOUS
<1> USE DEF TickInv, DeliveredTrue
<1>1. ASSUME UNCHANGED <<upstream, status, reached, box>>
      PROVE  TickInv'
  BY <1>1
<1>2. ASSUME NEW r \in Refs, Encrypt(r)
      PROVE  TickInv'
  <2>1. UNCHANGED <<status, reached>>
    BY <1>2 DEF Encrypt, peerVars
  <2>2. \A e \in box' : e \in box \/ e.tracked = (e.to = Primary)
    BY <1>2 DEF Encrypt
  <2>3. \A m \in upstream' : m \in upstream \/ m.kind = "ack"
    BY <1>2 DEF Encrypt
  <2>4. \A q \in Refs : [kind |-> "delivered", ref |-> q] \in upstream' =>
            [kind |-> "delivered", ref |-> q] \in upstream
    BY <2>3
  <2> QED
    BY <2>1, <2>2, <2>4
<1>3. ASSUME NEW r \in Refs, HandleAck(r) \/ HandleStatus(r)
      PROVE  TickInv'
  <2>1. upstream' \subseteq upstream /\ UNCHANGED <<reached, box>>
    BY <1>3 DEF HandleAck, HandleStatus, peerVars
  <2>2. HandleStatus(r) => r \in reached
    BY DEF HandleStatus
  <2>3. \A q \in Refs : status'[q] = "delivered" => status[q] = "delivered" \/ q \in reached
    BY <1>3, <2>2 DEF HandleAck, HandleStatus
  <2>4. DOMAIN status' = Refs
    BY <1>3 DEF HandleAck, HandleStatus
  <2> QED
    BY <2>1, <2>3, <2>4
<1>4. ASSUME NEW e \in box, Deliver(e)
      PROVE  TickInv'
  <2>1. box' \subseteq box /\ UNCHANGED status /\ reached \subseteq reached'
    BY <1>4 DEF Deliver
  <2>2. e.tracked => e.ref \in reached'
    BY <1>4 DEF Deliver
  <2>3. \A m \in upstream' : m \in upstream \/ (e.tracked /\ m.ref = e.ref)
    BY <1>4 DEF Deliver
  <2>4. \A q \in Refs : [kind |-> "delivered", ref |-> q] \in upstream' =>
            [kind |-> "delivered", ref |-> q] \in upstream \/ (e.tracked /\ q = e.ref)
    BY <2>3
  <2> QED
    BY <2>1, <2>2, <2>4
<1>5. CASE OnboardAgain
  BY <1>5 DEF OnboardAgain, peerVars
<1>6. ASSUME NEW r \in Refs,
             \/ SendText(r) \/ DevicesForPeer(r) \/ (\E d \in Devices : EnsureSession(r, d))
             \/ FetchBundle(r) \/ FetchFails(r) \/ EstablishThrows(r) \/ Establish(r)
      PROVE  UNCHANGED <<upstream, status, reached, box>>
  BY <1>6 DEF SendText, DevicesForPeer, EnsureSession, FetchBundle, FetchFails, EstablishThrows, Establish,
              tickVars, peerVars
<1>7. ASSUME NEW d \in Devices,
             \/ WriteFirst(d) \/ Relink(d) \/ (\E s \in mine[d] : Answer(s))
             \/ \E t \in Upkeeps : PoolSize(d, t) \/ Replenish(d, t) \/ Upload(d, t)
      PROVE  UNCHANGED <<upstream, status, reached, box>>
  BY <1>7 DEF WriteFirst, Relink, Answer, HandleDeliver, PoolSize, Replenish, Upload, tickVars, peerVars
<1>8. CASE Socket \/ CacheExpires \/ Relaunch \/ UNCHANGED sendingVars
  BY <1>1, <1>8 DEF Socket, CacheExpires, Relaunch, sendingVars, tickVars, peerVars
<1> QED
  BY <1>1, <1>2, <1>3, <1>4, <1>5, <1>6, <1>7, <1>8 DEF SendingNext, SettleSend

\* handleAck, handleStatus and the fan-out of sendText: no copy to a linked device,
\* and no order of acks and statuses, makes a delivered tick of a message that has
\* not reached the primary device.
THEOREM TicksAreTrue == SendingSpec => []DeliveredTrue
<1>1. SendingInit => TickInv
  BY DEF SendingInit, TickInv, DeliveredTrue
<1>2. TickInv => DeliveredTrue
  BY DEF TickInv
<1> QED
  BY <1>1, <1>2, SendingTypes, TickStep, PTL DEF SendingSpec

-----------------------------------------------------------------------------
(***************************************************************************)
(* Readable envelopes.  A one-time prekey of a device is at one place: in  *)
(* the directory's pool, with an upload, with a call that has its bundle,  *)
(* or in one session.  Its private half is there until the first message   *)
(* of that session is, and its id is at most preKeyHigh, so that no mint   *)
(* overwrites it.  A place is a kind and an owner.                         *)
(***************************************************************************)
Known(d, s) == s \in mine[d] \/ s \in theirs[d] \/ \E e \in box : e.to = d /\ e.session = s

KeyAt(d, t, o, k) ==
    \/ t = "pool" /\ o = Nil /\ k \in pool[d]
    \/ t = "upload" /\ o \in Upkeeps /\ upkeep[d][o].at = "upload" /\ k \in upkeep[d][o].keys
    \/ t = "send" /\ o \in Refs /\ send[o].at = "establish" /\ send[o].dev = d /\ send[o].key = k
    \/ t = "session" /\ Known(d, o) /\ o.key = k

OneKey(d, t, o, k) == d \in Devices /\ k # Nil /\ KeyAt(d, t, o, k)

KeysOnce ==
    \A d, t1, o1, t2, o2, k :
        OneKey(d, t1, o1, k) /\ OneKey(d, t2, o2, k) => t1 = t2 /\ o1 = o2

KeysHeld ==
    \A d, t, o, k : OneKey(d, t, o, k) => k \in held[d] \/ (t = "session" /\ o \in theirs[d])

KeysOld == \A d, t, o, k : OneKey(d, t, o, k) => k.id <= minted[d].high

\* A message without the handshake is of a session the device has.
Confirmed ==
    /\ \A s \in confirmed : s.dev \in Devices /\ s \in theirs[s.dev]
    /\ \A e \in box : ~e.prekey => e.session \in theirs[e.to]

KeyInv == KeysOnce /\ KeysHeld /\ KeysOld /\ Confirmed

LEMMA KeyInvReads == ASSUME SendingTyped, KeyInv PROVE Decryptable
<1> SUFFICES ASSUME NEW e \in box
             PROVE  Readable(e)
  BY DEF Decryptable
<1>1. e \in Letter
  BY DEF SendingTyped, SessionsTyped
<1>2. CASE ~e.prekey
  BY <1>2 DEF KeyInv, Confirmed, Readable
<1>3. CASE e.prekey /\ e.session.key = Nil
  BY <1>3 DEF Readable
<1>4. CASE e.prekey /\ e.session.key # Nil
  <2>1. OneKey(e.to, "session", e.session, e.session.key)
    BY <1>1, <1>4 DEF OneKey, KeyAt, Known, Letter
  <2> QED
    BY <1>4, <2>1 DEF KeyInv, KeysHeld, Readable
<1> QED
  BY <1>2, <1>3, <1>4

\* A step that brings no key to a place, and of the private halves loses only one
\* whose session the device has.
LEMMA KeysDrop ==
    ASSUME KeysOnce, KeysHeld, KeysOld, UNCHANGED minted,
           \A d, t, o, k : OneKey(d, t, o, k)' => OneKey(d, t, o, k),
           \A d, t, o, k : OneKey(d, t, o, k)' =>
               (k \in held[d] \/ (t = "session" /\ o \in theirs[d]) =>
                    k \in held'[d] \/ (t = "session" /\ o \in theirs'[d]))
    PROVE  KeysOnce' /\ KeysHeld' /\ KeysOld'
<1>1. KeysOnce'
  BY DEF KeysOnce
<1>2. KeysHeld'
  BY DEF KeysHeld
<1>3. KeysOld'
  BY DEF KeysOld
<1> QED
  BY <1>1, <1>2, <1>3

\* A step that moves keys of device x from the place b to the place a.
KeysMove(x, bt, bo, at, ao) ==
    \A d, t, o, k : OneKey(d, t, o, k)' =>
        \/ OneKey(d, t, o, k) /\ ~(d = x /\ t = bt /\ o = bo /\ OneKey(x, at, ao, k)')
        \/ d = x /\ t = at /\ o = ao /\ OneKey(x, bt, bo, k)

LEMMA KeysMoved ==
    ASSUME KeysOnce, KeysHeld, KeysOld, UNCHANGED <<minted, held, theirs>>,
           NEW x, NEW bt, NEW bo, NEW at, NEW ao, KeysMove(x, bt, bo, at, ao), bt # "session"
    PROVE  KeysOnce' /\ KeysHeld' /\ KeysOld'
<1>1. ASSUME NEW d, NEW t1, NEW o1, NEW t2, NEW o2, NEW k,
             OneKey(d, t1, o1, k)', OneKey(d, t2, o2, k)'
      PROVE  t1 = t2 /\ o1 = o2
  <2>1. \/ OneKey(d, t1, o1, k) /\ ~(d = x /\ t1 = bt /\ o1 = bo /\ OneKey(x, at, ao, k)')
        \/ d = x /\ t1 = at /\ o1 = ao /\ OneKey(x, bt, bo, k)
    BY <1>1 DEF KeysMove
  <2>2. \/ OneKey(d, t2, o2, k) /\ ~(d = x /\ t2 = bt /\ o2 = bo /\ OneKey(x, at, ao, k)')
        \/ d = x /\ t2 = at /\ o2 = ao /\ OneKey(x, bt, bo, k)
    BY <1>1 DEF KeysMove
  <2> QED
    BY <1>1, <2>1, <2>2 DEF KeysOnce
<1>2. KeysOnce'
  BY <1>1 DEF KeysOnce
<1>3. KeysHeld'
  BY DEF KeysHeld, KeysMove
<1>4. KeysOld'
  BY DEF KeysOld, KeysMove
<1> QED
  BY <1>2, <1>3, <1>4

\* What keeps every key where it is: calls that hold no new key, and sessions that
\* were known.
LEMMA KeysStay ==
    ASSUME \A d \in Devices : pool'[d] \subseteq pool[d],
           \A d \in Devices : \A t \in Upkeeps : upkeep'[d][t].at = "upload" => upkeep'[d][t] = upkeep[d][t],
           \A r \in Refs : send'[r].at = "establish" => send'[r] = send[r],
           \A d \in Devices : \A s : Known(d, s)' /\ s.key # Nil => Known(d, s)
    PROVE  \A d, t, o, k : OneKey(d, t, o, k)' => OneKey(d, t, o, k)
BY DEF OneKey, KeyAt

\* fetchBundle: the key leaves the pool for the call, or is wasted.
LEMMA FetchKeys ==
    ASSUME SendingTyped, KeyInv, NEW r \in Refs, FetchBundle(r)
    PROVE  KeyInv'
<1> DEFINE x == send[r].dev
<1>1. PICK k \in IF pool[x] = {} THEN {Nil} ELSE pool[x] :
          /\ pool' = [pool EXCEPT ![x] = @ \ {k}]
          /\ Await(r, "establish", k) \/ Await(r, "encrypt", Nil)
  BY DEF FetchBundle
<1>2. x \in Devices /\ send[r].at \in {"bundle", "backfill"}
  BY DEF FetchBundle, SendingTyped, CallsTyped
<1>3. UNCHANGED <<minted, held, upkeep, theirs, mine, box, confirmed>>
  BY DEF FetchBundle, keyVars, peerVars
<1>4. Confirmed'
  BY <1>3 DEF KeyInv, Confirmed
<1>5. k \in pool[x] \/ k = Nil
  BY <1>1
<1>6. \A d \in Devices : pool'[d] \subseteq pool[d] /\ (d = x => k \notin pool'[d])
  BY <1>1, <1>2 DEF SendingTyped, StoresTyped
<1>7. \A q \in Refs : send'[q].at = "establish" =>
          \/ send'[q] = send[q] /\ q # r
          \/ q = r /\ send'[q].key = k /\ send'[q].dev = x
  BY <1>1, <1>2 DEF Await, Call, SendingTyped, CallsTyped
<1> HIDE DEF x
<1>8. \A d, s : Known(d, s)' => Known(d, s)
  BY <1>3 DEF Known
<1>9. KeysMove(x, "pool", Nil, "send", r)
  <2> SUFFICES ASSUME NEW d, NEW t, NEW o, NEW j, OneKey(d, t, o, j)'
               PROVE  \/ OneKey(d, t, o, j) /\ ~(d = x /\ t = "pool" /\ o = Nil /\ OneKey(x, "send", r, j)')
                      \/ d = x /\ t = "send" /\ o = r /\ OneKey(x, "pool", Nil, j)
    BY DEF KeysMove
  <2>1. d \in Devices /\ j # Nil
    BY DEF OneKey
  <2>2. OneKey(x, "send", r, j)' => j = k
    BY <1>2, <1>7 DEF OneKey, KeyAt
  <2>3. CASE t = "pool"
    BY <1>6, <2>1, <2>2, <2>3 DEF OneKey, KeyAt
  <2>4. CASE t = "send"
    BY <1>2, <1>5, <1>7, <2>1, <2>4 DEF OneKey, KeyAt
  <2>5. CASE t # "pool" /\ t # "send"
    BY <1>3, <1>8, <2>1, <2>5 DEF OneKey, KeyAt
  <2> QED
    BY <2>3, <2>4, <2>5
<1>10. KeysOnce' /\ KeysHeld' /\ KeysOld'
  BY <1>3, <1>9, KeysMoved DEF KeyInv
<1> QED
  BY <1>4, <1>10 DEF KeyInv

\* establishSession: the key goes from the call into the new session.
LEMMA EstablishKeys ==
    ASSUME SendingTyped, KeyInv, NEW r \in Refs, Establish(r)
    PROVE  KeyInv'
<1> DEFINE x == send[r].dev
           n == [dev |-> x, by |-> r, key |-> send[r].key]
<1>1. mine' = [mine EXCEPT ![x] = @ \union {n}] /\ Await(r, "encrypt", Nil)
      /\ send[r].at = "establish"
  BY DEF Establish
<1>2. x \in Devices
  BY DEF Establish, SendingTyped, CallsTyped
<1>3. UNCHANGED <<minted, held, upkeep, theirs, pool, box, confirmed>>
  BY DEF Establish, keyVars, dirVars, peerVars
<1>4. Confirmed'
  BY <1>3 DEF KeyInv, Confirmed
<1>5. n.key = send[r].key
  OBVIOUS
<1>6. \A q \in Refs : send'[q].at = "establish" => send'[q] = send[q] /\ q # r
  BY <1>1 DEF Await, Call, SendingTyped, CallsTyped
<1> HIDE DEF n
<1>7. \A d \in Devices : \A s : Known(d, s)' => Known(d, s) \/ (d = x /\ s = n)
  BY <1>1, <1>2, <1>3 DEF Known, SendingTyped, SessionsTyped
<1>8. KeysMove(x, "send", r, "session", n)
  <2> SUFFICES ASSUME NEW d, NEW t, NEW o, NEW j, OneKey(d, t, o, j)'
               PROVE  \/ OneKey(d, t, o, j) /\ ~(d = x /\ t = "send" /\ o = r /\ OneKey(x, "session", n, j)')
                      \/ d = x /\ t = "session" /\ o = n /\ OneKey(x, "send", r, j)
    BY DEF KeysMove
  <2>1. d \in Devices /\ j # Nil
    BY DEF OneKey
  <2>2. CASE t = "session"
    BY <1>1, <1>2, <1>5, <1>7, <2>1, <2>2 DEF OneKey, KeyAt
  <2>3. CASE t = "send"
    BY <1>6, <2>1, <2>3 DEF OneKey, KeyAt
  <2>4. CASE t # "session" /\ t # "send"
    BY <1>3, <2>1, <2>4 DEF OneKey, KeyAt
  <2> QED
    BY <2>2, <2>3, <2>4
<1> HIDE DEF x
<1>9. KeysOnce' /\ KeysHeld' /\ KeysOld'
  BY <1>3, <1>8, KeysMoved DEF KeyInv
<1> QED
  BY <1>4, <1>9 DEF KeyInv

\* uploadOneTimePreKeys: the keys go into the pool, or nowhere.
LEMMA UploadKeys ==
    ASSUME SendingTyped, KeyInv, NEW x \in Devices, NEW u \in Upkeeps, Upload(x, u)
    PROVE  KeyInv'
<1>1. /\ upkeep' = [upkeep EXCEPT ![x] = [upkeep[x] EXCEPT ![u] = NoUpkeep]]
      /\ pool' = pool \/ pool' = [pool EXCEPT ![x] = @ \union upkeep[x][u].keys]
      /\ upkeep[x][u].at = "upload"
  BY DEF Upload
<1>2. UNCHANGED <<minted, held, theirs, mine, box, confirmed, send>>
  BY DEF Upload, sessVars, peerVars
<1>3. Confirmed'
  BY <1>2 DEF KeyInv, Confirmed
<1>4. \A d \in Devices : \A t \in Upkeeps : upkeep'[d][t].at = "upload" =>
          upkeep'[d][t] = upkeep[d][t] /\ ~(d = x /\ t = u)
  BY <1>1 DEF NoUpkeep, SendingTyped, StoresTyped
<1>5. \A d \in Devices : \A k \in pool'[d] : k \in pool[d] \/ (d = x /\ k \in upkeep[x][u].keys)
  BY <1>1 DEF SendingTyped, StoresTyped
<1>6. \A d, s : Known(d, s)' => Known(d, s)
  BY <1>2 DEF Known
<1>7. KeysMove(x, "upload", u, "pool", Nil)
  <2> SUFFICES ASSUME NEW d, NEW t, NEW o, NEW j, OneKey(d, t, o, j)'
               PROVE  \/ OneKey(d, t, o, j) /\ ~(d = x /\ t = "upload" /\ o = u /\ OneKey(x, "pool", Nil, j)')
                      \/ d = x /\ t = "pool" /\ o = Nil /\ OneKey(x, "upload", u, j)
    BY DEF KeysMove
  <2>1. d \in Devices /\ j # Nil
    BY DEF OneKey
  <2>2. CASE t = "pool"
    BY <1>1, <1>5, <2>1, <2>2 DEF OneKey, KeyAt
  <2>3. CASE t = "upload"
    BY <1>4, <2>1, <2>3 DEF OneKey, KeyAt
  <2>4. CASE t # "pool" /\ t # "upload"
    BY <1>2, <1>6, <2>1, <2>4 DEF OneKey, KeyAt
  <2> QED
    BY <2>2, <2>3, <2>4
<1>8. KeysOnce' /\ KeysHeld' /\ KeysOld'
  BY <1>2, <1>7, KeysMoved DEF KeyInv
<1> QED
  BY <1>3, <1>8 DEF KeyInv

\* replenishOneTimePreKeys: the ids are new, so that no key in use is overwritten.
LEMMA ReplenishKeys ==
    ASSUME SendingTyped, KeyInv, NEW x \in Devices, NEW u \in Upkeeps, Replenish(x, u)
    PROVE  KeyInv'
<1> DEFINE n == upkeep[x][u].count
           high == minted[x].high
           keys == Mint(high + 1, n, minted[x].calls)
<1>1. /\ held' = [held EXCEPT ![x] = Saved(@, keys)]
      /\ upkeep' = [upkeep EXCEPT ![x] = [upkeep[x] EXCEPT ![u] =
                        [at |-> "upload", count |-> 0, keys |-> keys]]]
      /\ minted' = [minted EXCEPT ![x] = [high |-> high + n, calls |-> minted[x].calls + 1]]
  BY DEF Replenish
<1>2. UNCHANGED <<pool, theirs, mine, box, confirmed, send>>
  BY DEF Replenish, sessVars, peerVars, dirVars
<1>3. n \in Nat /\ high \in Nat /\ minted[x].calls \in Nat
  BY DEF SendingTyped, StoresTyped, Upkeep
<1>4. \A k \in keys : k.id > high /\ k.id <= high + n /\ k.id \in Nat
  BY <1>3, MintKeys DEF Key
<1>5. Confirmed'
  BY <1>2 DEF KeyInv, Confirmed
<1>6. \A d \in Devices : d # x => held'[d] = held[d] /\ minted'[d].high = minted[d].high
  BY <1>1 DEF SendingTyped, StoresTyped
<1>7. held'[x] = Saved(held[x], keys) /\ minted'[x].high = high + n
  BY <1>1 DEF SendingTyped, StoresTyped
<1>8. \A d \in Devices : \A t \in Upkeeps :
          upkeep'[d][t] = upkeep[d][t] \/ (d = x /\ t = u /\ upkeep'[d][t].keys = keys)
  BY <1>1 DEF SendingTyped, StoresTyped
<1> HIDE DEF n, keys
<1>9. \A d, s : Known(d, s)' => Known(d, s)
  BY <1>2 DEF Known
<1>10. \A t, o : \A k \in keys : ~OneKey(x, t, o, k)
  BY <1>3, <1>4 DEF KeyInv, KeysOld
<1> HIDE DEF high
<1>11. ASSUME NEW d, NEW t, NEW o, NEW k, OneKey(d, t, o, k)'
       PROVE  \/ OneKey(d, t, o, k) /\ (d = x => k \notin keys)
              \/ d = x /\ t = "upload" /\ o = u /\ k \in keys
  <2>1. d \in Devices /\ k # Nil
    BY <1>11 DEF OneKey
  <2>2. CASE t = "upload"
    BY <1>8, <1>10, <1>11, <2>1, <2>2 DEF OneKey, KeyAt
  <2>3. CASE t # "upload"
    BY <1>2, <1>9, <1>10, <1>11, <2>1, <2>3 DEF OneKey, KeyAt
  <2> QED
    BY <2>2, <2>3
<1>12. KeysOnce'
  BY <1>11 DEF KeyInv, KeysOnce
<1>13. KeysOld'
  <2> SUFFICES ASSUME NEW d, NEW t, NEW o, NEW k, OneKey(d, t, o, k)'
               PROVE  k.id <= minted'[d].high
    BY DEF KeysOld
  <2>1. d \in Devices
    BY DEF OneKey
  <2>2. CASE d = x /\ k \in keys
    BY <1>4, <1>7, <2>2
  <2>3. CASE OneKey(d, t, o, k) /\ d # x
    BY <1>6, <2>1, <2>3 DEF KeyInv, KeysOld
  <2>4. CASE OneKey(d, t, o, k) /\ d = x
    <3>1. k.id <= high
      BY <2>4 DEF KeyInv, KeysOld, high
    <3>2. k.id \in Int
      BY <2>1, <2>4 DEF OneKey, KeyAt, Known, SendingTyped, StoresTyped, CallsTyped, SessionsTyped,
                        Upkeep, SendCall, Session, Letter, Key
    <3> QED
      BY <1>3, <1>7, <2>4, <3>1, <3>2
  <2> QED
    BY <1>11, <2>2, <2>3, <2>4
<1>14. KeysHeld'
  <2> SUFFICES ASSUME NEW d, NEW t, NEW o, NEW k, OneKey(d, t, o, k)'
               PROVE  k \in held'[d] \/ (t = "session" /\ o \in theirs'[d])
    BY DEF KeysHeld
  <2>1. d \in Devices
    BY DEF OneKey
  <2>2. CASE d = x /\ k \in keys
    BY <1>7, <2>2 DEF Saved
  <2>3. CASE OneKey(d, t, o, k) /\ d # x
    BY <1>2, <1>6, <2>1, <2>3 DEF KeyInv, KeysHeld
  <2>4. CASE OneKey(d, t, o, k) /\ d = x
    <3>1. k.id <= high /\ (k \in held[x] \/ (t = "session" /\ o \in theirs[x]))
      BY <2>4 DEF KeyInv, KeysOld, KeysHeld, high
    <3>2. \A j \in keys : j.id # k.id
      BY <1>3, <1>4, <3>1
    <3> QED
      BY <1>2, <1>7, <2>4, <3>1, <3>2 DEF Saved
  <2> QED
    BY <1>11, <2>2, <2>3, <2>4
<1> QED
  BY <1>5, <1>12, <1>13, <1>14 DEF KeyInv

\* encrypt: the session of the envelope is the current one, which was known.
LEMMA EncryptKeys ==
    ASSUME SendingTyped, KeyInv, NEW r \in Refs, Encrypt(r)
    PROVE  KeyInv'
<1> DEFINE d == send[r].dev
           s == current[d]
           e == [to |-> d, ref |-> r, tracked |-> d = Primary,
                 session |-> s, prekey |-> s \notin confirmed]
<1>1. UNCHANGED <<minted, held, upkeep, pool, theirs, mine, confirmed>>
  BY DEF Encrypt, keyVars, dirVars, peerVars, sessVars
<1>2. d \in Devices /\ Skip(r)
  BY DEF Encrypt, SendingTyped, CallsTyped
<1>3. \A q \in Refs : send'[q].at = "establish" => send'[q] = send[q]
  BY <1>2 DEF Skip, Loop, Call, SendingTyped, CallsTyped
<1>4. box' = box \/ (s # Nil /\ box' = box \union {e})
  BY DEF Encrypt
<1>5. s # Nil => s \in mine[d] /\ s.dev = d
  BY <1>2 DEF SendingTyped, SessionsTyped
<1>6. e.to = d /\ e.session = s /\ (~e.prekey => s \in confirmed)
  OBVIOUS
<1> HIDE DEF d, s, e
<1>7. \A x \in Devices : \A y : Known(x, y)' => Known(x, y)
  BY <1>1, <1>4, <1>5, <1>6 DEF Known
<1>8. Confirmed'
  BY <1>1, <1>4, <1>5, <1>6 DEF KeyInv, Confirmed
<1>9. \A x, t, o, k : OneKey(x, t, o, k)' => OneKey(x, t, o, k)
  BY <1>1, <1>3, <1>7, KeysStay
<1>10. KeysOnce' /\ KeysHeld' /\ KeysOld'
  BY <1>1, <1>9, KeysDrop DEF KeyInv
<1> QED
  BY <1>8, <1>10 DEF KeyInv

\* A delivery: the handshake's prekey goes, and its session comes to the device.
LEMMA DeliverKeys ==
    ASSUME SendingTyped, KeyInv, NEW e \in box, Deliver(e)
    PROVE  KeyInv'
<1>1. UNCHANGED <<minted, upkeep, pool, send, mine, confirmed>> /\ box' = box \ {e}
  BY DEF Deliver, dirVars, sessVars
<1>2. e \in Letter
  BY DEF SendingTyped, SessionsTyped
<1>3. e.to \in Devices
  BY <1>2 DEF Letter
<1>4. /\ theirs' = [theirs EXCEPT ![e.to] = @ \union {e.session}]
      /\ held' = [held EXCEPT ![e.to] = @ \ {e.session.key}]
  BY KeyInvReads DEF Deliver, Decryptable
<1>5. \A d \in Devices :
          /\ theirs'[d] = IF d = e.to THEN theirs[d] \union {e.session} ELSE theirs[d]
          /\ held'[d] = IF d = e.to THEN held[d] \ {e.session.key} ELSE held[d]
  BY <1>4 DEF SendingTyped, SessionsTyped, StoresTyped
<1>6. \A d \in Devices : \A s : Known(d, s)' => Known(d, s)
  BY <1>1, <1>5 DEF Known
<1>7. \A d, t, o, k : OneKey(d, t, o, k)' => OneKey(d, t, o, k)
  BY <1>1, <1>6, KeysStay
<1>8. \A d \in Devices : theirs[d] \subseteq theirs'[d]
  BY <1>5
<1>9. \A s \in confirmed : s.dev \in Devices /\ s \in theirs'[s.dev]
  BY <1>8 DEF KeyInv, Confirmed
<1>10. Confirmed'
  BY <1>1, <1>8, <1>9 DEF KeyInv, Confirmed, SendingTyped, SessionsTyped, Letter
<1>11. ASSUME NEW d, NEW t, NEW o, NEW k, OneKey(d, t, o, k)',
              k \in held[d] \/ (t = "session" /\ o \in theirs[d])
       PROVE  k \in held'[d] \/ (t = "session" /\ o \in theirs'[d])
  <2>1. d \in Devices /\ k # Nil /\ OneKey(d, t, o, k)
    BY <1>7, <1>11 DEF OneKey
  <2>2. CASE d = e.to /\ k = e.session.key
    <3>1. OneKey(d, "session", e.session, k)
      BY <2>1, <2>2 DEF OneKey, KeyAt, Known
    <3>2. t = "session" /\ o = e.session
      BY <2>1, <3>1 DEF KeyInv, KeysOnce
    <3> QED
      BY <1>5, <2>1, <2>2, <3>2
  <2>3. CASE ~(d = e.to /\ k = e.session.key)
    BY <1>5, <1>11, <2>1, <2>3
  <2> QED
    BY <2>2, <2>3
<1>12. KeysOnce' /\ KeysHeld' /\ KeysOld'
  BY <1>1, <1>7, <1>11, KeysDrop DEF KeyInv
<1> QED
  BY <1>10, <1>12 DEF KeyInv

\* handleDeliver, of a session that was known or that no prekey made.
LEMMA AnswerKeys ==
    ASSUME SendingTyped, KeyInv, NEW x \in Devices, NEW s, s.dev = x, HandleDeliver(s),
           Known(x, s) \/ s.key = Nil,
           \/ s \in theirs[x] /\ UNCHANGED theirs
           \/ theirs[x] = {} /\ theirs' = [theirs EXCEPT ![x] = {s}]
    PROVE  KeyInv'
<1>1. UNCHANGED <<minted, held, upkeep, pool, send, box>> /\ confirmed' = confirmed \union {s}
      /\ mine' = [mine EXCEPT ![x] = @ \union {s}]
  BY DEF HandleDeliver, keyVars, dirVars
<1>2. s \in theirs'[x]
  BY DEF SendingTyped, SessionsTyped
<1>3. \A d \in Devices : \A y \in theirs[d] : y \in theirs'[d]
  BY DEF SendingTyped, SessionsTyped
<1>4. \A d \in Devices : \A y \in theirs'[d] : y \in theirs[d] \/ (d = x /\ y = s)
  BY DEF SendingTyped, SessionsTyped
<1>5. \A d \in Devices : \A y : Known(d, y)' => Known(d, y) \/ (d = x /\ y = s)
  BY <1>1, <1>4 DEF Known, SendingTyped, SessionsTyped
<1>6. \A d \in Devices : \A y : Known(d, y)' /\ y.key # Nil => Known(d, y)
  BY <1>5
<1>7. \A d, t, o, k : OneKey(d, t, o, k)' => OneKey(d, t, o, k)
  BY <1>1, <1>6, KeysStay
<1>8. KeysOnce' /\ KeysHeld' /\ KeysOld'
  BY <1>1, <1>3, <1>7, KeysDrop DEF KeyInv, OneKey
<1>9. Confirmed'
  BY <1>1, <1>2, <1>3 DEF KeyInv, Confirmed, SendingTyped, SessionsTyped, Letter
<1> QED
  BY <1>8, <1>9 DEF KeyInv

\* Every step keeps the keys in order.
LEMMA KeyStep == SendingTyped /\ KeyInv /\ [SendingNext]_sendingVars => KeyInv'
<1> SUFFICES ASSUME SendingTyped, KeyInv, [SendingNext]_sendingVars
             PROVE  KeyInv'
  OBVIOUS
<1>1. ASSUME UNCHANGED <<minted, held, pool, theirs, box>>,
             \A d \in Devices : \A t \in Upkeeps :
                 upkeep'[d][t].at = "upload" => upkeep'[d][t] = upkeep[d][t],
             \A r \in Refs : send'[r].at = "establish" => send'[r] = send[r],
             \A d \in Devices : mine'[d] \subseteq mine[d], confirmed' \subseteq confirmed
      PROVE  KeyInv'
  <2>1. \A d \in Devices : \A s : Known(d, s)' => Known(d, s)
    BY <1>1 DEF Known
  <2>2. \A d, t, o, k : OneKey(d, t, o, k)' => OneKey(d, t, o, k)
    BY <1>1, <2>1, KeysStay
  <2>3. KeysOnce' /\ KeysHeld' /\ KeysOld'
    BY <1>1, <2>2, KeysDrop DEF KeyInv
  <2>4. Confirmed'
    BY <1>1 DEF KeyInv, Confirmed
  <2> QED
    BY <2>3, <2>4 DEF KeyInv
<1>2. ASSUME NEW r \in Refs,
             \/ SendText(r) \/ DevicesForPeer(r) \/ (\E d \in Devices : EnsureSession(r, d))
             \/ FetchFails(r) \/ EstablishThrows(r)
      PROVE  KeyInv'
  <2>1. UNCHANGED <<minted, held, pool, theirs, box, upkeep, mine, confirmed>>
    BY <1>2 DEF SendText, DevicesForPeer, EnsureSession, FetchFails, EstablishThrows, sessVars, peerVars, dirVars, keyVars
  <2>2. \E x : Call(r, x) /\ x.at # "establish"
    <3>1. ASSUME NEW todo
          PROVE  Loop(todo).at # "establish"
      BY DEF Loop
    <3>2. CASE SendText(r)
      BY <3>1, <3>2 DEF SendText
    <3>3. CASE DevicesForPeer(r)
      BY <3>1, <3>3 DEF DevicesForPeer
    <3>4. CASE \E d \in Devices : EnsureSession(r, d)
      BY <3>4 DEF EnsureSession
    <3>5. CASE FetchFails(r) \/ EstablishThrows(r)
      BY <3>1, <3>5 DEF FetchFails, EstablishThrows, Skip, Await
    <3> QED
      BY <1>2, <3>2, <3>3, <3>4, <3>5
  <2>3. \A q \in Refs : send'[q].at = "establish" => send'[q] = send[q]
    BY <2>2 DEF Call, SendingTyped, CallsTyped
  <2> QED
    BY <1>1, <2>1, <2>3
<1>3. ASSUME NEW d \in Devices, NEW t \in Upkeeps, PoolSize(d, t)
      PROVE  KeyInv'
  <2>1. UNCHANGED <<minted, held, pool, theirs, box, send, mine, confirmed>>
    BY <1>3 DEF PoolSize, sessVars, peerVars, dirVars
  <2>2. \A b \in Devices : \A u \in Upkeeps :
            upkeep'[b][u].at = "upload" => upkeep'[b][u] = upkeep[b][u]
    BY <1>3 DEF PoolSize, SendingTyped, StoresTyped
  <2> QED
    BY <1>1, <2>1, <2>2
<1>4. ASSUME NEW d \in Devices, NEW s \in mine[d], Answer(s)
      PROVE  KeyInv'
  <2>1. s.dev = d
    BY DEF SendingTyped, SessionsTyped
  <2> QED
    BY <1>4, <2>1, AnswerKeys DEF Answer, Known
<1>5. ASSUME NEW d \in Devices, WriteFirst(d)
      PROVE  KeyInv'
  <2> DEFINE s == [dev |-> d, by |-> Nil, key |-> Nil]
  <2>1. s.dev = d /\ s.key = Nil
    OBVIOUS
  <2>2. theirs[d] = {} /\ theirs' = [theirs EXCEPT ![d] = {s}] /\ HandleDeliver(s)
    BY <1>5 DEF WriteFirst
  <2> HIDE DEF s
  <2> QED
    BY <2>1, <2>2, AnswerKeys
<1>6. CASE Relaunch
  <2>1. UNCHANGED <<minted, held, pool, theirs, box, upkeep, mine, confirmed>>
    BY <1>6 DEF Relaunch, dirVars, keyVars, peerVars
  <2>2. \A q \in Refs : send'[q].at # "establish"
    BY <1>6 DEF Relaunch, Unsent, Loop
  <2> QED
    BY <1>1, <2>1, <2>2
<1>7. CASE OnboardAgain
  <2>1. UNCHANGED <<minted, held, pool, theirs, box, upkeep, send>> /\ confirmed' = {}
        /\ mine' = [d \in Devices |-> {}]
    BY <1>7 DEF OnboardAgain, dirVars, keyVars, peerVars
  <2> QED
    BY <1>1, <2>1
<1>8. ASSUME UNCHANGED <<minted, held, pool, theirs, box, upkeep, send, mine, confirmed>>
      PROVE  KeyInv'
  BY <1>1, <1>8
<1>9. ASSUME NEW r \in Refs, HandleAck(r) \/ HandleStatus(r)
      PROVE  KeyInv'
  BY <1>8, <1>9 DEF HandleAck, HandleStatus, sessVars, peerVars, dirVars, keyVars
<1>10. ASSUME NEW d \in Devices, Relink(d)
       PROVE  KeyInv'
  BY <1>8, <1>10 DEF Relink, sessVars, peerVars, keyVars
<1>11. CASE Socket \/ CacheExpires \/ UNCHANGED sendingVars
  BY <1>8, <1>11 DEF Socket, CacheExpires, sendingVars, sessVars, peerVars, dirVars, keyVars
<1> QED
  BY <1>2, <1>3, <1>4, <1>5, <1>6, <1>7, <1>9, <1>10, <1>11, FetchKeys, EstablishKeys, EncryptKeys,
     DeliverKeys, UploadKeys, ReplenishKeys DEF SendingNext, SettleSend

\* ensureSession, encrypt and the prekey upkeep: for any number of devices, sends
\* and upkeep calls, an envelope on its way can be read by its device, which has
\* the session or the prekey of the handshake.
THEOREM SentIsReadable == SendingSpec => []Decryptable
<1>1. SendingInit => KeyInv
  <2> SUFFICES ASSUME SendingInit
               PROVE  KeyInv
    OBVIOUS
  <2>1. \A d \in Devices : pool[d] = Mint(1, 1, 0) /\ held[d] = pool[d] /\ minted[d].high = 1
    BY DEF SendingInit
  <2>2. \A d, t, o, k : OneKey(d, t, o, k) => t = "pool" /\ o = Nil /\ k \in pool[d] /\ d \in Devices
    BY DEF SendingInit, OneKey, KeyAt, Known, Unsent, NoUpkeep
  <2>3. \A k \in Mint(1, 1, 0) : k.id <= 1
    BY DEF Mint
  <2>4. KeysOnce
    BY <2>2 DEF KeysOnce
  <2>5. KeysHeld
    BY <2>1, <2>2 DEF KeysHeld
  <2>6. KeysOld
    BY <2>1, <2>2, <2>3 DEF KeysOld
  <2>7. Confirmed
    BY DEF SendingInit, Confirmed
  <2> QED
    BY <2>4, <2>5, <2>6, <2>7 DEF KeyInv
<1>2. SendingTyped /\ KeyInv => Decryptable
  BY KeyInvReads
<1> QED
  BY <1>1, <1>2, SendingTypes, KeyStep, PTL DEF SendingSpec

=============================================================================
