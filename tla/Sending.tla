------------------------------- MODULE Sending -------------------------------
(***************************************************************************)
(* Encrypted sending: HwfaClient.sendText to a peer account with several   *)
(* devices, the sessions it needs, and the one-time prekeys those are made *)
(* from (packages/client/src/client.ts, packages/crypto, the providers).   *)
(*                                                                         *)
(* Several sendText calls of one client run concurrently, each suspended   *)
(* at an await; device lists, bundles and the relay may fail at each.  The *)
(* peer's devices keep their prekey pools filled, possibly by two calls of *)
(* maintainPreKeys at a time.  Of libsignal only this is modelled: a       *)
(* session is made from a bundle, a message of a session no reply has      *)
(* confirmed carries the handshake, the handshake needs the private half   *)
(* of the one-time prekey, which it consumes.  A provider call is atomic.  *)
(* A sender that is itself a device of the peer account is left out.       *)
(***************************************************************************)
EXTENDS Naturals, FiniteSets

CONSTANTS
    Devices,    \* the devices that may be on the peer's account
    Primary,    \* the one whose id is the account id
    Refs,       \* bound: the messages sent, named by their clientRef
    LowWater,   \* PREKEY_LOW_WATER
    Target,     \* PREKEY_TARGET
    MaxKeyId,   \* bound: prekey ids
    Upkeeps,    \* bound: maintainPreKeys calls of a device under way
    MaxEnds,    \* bound: relaunches and new onboardings
    Nil

ASSUME SendingAssumption ==
    /\ Primary \in Devices
    /\ {LowWater, Target, MaxKeyId, MaxEnds} \subseteq Nat
    /\ LowWater <= Target
    /\ Nil \notin Devices

VARIABLES
    conn,          \* whether HwfaClient.relay is set
    send,          \* ref -> its sendText call
    cache,         \* peerDevices: the cached list, or Nil
    peerDevice,    \* devices a session is taken to exist with
    peerIdentity,  \* devices whose identity key is known
    mine,          \* the sessions of this device's store, by device
    current,       \* the one of them encrypt uses, by device, or Nil
    confirmed,     \* the sessions a reply has confirmed
    linked,        \* the devices the directory lists
    pool,          \* the directory's one-time prekeys, by device
    held,          \* private halves in a device's store
    minted,        \* preKeyHigh and the number of mint calls, by device
    upkeep,        \* a device's maintainPreKeys calls
    theirs,        \* the sessions of a device's store
    box,           \* envelopes on their way to a device
    upstream,            \* acks and delivered statuses on their way to the client
    envelopeToRef, \* messages whose ack has come
    status,        \* the tick of a message
    reached,       \* messages that reached the primary device's socket
    ends           \* relaunches, new onboardings

dirVars == <<linked, pool>>
keyVars == <<held, minted, upkeep>>
sessVars == <<peerDevice, peerIdentity, mine, current, confirmed>>
peerVars == <<theirs, reached>>
tickVars == <<upstream, envelopeToRef, status>>
sendingVars == <<conn, send, cache, sessVars, dirVars, keyVars, peerVars, box, tickVars, ends>>

\* A one-time prekey is a record of its id and the mint call that made it; a
\* session one of the device, the call that made it (by; Nil: the peer did) and
\* the one-time prekey it was made from (key; Nil: the bundle had none).
Unsent == [at |-> "idle", dev |-> Nil, todo |-> {}, key |-> Nil]
NoUpkeep == [at |-> "idle", count |-> 0, keys |-> {}]

\* generateRegistration and mintOneTimePreKeys: count keys from id start on.
Mint(start, count, call) == {[id |-> i, mint |-> call] : i \in start..(start + count - 1)}

\* What savePreKey leaves of a store: a key of the same id is overwritten.
Saved(store, keys) == {k \in store : \A j \in keys : j.id # k.id} \union keys

SendingInit ==
    /\ conn = TRUE
    /\ send = [r \in Refs |-> Unsent]
    /\ cache = Nil
    /\ peerDevice = {} /\ peerIdentity = {}
    /\ mine = [d \in Devices |-> {}]
    /\ current = [d \in Devices |-> Nil]
    /\ confirmed = {}
    /\ linked = {Primary}
    /\ pool = [d \in Devices |-> Mint(1, 1, 0)]
    /\ held = pool
    /\ minted = [d \in Devices |-> [high |-> 1, calls |-> 1]]
    /\ upkeep = [d \in Devices |-> [t \in Upkeeps |-> NoUpkeep]]
    /\ theirs = [d \in Devices |-> {}]
    /\ box = {} /\ upstream = {} /\ envelopeToRef = {} /\ reached = {}
    /\ status = [r \in Refs |-> "sending"]
    /\ ends = 0

-----------------------------------------------------------------------------
(* sendText.                                                               *)

Call(r, x) == send' = [send EXCEPT ![r] = x]

\* The loop over the devices, in the order the directory gave.
Loop(todo) ==
    [at |-> IF todo = {} THEN "done" ELSE "loop", dev |-> Nil, todo |-> todo, key |-> Nil]
Skip(r) == Call(r, Loop(send[r].todo))

\* The call goes on to its next await, for the same device.
Await(r, at, k) == Call(r, [at |-> at, dev |-> send[r].dev, todo |-> send[r].todo, key |-> k])

SendText(r) ==
    /\ conn /\ send[r].at = "idle"
    /\ Call(r, IF cache # Nil /\ cache.fresh THEN Loop(cache.devices)
               ELSE [at |-> "devices", dev |-> Nil, todo |-> {}, key |-> Nil])
    /\ UNCHANGED <<conn, cache, sessVars, dirVars, keyVars, peerVars, box, tickVars, ends>>

\* devicesForPeer: the answer, or just the peer when the lookup fails, is cached.
DevicesForPeer(r) ==
    /\ send[r].at = "devices"
    /\ \E devices \in {linked \union {Primary}, {Primary}} :
        /\ cache' = [devices |-> devices, fresh |-> TRUE]
        /\ Call(r, Loop(devices))
    /\ UNCHANGED <<conn, sessVars, dirVars, keyVars, peerVars, box, tickVars, ends>>

\* ensureSession upstream to its first await.
EnsureSession(r, d) ==
    /\ send[r].at = "loop" /\ d \in send[r].todo
    /\ Call(r, [at |-> CASE d \notin peerDevice -> "bundle"
                         [] d \in peerDevice \ peerIdentity -> "backfill"
                         [] OTHER -> "encrypt",
                dev |-> d, todo |-> send[r].todo \ {d}, key |-> Nil])
    /\ UNCHANGED <<conn, cache, sessVars, dirVars, keyVars, peerVars, box, tickVars, ends>>

\* Mutant of FetchBundle: a key that was handed out stays in the pool.
FetchBundleKept(r) ==
    /\ send[r].at \in {"bundle", "backfill"}
    /\ \E k \in IF pool[send[r].dev] = {} THEN {Nil} ELSE pool[send[r].dev] :
        IF send[r].at = "bundle"
        THEN /\ Await(r, "establish", k)
             /\ UNCHANGED peerIdentity
        ELSE /\ Await(r, "encrypt", Nil)
             /\ peerIdentity' = peerIdentity \union {send[r].dev}
    /\ UNCHANGED <<conn, cache, peerDevice, mine, current, confirmed, dirVars, keyVars,
                   peerVars, box, tickVars, ends>>

\* fetchBundle: the directory hands out a one-time prekey while it has one.
FetchBundle(r) ==
    /\ send[r].at \in {"bundle", "backfill"}
    /\ \E k \in IF pool[send[r].dev] = {} THEN {Nil} ELSE pool[send[r].dev] :
        /\ pool' = [pool EXCEPT ![send[r].dev] = @ \ {k}]
        /\ IF send[r].at = "bundle"
           THEN /\ Await(r, "establish", k)
                /\ UNCHANGED peerIdentity
           ELSE /\ Await(r, "encrypt", Nil)
                /\ peerIdentity' = peerIdentity \union {send[r].dev}
    /\ UNCHANGED <<conn, cache, peerDevice, mine, current, confirmed, linked, keyVars,
                   peerVars, box, tickVars, ends>>

\* A failed fetch costs this device its copy, or only the identity key.
FetchFails(r) ==
    /\ send[r].at \in {"bundle", "backfill"}
    /\ IF send[r].at = "bundle" THEN Skip(r)
       ELSE Await(r, "encrypt", Nil)
    /\ UNCHANGED <<conn, cache, sessVars, dirVars, keyVars, peerVars, box, tickVars, ends>>

\* establishSession: a session that was there before is archived.
Establish(r) ==
    /\ send[r].at = "establish"
    /\ LET d == send[r].dev
           s == [dev |-> d, by |-> r, key |-> send[r].key]
       IN  /\ mine' = [mine EXCEPT ![d] = @ \union {s}]
           /\ current' = [current EXCEPT ![d] = s]
           /\ peerDevice' = peerDevice \union {d}
           /\ peerIdentity' = peerIdentity \union {d}
    /\ Await(r, "encrypt", Nil)
    /\ UNCHANGED <<conn, cache, confirmed, dirVars, keyVars, peerVars, box, tickVars, ends>>

\* The native establishSession throws without a one-time prekey ("pool exhausted
\* upstream"); the one of packages/crypto goes on without.  This device has no copy.
EstablishThrows(r) ==
    /\ send[r].at = "establish" /\ send[r].key = Nil
    /\ Skip(r)
    /\ UNCHANGED <<conn, cache, sessVars, dirVars, keyVars, peerVars, box, tickVars, ends>>

\* Mutant of Encrypt: the copies of linked devices carry the clientRef as well.
EncryptTracked(r) ==
    /\ send[r].at = "encrypt"
    /\ LET d == send[r].dev
           s == current[d]
       IN  IF s = Nil \/ ~conn THEN UNCHANGED <<box, upstream>>
           ELSE /\ box' = box \union {[to |-> d, ref |-> r, tracked |-> TRUE,
                                       session |-> s, prekey |-> s \notin confirmed]}
                /\ upstream' = upstream \union {[kind |-> "ack", ref |-> r]}
    /\ Skip(r)
    /\ UNCHANGED <<conn, cache, sessVars, dirVars, keyVars, peerVars,
                   envelopeToRef, status, ends>>

\* encrypt and sendEnvelope.  Without a session or a relay they throw, which the
\* loop swallows.  Only the primary's copy is tracked, and acknowledged by ref.
Encrypt(r) ==
    /\ send[r].at = "encrypt"
    /\ LET d == send[r].dev
           s == current[d]
       IN  IF s = Nil \/ ~conn THEN UNCHANGED <<box, upstream>>
           ELSE /\ box' = box \union {[to |-> d, ref |-> r, tracked |-> d = Primary,
                                       session |-> s, prekey |-> s \notin confirmed]}
                /\ upstream' = upstream \union IF d = Primary THEN {[kind |-> "ack", ref |-> r]} ELSE {}
    /\ Skip(r)
    /\ UNCHANGED <<conn, cache, sessVars, dirVars, keyVars, peerVars,
                   envelopeToRef, status, ends>>

-----------------------------------------------------------------------------
(* Acks and statuses.  The relay sends both from different goroutines, so  *)
(* they arrive in either order.  What the relay loses stays under way for  *)
(* ever.                                                                   *)

HandleAck(r) ==
    /\ [kind |-> "ack", ref |-> r] \in upstream
    /\ upstream' = upstream \ {[kind |-> "ack", ref |-> r]}
    /\ envelopeToRef' = envelopeToRef \union {r}
    /\ status' = [status EXCEPT ![r] = IF @ = "sending" THEN "sent" ELSE @]
    /\ UNCHANGED <<conn, send, cache, sessVars, dirVars, keyVars, peerVars, box, ends>>

\* handleStatus: a status whose ack has not come finds no clientRef.
HandleStatus(r) ==
    /\ [kind |-> "delivered", ref |-> r] \in upstream
    /\ upstream' = upstream \ {[kind |-> "delivered", ref |-> r]}
    /\ status' = [status EXCEPT ![r] = IF r \in envelopeToRef THEN "delivered" ELSE @]
    /\ UNCHANGED <<conn, send, cache, sessVars, dirVars, keyVars, peerVars, box,
                   envelopeToRef, ends>>

-----------------------------------------------------------------------------
(* The peer's devices.                                                     *)

Readable(e) ==
    \/ e.session \in theirs[e.to]
    \/ e.prekey /\ e.session.key \in held[e.to] \union {Nil}

\* A delivered envelope is receipted at once, then decrypted: the handshake's
\* prekey is removed.  One that cannot be decrypted is gone.
Deliver(e) ==
    /\ e \in box
    /\ box' = box \ {e}
    /\ upstream' = upstream \union IF e.tracked THEN {[kind |-> "delivered", ref |-> e.ref]} ELSE {}
    /\ reached' = reached \union IF e.to = Primary THEN {e.ref} ELSE {}
    /\ IF Readable(e)
       THEN /\ theirs' = [theirs EXCEPT ![e.to] = @ \union {e.session}]
            /\ held' = [held EXCEPT ![e.to] = @ \ {e.session.key}]
       ELSE UNCHANGED <<theirs, held>>
    /\ UNCHANGED <<conn, send, cache, sessVars, dirVars, minted, upkeep,
                   envelopeToRef, status, ends>>

\* handleDeliver: a message of the session s is decrypted; libsignal makes s the
\* current one, and the device counts as known.
HandleDeliver(s) ==
    /\ conn
    /\ mine' = [mine EXCEPT ![s.dev] = @ \union {s}]
    /\ current' = [current EXCEPT ![s.dev] = s]
    /\ confirmed' = confirmed \union {s}
    /\ peerDevice' = peerDevice \union {s.dev}
    /\ UNCHANGED <<conn, send, cache, peerIdentity, dirVars, keyVars, reached, box,
                   tickVars, ends>>

\* A device answers in a session both have, or writes first.
Answer(s) == s \in theirs[s.dev] \intersect mine[s.dev] /\ HandleDeliver(s) /\ UNCHANGED theirs

WriteFirst(d) ==
    /\ theirs[d] = {}
    /\ LET s == [dev |-> d, by |-> Nil, key |-> Nil]
       IN  theirs' = [theirs EXCEPT ![d] = {s}] /\ HandleDeliver(s)

\* The peer links or revokes a device.
Relink(d) ==
    /\ d # Primary
    /\ linked' = IF d \in linked THEN linked \ {d} ELSE linked \union {d}
    /\ UNCHANGED <<conn, send, cache, sessVars, pool, keyVars, peerVars, box, tickVars, ends>>

\* maintainPreKeys: poolSize has answered.
PoolSize(d, t) ==
    /\ upkeep[d][t].at = "idle" /\ minted[d].high + Target <= MaxKeyId
    /\ LET size == Cardinality(pool[d])
       IN  /\ size < LowWater
           /\ upkeep' = [upkeep EXCEPT ![d] = [upkeep[d] EXCEPT ![t] =
                            [at |-> "mint", count |-> Target - size, keys |-> {}]]]
    /\ UNCHANGED <<conn, send, cache, sessVars, dirVars, held, minted, peerVars, box,
                   tickVars, ends>>

\* replenishOneTimePreKeys: the private halves are stored, ids after preKeyHigh.
Replenish(d, t) ==
    /\ upkeep[d][t].at = "mint"
    /\ LET keys == Mint(minted[d].high + 1, upkeep[d][t].count, minted[d].calls)
       IN  /\ held' = [held EXCEPT ![d] = Saved(@, keys)]
           /\ upkeep' = [upkeep EXCEPT ![d] = [upkeep[d] EXCEPT ![t] =
                            [at |-> "upload", count |-> 0, keys |-> keys]]]
    /\ minted' = [minted EXCEPT ![d] = [high |-> @.high + upkeep[d][t].count,
                                        calls |-> @.calls + 1]]
    /\ UNCHANGED <<conn, send, cache, sessVars, dirVars, peerVars, box, tickVars, ends>>

\* uploadOneTimePreKeys succeeds, or fails for good.
Upload(d, t) ==
    /\ upkeep[d][t].at = "upload"
    /\ upkeep' = [upkeep EXCEPT ![d] = [upkeep[d] EXCEPT ![t] = NoUpkeep]]
    /\ \/ pool' = [pool EXCEPT ![d] = @ \union upkeep[d][t].keys]
       \/ UNCHANGED pool
    /\ UNCHANGED <<conn, send, cache, sessVars, linked, held, minted, peerVars, box,
                   tickVars, ends>>

-----------------------------------------------------------------------------
(* The client's surroundings.                                              *)

\* The socket is lost, or a new one is there.
Socket ==
    /\ conn' = ~conn
    /\ UNCHANGED <<send, cache, sessVars, dirVars, keyVars, peerVars, box, tickVars, ends>>

\* DEVICE_LIST_TTL_MS has passed since the list was cached.
CacheExpires ==
    /\ cache # Nil /\ cache.fresh
    /\ cache' = [cache EXCEPT !.fresh = FALSE]
    /\ UNCHANGED <<conn, send, sessVars, dirVars, keyVars, peerVars, box, tickVars, ends>>

End == ends < MaxEnds /\ ends' = ends + 1

\* The process dies and comes back: the maps of the client are empty, calls under
\* way are gone, the sessions are in the native store.
Relaunch ==
    /\ End
    /\ send' = [r \in Refs |-> IF send[r].at = "idle" THEN Unsent ELSE Loop({})]
    /\ cache' = Nil /\ peerDevice' = {} /\ peerIdentity' = {} /\ envelopeToRef' = {}
    /\ UNCHANGED <<conn, mine, current, confirmed, dirVars, keyVars, peerVars, box, upstream, status>>

\* Sign-out and a new onboarding in the same process: generateRegistration starts
\* with empty stores, the client keeps its maps; the answers go to the old account.
OnboardAgain ==
    /\ End
    /\ mine' = [d \in Devices |-> {}]
    /\ current' = [d \in Devices |-> Nil]
    /\ confirmed' = {} /\ upstream' = {}
    /\ UNCHANGED <<conn, send, cache, peerDevice, peerIdentity, dirVars, keyVars, peerVars,
                   box, envelopeToRef, status>>

\* One of the awaits of sendText is settled.
SettleSend(r) ==
    \/ DevicesForPeer(r) \/ \E d \in Devices : EnsureSession(r, d)
    \/ FetchBundle(r) \/ FetchFails(r)
    \/ Establish(r) \/ EstablishThrows(r) \/ Encrypt(r)

SendingNext ==
    \/ \E r \in Refs : SendText(r) \/ SettleSend(r) \/ HandleAck(r) \/ HandleStatus(r)
    \/ \E e \in box : Deliver(e)
    \/ \E d \in Devices :
        \/ \E s \in mine[d] : Answer(s)
        \/ WriteFirst(d) \/ Relink(d)
        \/ \E t \in Upkeeps : PoolSize(d, t) \/ Replenish(d, t) \/ Upload(d, t)
    \/ Socket \/ CacheExpires \/ Relaunch \/ OnboardAgain

SendingSpec == SendingInit /\ [][SendingNext]_sendingVars

-----------------------------------------------------------------------------
(* Properties.                                                             *)

\* Whatever was sent can be read: no interleaving of sends that establish twice,
\* of prekey upkeep, of answers and of relaunches makes an envelope whose device
\* has neither the session nor the prekey of its handshake.
Decryptable == \A e \in box : Readable(e)

\* A delivered tick is the primary device's: copies to linked devices, lost or
\* overtaking acks never make one.
DeliveredTrue == \A r \in Refs : status[r] = "delivered" => r \in reached

\* Violated: a known device has a session ("The session already exists").
SessionExists == \A d \in peerDevice : current[d] # Nil
=============================================================================
