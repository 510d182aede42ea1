----------------------------- MODULE Discovery -----------------------------
(***************************************************************************)
(* The discovery service (backend/discovery, backend/authtoken): accounts, *)
(* phone verification, bearer tokens, one-time prekeys, device linking and *)
(* contact discovery, saved to a file after every change.                  *)
(*                                                                         *)
(* A bearer token is checked without the store's lock and without the      *)
(* store's state; the operation it admits takes the lock later.  Between   *)
(* the two the account may be deleted, the device revoked, the token run   *)
(* out or the service restart, so the two are separate steps here.         *)
(***************************************************************************)
EXTENDS Naturals, Sequences, FiniteSets, SequencesExt

CONSTANTS
    Users,            \* the ids newUUID hands out, one per device
    Phones,           \* phone numbers
    Salts,            \* what rand.Read yields for the salt
    LinkCodes,        \* what newToken yields
    NoAccount, NoCode, NoToken, NoWindow,    \* absent map entries
    NoHash,           \* the phoneHashB64 "" of a linked device
    NoFile,           \* the salt in a file that does not exist yet
    Keys,             \* how many one-time prekeys a device publishes at a time
    Batches,          \* sizes of intersect requests, none above maxIntersectHashes
    DiskFaults,       \* whether saving and loading the file may fail
    AccessTTL, RefreshTTL, LinkTTL, OtpTTL, RegisterCooldown, IntersectWindow,
    MaxOTPAttempts, IntersectBudget,
    MaxReqs,          \* bound: requests under way at a time
    MaxKeys,          \* bound: prekeys published in all
    MaxTime           \* bound: how far the clock advances

ASSUME DiscoveryAssumption ==
    /\ NoHash \notin Salts \X Phones
    /\ NoAccount \notin [accountID : Users, hash : (Salts \X Phones) \cup {NoHash},
                         oneTime : Seq(Nat), verified : BOOLEAN]
    /\ NoCode \notin [exp : Nat, attempts : Nat]
    /\ NoToken \notin [accountID : Users, exp : Nat]
    /\ NoWindow \notin [start : Nat, used : Nat]
    /\ Salts # {}
    /\ NoFile \notin Salts
    /\ Batches \subseteq Nat
    /\ DiskFaults \in BOOLEAN
    /\ \A n \in {Keys, AccessTTL, RefreshTTL, LinkTTL, OtpTTL, RegisterCooldown,
                 IntersectWindow, IntersectBudget, MaxReqs, MaxKeys, MaxTime} : n \in Nat
    /\ MaxOTPAttempts \in Nat \ {0}

VARIABLES
    now,           \* the clock
    salt,          \* Store.salt
    accounts,      \* Store.accounts: user -> record, or NoAccount
    pending,       \* Store.pending: user -> code awaiting verification
    lastRegister,  \* Store.lastRegister: number -> time, empty when never
    intersectUse,  \* Store.intersectUse: user -> rate window, or NoWindow
    linkTokens,    \* Store.linkTokens: code -> account and expiry
    disk,          \* the file at Store.path; its salt is NoFile before the first save
    lag,           \* "synced", "behind" (a save failed since the last good one) or
                   \* "rewound" (the service restarted from such a file, or from none)
    reqs,          \* requests between the steps of their handler
    access,        \* user -> expiry of its latest access token
    refresh,       \* user -> expiry of its latest refresh token
    issued,        \* the user ids handed out so far
    minted,        \* the last prekey published
    handed,        \* the prekeys handed to a peer
    goneAt         \* user -> when its record last disappeared

vars == <<now, salt, accounts, pending, lastRegister, intersectUse, linkTokens, disk,
          lag, reqs, access, refresh, issued, minted, handed, goneAt>>

(***************************************************************************)
(* The records.  Only the tokens with the latest expiry matter: the clock  *)
(* does not go back, so a user's latest token outlives its earlier ones.   *)
(* A phone hash is the pair of the salt and the number.  The key bundle's  *)
(* other keys never change and are left out.                               *)
(***************************************************************************)
Hashes == Salts \X Phones

Account == [accountID : Users, hash : Hashes \cup {NoHash},
            oneTime : Seq(Nat), verified : BOOLEAN]

NoAccounts == [u \in Users |-> NoAccount]

Live(u) == accounts[u] # NoAccount

Verified(u) == Live(u) /\ accounts[u].verified

OnAccount(id) == {u \in Users : Live(u) /\ accounts[u].accountID = id}

\* A device's next batch of one-time prekeys.
FreshKeys == [i \in 1..Keys |-> minted + i]

NewAccount(id, h, v) ==
    [accountID |-> id, hash |-> h, oneTime |-> FreshKeys, verified |-> v]

\* A request that has passed bearerUser ("access"), authtoken.Verify of a refresh
\* token ("refresh"), or accountIDFor on its way to createLinkToken ("mint").
Request == [kind : {"access", "refresh", "mint"}, uid : Users]

Req(k, u) == [kind |-> k, uid |-> u]

\* authtoken.parse: a token is good strictly before its expiry.
Unexpired(exp) == now < exp

\* issueTokens.
IssueTokens(u) ==
    /\ access' = [access EXCEPT ![u] = now + AccessTTL]
    /\ refresh' = [refresh EXCEPT ![u] = now + RefreshTTL]

\* Bound: as for the relay, no further disk fault after a rewind.
DiskFails == DiskFaults /\ lag # "rewound"

\* persistLocked, of the salt and the accounts: an atomic rename, or a failure
\* that is only logged.
Persist(accts) ==
    \/ /\ disk' = [salt |-> salt, accounts |-> accts]
       /\ lag' = IF lag = "rewound" THEN lag ELSE "synced"
    \/ /\ DiskFails
       /\ lag' = "behind"
       /\ UNCHANGED disk

\* Records the moment at which accounts disappear.
Disappear(accts) ==
    goneAt' = [u \in Users |-> IF Live(u) /\ accts[u] = NoAccount THEN now ELSE goneAt[u]]

-----------------------------------------------------------------------------
Init ==
    /\ now = 0
    /\ salt \in Salts
    /\ accounts = NoAccounts
    /\ pending = [u \in Users |-> NoCode]
    /\ lastRegister = [p \in Phones |-> {}]
    /\ intersectUse = [u \in Users |-> NoWindow]
    /\ linkTokens = [t \in LinkCodes |-> NoToken]
    /\ disk = [salt |-> NoFile, accounts |-> NoAccounts]
    /\ lag = "synced"
    /\ reqs = {}
    /\ access = [u \in Users |-> 0]
    /\ refresh = [u \in Users |-> 0]
    /\ issued = {}
    /\ minted = 0
    /\ handed = {}
    /\ goneAt = [u \in Users |-> 0]

-----------------------------------------------------------------------------
(* Onboarding: these routes carry no token.                                *)

\* Store.register: refused within the number's cooldown.
Register(u, p) ==
    /\ u \notin issued
    /\ minted + Keys <= MaxKeys
    /\ \A last \in lastRegister[p] : now >= last + RegisterCooldown
    /\ lastRegister' = [lastRegister EXCEPT ![p] = {now}]
    /\ accounts' = [accounts EXCEPT ![u] = NewAccount(u, <<salt, p>>, FALSE)]
    /\ pending' = [pending EXCEPT ![u] = [exp |-> now + OtpTTL, attempts |-> 0]]
    /\ Persist(accounts')
    /\ issued' = issued \cup {u}
    /\ minted' = minted + Keys
    /\ UNCHANGED <<now, salt, intersectUse, linkTokens, reqs, access, refresh, handed, goneAt>>

\* Store.verify with the right code, in time.
VerifyOK(u) ==
    /\ pending[u] # NoCode
    /\ now <= pending[u].exp
    /\ Live(u)
    /\ accounts' = [accounts EXCEPT ![u].verified = TRUE]
    /\ pending' = [pending EXCEPT ![u] = NoCode]
    /\ Persist(accounts')
    /\ IssueTokens(u)
    /\ UNCHANGED <<now, salt, lastRegister, intersectUse, linkTokens, reqs, issued, minted,
                   handed, goneAt>>

\* Store.verify with a wrong code: the last guess allowed burns the code.
VerifyWrong(u) ==
    /\ pending[u] # NoCode
    /\ now <= pending[u].exp
    /\ pending' = [pending EXCEPT ![u] =
                      IF @.attempts + 1 >= MaxOTPAttempts THEN NoCode
                      ELSE [exp |-> @.exp, attempts |-> @.attempts + 1]]
    /\ UNCHANGED <<now, salt, accounts, lastRegister, intersectUse, linkTokens, disk, lag,
                   reqs, access, refresh, issued, minted, handed, goneAt>>

\* Store.verify with any code after the expiry.
VerifyLate(u) ==
    /\ pending[u] # NoCode
    /\ now > pending[u].exp
    /\ pending' = [pending EXCEPT ![u] = NoCode]
    /\ UNCHANGED <<now, salt, accounts, lastRegister, intersectUse, linkTokens, disk, lag,
                   reqs, access, refresh, issued, minted, handed, goneAt>>

-----------------------------------------------------------------------------
(* The first step of the routes with a token: nothing but the token is     *)
(* looked at, so a device that has been revoked passes until it expires.   *)

Authorize(u) ==
    /\ Unexpired(access[u])
    /\ Cardinality(reqs) < MaxReqs
    /\ reqs' = reqs \cup {Req("access", u)}
    /\ UNCHANGED <<now, salt, accounts, pending, lastRegister, intersectUse, linkTokens,
                   disk, lag, access, refresh, issued, minted, handed, goneAt>>

PresentRefresh(u) ==
    /\ Unexpired(refresh[u])
    /\ Cardinality(reqs) < MaxReqs
    /\ reqs' = reqs \cup {Req("refresh", u)}
    /\ UNCHANGED <<now, salt, accounts, pending, lastRegister, intersectUse, linkTokens,
                   disk, lag, access, refresh, issued, minted, handed, goneAt>>

-----------------------------------------------------------------------------
(* The second step, under the lock, of a request of user u.                *)

Finish(k, u) ==
    /\ Req(k, u) \in reqs
    /\ reqs' = reqs \ {Req(k, u)}

\* The routes that only read (keyPool, devices, myDevices, account, salt), and
\* the refusals of the others.
Answer(u) ==
    /\ Finish("access", u)
    /\ UNCHANGED <<now, salt, accounts, pending, lastRegister, intersectUse, linkTokens,
                   disk, lag, access, refresh, issued, minted, handed, goneAt>>

\* Mutant of Refresh: the account is not looked up again under the lock.
RefreshUnchecked(u) ==
    /\ Finish("refresh", u)
    /\ IssueTokens(u)
    /\ UNCHANGED <<now, salt, accounts, pending, lastRegister, intersectUse, linkTokens,
                   disk, lag, issued, minted, handed, goneAt>>

\* Store.refresh: a new pair, if the device's account is still there.
Refresh(u) ==
    /\ Finish("refresh", u)
    /\ \/ Verified(u) /\ IssueTokens(u)
       \/ ~Verified(u) /\ UNCHANGED <<access, refresh>>
    /\ UNCHANGED <<now, salt, accounts, pending, lastRegister, intersectUse, linkTokens,
                   disk, lag, issued, minted, handed, goneAt>>

\* Mutant of FetchKeys: the shrunken pool is not saved.
FetchKeysUnsaved(u, v) ==
    /\ Finish("access", u)
    /\ Verified(v)
    /\ accounts[v].oneTime # <<>>
    /\ handed' = handed \cup {Head(accounts[v].oneTime)}
    /\ accounts' = [accounts EXCEPT ![v].oneTime = Tail(@)]
    /\ UNCHANGED <<now, salt, pending, lastRegister, intersectUse, linkTokens, disk, lag,
                   access, refresh, issued, minted, goneAt>>

\* Store.bundleFor: hands out the oldest one-time prekey of the pool; an empty
\* pool yields a bundle without one and changes nothing (see Answer).
FetchKeys(u, v) ==
    /\ Finish("access", u)
    /\ Verified(v)
    /\ accounts[v].oneTime # <<>>
    /\ handed' = handed \cup {Head(accounts[v].oneTime)}
    /\ accounts' = [accounts EXCEPT ![v].oneTime = Tail(@)]
    /\ Persist(accounts')
    /\ UNCHANGED <<now, salt, pending, lastRegister, intersectUse, linkTokens,
                   access, refresh, issued, minted, goneAt>>

\* Store.addOneTime.
UploadKeys(u) ==
    /\ Finish("access", u)
    /\ Live(u)
    /\ minted + Keys <= MaxKeys
    /\ accounts' = [accounts EXCEPT ![u].oneTime = @ \o FreshKeys]
    /\ minted' = minted + Keys
    /\ Persist(accounts')
    /\ UNCHANGED <<now, salt, pending, lastRegister, intersectUse, linkTokens,
                   access, refresh, issued, handed, goneAt>>

\* Store.deleteAccount: every device of the caller's account, their codes and
\* the cooldown of their number.  Link codes and rate windows stay.
DeleteAccount(u) ==
    LET devices == OnAccount(accounts[u].accountID)
        numbers == {p \in Phones : \E v \in devices : accounts[v].hash = <<salt, p>>}
    IN  /\ Finish("access", u)
        /\ Live(u)
        /\ lastRegister' = [p \in Phones |-> IF p \in numbers THEN {} ELSE lastRegister[p]]
        /\ pending' = [v \in Users |-> IF v \in devices THEN NoCode ELSE pending[v]]
        /\ accounts' = [v \in Users |-> IF v \in devices THEN NoAccount ELSE accounts[v]]
        /\ Disappear(accounts')
        /\ Persist(accounts')
        /\ UNCHANGED <<now, salt, intersectUse, linkTokens, access, refresh, issued, minted, handed>>

\* Mutant of RemoveDevice: the removal is not saved.
RemoveDeviceUnsaved(u, v) ==
    /\ Finish("access", u)
    /\ Live(u) /\ Live(v)
    /\ accounts[v].accountID = accounts[u].accountID
    /\ v # accounts[v].accountID
    /\ pending' = [pending EXCEPT ![v] = NoCode]
    /\ accounts' = [accounts EXCEPT ![v] = NoAccount]
    /\ Disappear(accounts')
    /\ UNCHANGED <<now, salt, lastRegister, intersectUse, linkTokens, disk, lag, access,
                   refresh, issued, minted, handed>>

\* Store.removeDevice: a device of the same account that is not the primary.
RemoveDevice(u, v) ==
    /\ Finish("access", u)
    /\ Live(u) /\ Live(v)
    /\ accounts[v].accountID = accounts[u].accountID
    /\ v # accounts[v].accountID
    /\ pending' = [pending EXCEPT ![v] = NoCode]
    /\ accounts' = [accounts EXCEPT ![v] = NoAccount]
    /\ Disappear(accounts')
    /\ Persist(accounts')
    /\ UNCHANGED <<now, salt, lastRegister, intersectUse, linkTokens, access, refresh, issued,
                   minted, handed>>

\* The rate window that charges user u now: a new one, if there is none or it has elapsed.
Window(u) ==
    LET w == intersectUse[u]
    IN  IF w = NoWindow \/ now >= w.start + IntersectWindow
        THEN [start |-> now, used |-> 0] ELSE w

\* Mutant of Intersect: the charge is made before it is checked.
IntersectOvercharged(u, n) ==
    LET window == Window(u)
    IN  /\ Finish("access", u)
        /\ intersectUse' = [intersectUse EXCEPT ![u] =
              [start |-> window.start, used |-> window.used + n]]
        /\ UNCHANGED <<now, salt, accounts, pending, lastRegister, linkTokens,
                       disk, lag, access, refresh, issued, minted, handed, goneAt>>

\* Store.allowIntersect, then the read-only Store.intersect: n hashes against
\* the user's window.
Intersect(u, n) ==
    LET window == Window(u)
    IN  /\ Finish("access", u)
        /\ intersectUse' = [intersectUse EXCEPT ![u] =
              IF window.used + n > IntersectBudget THEN window
              ELSE [start |-> window.start, used |-> window.used + n]]
        /\ UNCHANGED <<now, salt, accounts, pending, lastRegister, linkTokens,
                       disk, lag, access, refresh, issued, minted, handed, goneAt>>

-----------------------------------------------------------------------------
(* Linking a device.  The linkToken handler takes the lock twice.          *)

\* accountIDFor ...
LinkToken(u) ==
    /\ Req("access", u) \in reqs
    /\ Verified(u)
    /\ reqs' = (reqs \ {Req("access", u)}) \cup {Req("mint", accounts[u].accountID)}
    /\ UNCHANGED <<now, salt, accounts, pending, lastRegister, intersectUse, linkTokens,
                   disk, lag, access, refresh, issued, minted, handed, goneAt>>

\* ... then createLinkToken.
CreateLinkToken(id, t) ==
    /\ Finish("mint", id)
    /\ linkTokens[t] = NoToken
    /\ linkTokens' = [linkTokens EXCEPT ![t] = [accountID |-> id, exp |-> now + LinkTTL]]
    /\ UNCHANGED <<now, salt, accounts, pending, lastRegister, intersectUse,
                   disk, lag, access, refresh, issued, minted, handed, goneAt>>

\* Mutant of LinkDevice: the account is not looked up again.
LinkDeviceUnchecked(t, u) ==
    /\ linkTokens[t] # NoToken
    /\ now <= linkTokens[t].exp
    /\ u \notin issued
    /\ minted + Keys <= MaxKeys
    /\ accounts' = [accounts EXCEPT ![u] = NewAccount(linkTokens[t].accountID, NoHash, TRUE)]
    /\ linkTokens' = [linkTokens EXCEPT ![t] = NoToken]
    /\ Persist(accounts')
    /\ IssueTokens(u)
    /\ issued' = issued \cup {u}
    /\ minted' = minted + Keys
    /\ UNCHANGED <<now, salt, pending, lastRegister, intersectUse, reqs, handed, goneAt>>

\* linkDevice: the code is the authorization, and is spent.  A code whose account
\* is gone is refused and stays.
LinkDevice(t, u) ==
    /\ linkTokens[t] # NoToken
    /\ now <= linkTokens[t].exp
    /\ Live(linkTokens[t].accountID)
    /\ u \notin issued
    /\ minted + Keys <= MaxKeys
    /\ accounts' = [accounts EXCEPT ![u] = NewAccount(linkTokens[t].accountID, NoHash, TRUE)]
    /\ linkTokens' = [linkTokens EXCEPT ![t] = NoToken]
    /\ Persist(accounts')
    /\ IssueTokens(u)
    /\ issued' = issued \cup {u}
    /\ minted' = minted + Keys
    /\ UNCHANGED <<now, salt, pending, lastRegister, intersectUse, reqs, handed, goneAt>>

LinkLate(t) ==
    /\ linkTokens[t] # NoToken
    /\ now > linkTokens[t].exp
    /\ linkTokens' = [linkTokens EXCEPT ![t] = NoToken]
    /\ UNCHANGED <<now, salt, accounts, pending, lastRegister, intersectUse, disk, lag, reqs,
                   access, refresh, issued, minted, handed, goneAt>>

-----------------------------------------------------------------------------
Tick ==
    /\ now < MaxTime
    /\ now' = now + 1
    /\ UNCHANGED <<salt, accounts, pending, lastRegister, intersectUse, linkTokens, disk, lag,
                   reqs, access, refresh, issued, minted, handed, goneAt>>

\* NewPersistentStore after a crash: the file's salt and accounts, or, without a
\* file that can be read, a fresh salt and nothing else.
Restart ==
    /\ \/ /\ disk.salt # NoFile
          /\ salt' = disk.salt
          /\ accounts' = disk.accounts
          /\ lag' = IF lag = "synced" THEN "synced" ELSE "rewound"
       \/ /\ disk.salt = NoFile \/ DiskFails
          /\ salt' \in Salts
          /\ accounts' = NoAccounts
          /\ lag' = IF disk.salt = NoFile /\ lag = "synced" THEN "synced" ELSE "rewound"
    /\ Disappear(accounts')
    /\ pending' = [u \in Users |-> NoCode]
    /\ lastRegister' = [p \in Phones |-> {}]
    /\ intersectUse' = [u \in Users |-> NoWindow]
    /\ linkTokens' = [t \in LinkCodes |-> NoToken]
    /\ reqs' = {}
    /\ UNCHANGED <<now, disk, access, refresh, issued, minted, handed>>

Onboard(u) ==
    \/ \E p \in Phones : Register(u, p)
    \/ VerifyOK(u)
    \/ VerifyWrong(u)
    \/ VerifyLate(u)

Serve(u) ==
    \/ Authorize(u)
    \/ PresentRefresh(u)
    \/ Answer(u)
    \/ Refresh(u)
    \/ UploadKeys(u)
    \/ DeleteAccount(u)
    \/ LinkToken(u)
    \/ \E v \in Users : FetchKeys(u, v) \/ RemoveDevice(u, v)
    \/ \E n \in Batches : Intersect(u, n)

Link ==
    \E t \in LinkCodes :
        \/ \E u \in Users : CreateLinkToken(u, t) \/ LinkDevice(t, u)
        \/ LinkLate(t)

Next ==
    \/ \E u \in Users : Onboard(u) \/ Serve(u)
    \/ Link
    \/ Tick
    \/ Restart

Spec == Init /\ [][Next]_vars

-----------------------------------------------------------------------------
(* Properties.                                                             *)

\* Every variable has its type; a code has not used up its guesses and a rate
\* window not more than its budget.
TypeOK ==
    /\ now \in Nat
    /\ salt \in Salts
    /\ accounts \in [Users -> Account \cup {NoAccount}]
    /\ pending \in [Users -> [exp : Nat, attempts : 0..(MaxOTPAttempts - 1)] \cup {NoCode}]
    /\ lastRegister \in [Phones -> SUBSET Nat]
    /\ intersectUse \in [Users -> [start : Nat, used : 0..IntersectBudget] \cup {NoWindow}]
    /\ linkTokens \in [LinkCodes -> [accountID : Users, exp : Nat] \cup {NoToken}]
    /\ disk \in [salt : Salts \cup {NoFile}, accounts : [Users -> Account \cup {NoAccount}]]
    /\ lag \in {"synced", "behind", "rewound"}
    /\ reqs \subseteq Request
    /\ access \in [Users -> Nat]
    /\ refresh \in [Users -> Nat]
    /\ issued \subseteq Users
    /\ minted \in Nat
    /\ handed \subseteq Nat
    /\ goneAt \in [Users -> Nat]

\* The devices of accts all belong to an account whose primary is there, is its
\* own account and, if another device joined it, is verified.
Grouped(accts) ==
    \A u \in Users : accts[u] # NoAccount =>
        LET p == accts[u].accountID
        IN  /\ accts[p] # NoAccount
            /\ accts[p].accountID = p
            /\ p # u => accts[p].verified

\* No device is left on an account whose primary is gone, whatever races between
\* linking, revoking, deleting and a restart: such a device could not be
\* addressed, listed under a number or deleted with its account.
NoOrphan == Grouped(accounts)

\* A one-time prekey that has been handed to a peer is in no pool again, and no
\* pool holds one twice: also after a crash at any moment (store.go:561 "persist
\* so a restart doesn't reissue it"), unless the last save had failed.
OtkOnce ==
    lag # "rewound" =>
        \A u \in Users : Live(u) =>
            /\ \A k \in ToSet(accounts[u].oneTime) : k \notin handed
            /\ IsInjective(accounts[u].oneTime)

\* Once a device's record is gone its access ends within accessTTL: no refresh
\* that was under way, no link and no restart prolongs it (store.go:19-21).
RevokedDies ==
    \A u \in Users : ~Live(u) => access[u] <= goneAt[u] + AccessTTL

\* A revoked or deleted device does not come back: no restart brings back what
\* was removed, unless saving the removal failed.
GoneForGood ==
    [][\A u \in issued : lag = "synced" /\ ~Live(u) => accounts'[u] = NoAccount]_vars

\* Verified users are found by their number: the hash stored for every primary
\* was made with the salt that the service hands out now (store.go:149-151).
SaltCurrent ==
    \A u \in Users : Live(u) /\ accounts[u].hash # NoHash =>
        accounts[u].hash \in {<<salt, p>> : p \in Phones}

\* Store.intersect: the users a number may resolve to.
Resolves(p) == {u \in Users : Verified(u) /\ accounts[u].hash = <<salt, p>>}

\* store.go:449-450, of deleteAccount: "After this the number resolves to nobody
\* in contact discovery".
DeletedResolvesToNobody ==
    [][\A u \in Users, p \in Phones :
          u \in Resolves(p) /\ accounts'[u] = NoAccount => Resolves(p)' = {}]_vars
=============================================================================
