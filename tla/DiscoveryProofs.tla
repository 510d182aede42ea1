-------------------------- MODULE DiscoveryProofs --------------------------
(***************************************************************************)
(* Proofs about the discovery service for any users, numbers, salts, codes,*)
(* lifetimes and bounds, with or without disk faults.                      *)
(***************************************************************************)
EXTENDS Discovery, TLAPS

AccountMap == [Users -> Account \cup {NoAccount}]
DiskType == [salt : Salts \cup {NoFile}, accounts : AccountMap]
LagType == {"synced", "behind", "rewound"}

\* The lifetimes, limits and bounds are numbers.
LEMMA NatConstants ==
    /\ Keys \in Nat /\ AccessTTL \in Nat /\ RefreshTTL \in Nat /\ LinkTTL \in Nat
    /\ OtpTTL \in Nat /\ RegisterCooldown \in Nat /\ IntersectWindow \in Nat
    /\ IntersectBudget \in Nat /\ MaxOTPAttempts \in Nat \ {0} /\ Batches \subseteq Nat
BY DiscoveryAssumption

\* The batch of prekeys a device publishes is a sequence of numbers.
LEMMA FreshType ==
    ASSUME minted \in Nat
    PROVE  FreshKeys \in Seq(Nat)
BY NatConstants DEF FreshKeys

\* A record that register or linkDevice creates is an account record.
LEMMA NewAccountType ==
    ASSUME minted \in Nat, NEW id \in Users, NEW h \in Hashes \cup {NoHash}, NEW v \in BOOLEAN
    PROVE  NewAccount(id, h, v) \in Account
BY FreshType DEF NewAccount, Account

\* The absent record is no account record.
LEMMA NoAccountApart == NoAccount \notin Account
BY DiscoveryAssumption DEF Account, Hashes

\* A save leaves a well-formed file, whether it succeeds or not (persistLocked).
LEMMA PersistType ==
    ASSUME NEW a \in AccountMap, salt \in Salts, disk \in DiskType, lag \in LagType, Persist(a)
    PROVE  disk' \in DiskType /\ lag' \in LagType
BY DEF Persist, DiskType, LagType

\* After a save the file holds the accounts given, or what it held before.
LEMMA PersistCases ==
    ASSUME NEW a, Persist(a)
    PROVE  disk' = [salt |-> salt, accounts |-> a] \/ disk' = disk
BY DEF Persist

\* A disappearance is dated with the present.
LEMMA DisappearType ==
    ASSUME NEW a, now \in Nat, goneAt \in [Users -> Nat], Disappear(a)
    PROVE  goneAt' \in [Users -> Nat]
BY DEF Disappear

-----------------------------------------------------------------------------
\* Every step of the service keeps every variable in its type.
LEMMA TypeStep == TypeOK /\ [Next]_vars => TypeOK'
<1> SUFFICES ASSUME TypeOK, [Next]_vars
             PROVE  TypeOK'
  OBVIOUS
<1> USE NatConstants
<1>a. /\ accounts \in AccountMap /\ disk \in DiskType /\ lag \in LagType
      /\ salt \in Salts /\ minted \in Nat /\ now \in Nat
  BY DEF TypeOK, AccountMap, DiskType, LagType
\* What is left to show once the accounts are known to be well typed.
<1>b. ASSUME accounts' \in AccountMap, Persist(accounts')
      PROVE  /\ accounts' \in [Users -> Account \cup {NoAccount}]
             /\ disk' \in [salt : Salts \cup {NoFile}, accounts : [Users -> Account \cup {NoAccount}]]
             /\ lag' \in {"synced", "behind", "rewound"}
  BY <1>a, <1>b, PersistType DEF AccountMap, DiskType, LagType
<1>c. ASSUME NEW u \in Users, IssueTokens(u)
      PROVE  access' \in [Users -> Nat] /\ refresh' \in [Users -> Nat]
  BY <1>c DEF IssueTokens, TypeOK
<1>1. ASSUME NEW u \in Users, NEW p \in Phones, Register(u, p)
      PROVE  TypeOK'
  <2>1. NewAccount(u, <<salt, p>>, FALSE) \in Account
    BY <1>a, NewAccountType DEF Hashes
  <2>2. accounts' \in AccountMap /\ Persist(accounts')
    BY <1>1, <1>a, <2>1 DEF Register, AccountMap
  <2>3. pending' \in [Users -> [exp : Nat, attempts : 0..(MaxOTPAttempts - 1)] \cup {NoCode}]
    <3>1. [exp |-> now + OtpTTL, attempts |-> 0] \in [exp : Nat, attempts : 0..(MaxOTPAttempts - 1)]
      BY <1>a
    <3> QED
      BY <1>1, <3>1 DEF Register, TypeOK
  <2>4. lastRegister' \in [Phones -> SUBSET Nat] /\ issued' \subseteq Users /\ minted' \in Nat
    BY <1>1 DEF Register, TypeOK
  <2> QED
    BY <1>1, <1>b, <2>2, <2>3, <2>4 DEF Register, TypeOK
<1>2. ASSUME NEW u \in Users, VerifyOK(u)
      PROVE  TypeOK'
  <2>1. accounts[u] \in Account
    BY <1>2, <1>a DEF VerifyOK, Live, AccountMap
  <2>2. [accounts[u] EXCEPT !.verified = TRUE] \in Account
    BY <2>1 DEF Account
  <2>3. accounts' \in AccountMap /\ Persist(accounts')
    BY <1>2, <1>a, <2>2 DEF VerifyOK, AccountMap
  <2>4. pending' \in [Users -> [exp : Nat, attempts : 0..(MaxOTPAttempts - 1)] \cup {NoCode}]
    BY <1>2 DEF VerifyOK, TypeOK
  <2>5. access' \in [Users -> Nat] /\ refresh' \in [Users -> Nat]
    BY <1>2, <1>c DEF VerifyOK
  <2> QED
    BY <1>2, <1>b, <2>3, <2>4, <2>5 DEF VerifyOK, TypeOK
<1>3. ASSUME NEW u \in Users, VerifyWrong(u) \/ VerifyLate(u)
      PROVE  TypeOK'
  <2>1. pending[u] \in [exp : Nat, attempts : 0..(MaxOTPAttempts - 1)]
    BY <1>3 DEF VerifyWrong, VerifyLate, TypeOK
  <2>2. ~(pending[u].attempts + 1 >= MaxOTPAttempts) =>
           [exp |-> pending[u].exp, attempts |-> pending[u].attempts + 1] \in [exp : Nat, attempts : 0..(MaxOTPAttempts - 1)]
    BY <2>1
  <2>3. pending' \in [Users -> [exp : Nat, attempts : 0..(MaxOTPAttempts - 1)] \cup {NoCode}]
    BY <1>3, <2>2 DEF VerifyWrong, VerifyLate, TypeOK
  <2> QED
    BY <1>3, <2>3 DEF VerifyWrong, VerifyLate, TypeOK
<1>4. ASSUME NEW u \in Users, Authorize(u) \/ PresentRefresh(u) \/ Answer(u)
      PROVE  TypeOK'
  <2>1. reqs' \subseteq Request
    BY <1>4 DEF Authorize, PresentRefresh, Answer, Finish, Req, Request, TypeOK
  <2> QED
    BY <1>4, <2>1 DEF Authorize, PresentRefresh, Answer, TypeOK
<1>d. ASSUME NEW k, NEW u, Finish(k, u)
      PROVE  reqs' \subseteq Request
  BY <1>d DEF Finish, TypeOK
<1>5. ASSUME NEW u \in Users, Refresh(u)
      PROVE  TypeOK'
  <2>1. access' \in [Users -> Nat] /\ refresh' \in [Users -> Nat]
    BY <1>5, <1>c DEF Refresh, TypeOK
  <2> QED
    BY <1>5, <1>d, <2>1 DEF Refresh, TypeOK
<1>6. ASSUME NEW u \in Users, NEW v \in Users, FetchKeys(u, v)
      PROVE  TypeOK'
  <2>1. accounts[v] \in Account /\ accounts[v].oneTime # <<>>
    BY <1>6, <1>a DEF FetchKeys, Verified, Live, AccountMap
  <2>2. Head(accounts[v].oneTime) \in Nat /\ Tail(accounts[v].oneTime) \in Seq(Nat)
    BY <2>1 DEF Account
  <2>3. [accounts[v] EXCEPT !.oneTime = Tail(@)] \in Account
    BY <2>1, <2>2 DEF Account
  <2>4. accounts' \in AccountMap /\ Persist(accounts')
    BY <1>6, <1>a, <2>3 DEF FetchKeys, AccountMap
  <2>5. handed' \subseteq Nat
    BY <1>6, <2>2 DEF FetchKeys, TypeOK
  <2> QED
    BY <1>6, <1>b, <1>d, <2>4, <2>5 DEF FetchKeys, TypeOK
<1>7. ASSUME NEW u \in Users, UploadKeys(u)
      PROVE  TypeOK'
  <2>1. accounts[u] \in Account
    BY <1>7, <1>a DEF UploadKeys, Live, AccountMap
  <2>2. accounts[u].oneTime \o FreshKeys \in Seq(Nat)
    BY <1>a, <2>1, FreshType DEF Account
  <2>3. [accounts[u] EXCEPT !.oneTime = @ \o FreshKeys] \in Account
    BY <2>1, <2>2 DEF Account
  <2>4. accounts' \in AccountMap /\ Persist(accounts')
    BY <1>7, <1>a, <2>3 DEF UploadKeys, AccountMap
  <2>5. minted' \in Nat
    BY <1>7, <1>a DEF UploadKeys
  <2> QED
    BY <1>7, <1>b, <1>d, <2>4, <2>5 DEF UploadKeys, TypeOK
<1>8. ASSUME NEW u \in Users, DeleteAccount(u)
      PROVE  TypeOK'
  <2>1. accounts' \in AccountMap /\ Persist(accounts')
    BY <1>8, <1>a DEF DeleteAccount, AccountMap
  <2>2. pending' \in [Users -> [exp : Nat, attempts : 0..(MaxOTPAttempts - 1)] \cup {NoCode}]
    BY <1>8 DEF DeleteAccount, TypeOK
  <2>3. lastRegister' \in [Phones -> SUBSET Nat]
    BY <1>8 DEF DeleteAccount, TypeOK
  <2>4. goneAt' \in [Users -> Nat]
    BY <1>8, DisappearType DEF DeleteAccount, TypeOK
  <2> QED
    BY <1>8, <1>b, <1>d, <2>1, <2>2, <2>3, <2>4 DEF DeleteAccount, TypeOK
<1>9. ASSUME NEW u \in Users, NEW v \in Users, RemoveDevice(u, v)
      PROVE  TypeOK'
  <2>1. accounts' \in AccountMap /\ Persist(accounts')
    BY <1>9, <1>a DEF RemoveDevice, AccountMap
  <2>2. pending' \in [Users -> [exp : Nat, attempts : 0..(MaxOTPAttempts - 1)] \cup {NoCode}]
    BY <1>9 DEF RemoveDevice, TypeOK
  <2>3. goneAt' \in [Users -> Nat]
    BY <1>9, DisappearType DEF RemoveDevice, TypeOK
  <2> QED
    BY <1>9, <1>b, <1>d, <2>1, <2>2, <2>3 DEF RemoveDevice, TypeOK
<1>10. ASSUME NEW u \in Users, NEW n \in Batches, Intersect(u, n)
       PROVE  TypeOK'
  <2> DEFINE window == Window(u)
  <2>1. window \in [start : Nat, used : 0..IntersectBudget] /\ n \in Nat
    BY DEF TypeOK, Window
  <2>2. ~(window.used + n > IntersectBudget) =>
           [start |-> window.start, used |-> window.used + n] \in [start : Nat, used : 0..IntersectBudget]
    BY <2>1
  <2>3. intersectUse' = [intersectUse EXCEPT ![u] =
              IF window.used + n > IntersectBudget THEN window
              ELSE [start |-> window.start, used |-> window.used + n]]
    BY <1>10 DEF Intersect
  <2> HIDE DEF window
  <2>4. intersectUse' \in [Users -> [start : Nat, used : 0..IntersectBudget] \cup {NoWindow}]
    BY <2>1, <2>2, <2>3 DEF TypeOK
  <2> QED
    BY <1>10, <1>d, <2>4 DEF Intersect, TypeOK
<1>11. ASSUME NEW u \in Users, LinkToken(u)
       PROVE  TypeOK'
  <2>1. accounts[u].accountID \in Users
    BY <1>11, <1>a DEF LinkToken, Verified, Live, AccountMap, Account
  <2>2. reqs' \subseteq Request
    BY <1>11, <2>1 DEF LinkToken, Req, Request, TypeOK
  <2> QED
    BY <1>11, <2>2 DEF LinkToken, TypeOK
<1>12. ASSUME NEW u \in Users, NEW t \in LinkCodes, CreateLinkToken(u, t)
       PROVE  TypeOK'
  <2>1. linkTokens' \in [LinkCodes -> [accountID : Users, exp : Nat] \cup {NoToken}]
    BY <1>12 DEF CreateLinkToken, TypeOK
  <2> QED
    BY <1>12, <1>d, <2>1 DEF CreateLinkToken, TypeOK
<1>13. ASSUME NEW t \in LinkCodes, NEW u \in Users, LinkDevice(t, u)
       PROVE  TypeOK'
  <2>1. linkTokens[t].accountID \in Users
    BY <1>13 DEF LinkDevice, TypeOK
  <2>2. NewAccount(linkTokens[t].accountID, NoHash, TRUE) \in Account
    BY <1>a, <2>1, NewAccountType
  <2>3. accounts' \in AccountMap /\ Persist(accounts')
    BY <1>13, <1>a, <2>2 DEF LinkDevice, AccountMap
  <2>4. linkTokens' \in [LinkCodes -> [accountID : Users, exp : Nat] \cup {NoToken}]
    BY <1>13 DEF LinkDevice, TypeOK
  <2>5. access' \in [Users -> Nat] /\ refresh' \in [Users -> Nat]
    BY <1>13, <1>c DEF LinkDevice
  <2>6. issued' \subseteq Users /\ minted' \in Nat
    BY <1>13 DEF LinkDevice, TypeOK
  <2> QED
    BY <1>13, <1>b, <2>3, <2>4, <2>5, <2>6 DEF LinkDevice, TypeOK
<1>14. ASSUME NEW t \in LinkCodes, LinkLate(t)
       PROVE  TypeOK'
  <2>1. linkTokens' \in [LinkCodes -> [accountID : Users, exp : Nat] \cup {NoToken}]
    BY <1>14 DEF LinkLate, TypeOK
  <2> QED
    BY <1>14, <2>1 DEF LinkLate, TypeOK
<1>15. CASE Tick
  BY <1>15 DEF Tick, TypeOK
<1>16. CASE Restart
  <2>1. accounts' \in [Users -> Account \cup {NoAccount}] /\ salt' \in Salts
    BY <1>16, <1>a DEF Restart, NoAccounts, DiskType, AccountMap
  <2>2. lag' \in {"synced", "behind", "rewound"}
    BY <1>16 DEF Restart
  <2>3. goneAt' \in [Users -> Nat]
    BY <1>16, DisappearType DEF Restart, TypeOK
  <2>4. /\ pending' \in [Users -> [exp : Nat, attempts : 0..(MaxOTPAttempts - 1)] \cup {NoCode}]
        /\ lastRegister' \in [Phones -> SUBSET Nat]
        /\ linkTokens' \in [LinkCodes -> [accountID : Users, exp : Nat] \cup {NoToken}]
        /\ reqs' \subseteq Request
    BY <1>16 DEF Restart
  <2>5. intersectUse' \in [Users -> [start : Nat, used : 0..IntersectBudget] \cup {NoWindow}]
    BY <1>16 DEF Restart
  <2> QED
    BY <1>16, <2>1, <2>2, <2>3, <2>4, <2>5 DEF Restart, TypeOK
<1>17. CASE UNCHANGED vars
  BY <1>17 DEF vars, TypeOK
<1> QED
  BY <1>1, <1>2, <1>3, <1>4, <1>5, <1>6, <1>7, <1>8, <1>9, <1>10, <1>11, <1>12, <1>13,
     <1>14, <1>15, <1>16, <1>17 DEF Next, Onboard, Serve, Link

\* The service starts well typed.
LEMMA TypeInit == Init => TypeOK
<1> SUFFICES ASSUME Init
             PROVE  TypeOK
  OBVIOUS
<1> USE NatConstants
<1>2. intersectUse \in [Users -> [start : Nat, used : 0..IntersectBudget] \cup {NoWindow}]
  BY DEF Init
<1>3. disk \in [salt : Salts \cup {NoFile}, accounts : [Users -> Account \cup {NoAccount}]]
  BY DEF Init, NoAccounts
<1> QED
  BY <1>2, <1>3 DEF Init, TypeOK, NoAccounts

\* Every variable keeps its type; no code outlives its guesses (Store.verify) and
\* no rate window its budget (Store.allowIntersect).
THEOREM TypeCorrect == Spec => []TypeOK
BY TypeInit, TypeStep, PTL DEF Spec

-----------------------------------------------------------------------------
(* No device outlives its account.  A link code is minted from an account  *)
(* id that was read under an earlier lock, and is spent later still: the   *)
(* id it carries must go on naming a primary device, or nobody for ever.   *)

\* An id that has been handed out and names, if anyone, a verified primary.
Primary(id) ==
    /\ id \in issued
    /\ Live(id) => accounts[id].accountID = id /\ accounts[id].verified

GroupInv ==
    /\ Grouped(accounts)
    /\ Grouped(disk.accounts)
    /\ \A u \in Users : accounts[u] # NoAccount => u \in issued
    /\ \A u \in Users : disk.accounts[u] # NoAccount => u \in issued
    /\ \A r \in reqs : r.kind = "mint" => Primary(r.uid)
    /\ \A t \in LinkCodes : linkTokens[t] # NoToken => Primary(linkTokens[t].accountID)

\* Where the accounts stay grouped, so does the file, whether or not it is saved.
LEMMA PersistGrouped ==
    ASSUME NEW a, NEW S, Grouped(a), Grouped(disk.accounts), Persist(a),
           \A u \in Users : a[u] # NoAccount => u \in S,
           \A u \in Users : disk.accounts[u] # NoAccount => u \in S
    PROVE  /\ Grouped(disk'.accounts)
           /\ \A u \in Users : disk'.accounts[u] # NoAccount => u \in S
<1>1. CASE disk' = disk
  BY <1>1
<1>2. CASE disk' = [salt |-> salt, accounts |-> a]
  <2>1. disk'.accounts = a
    BY <1>2
  <2> QED
    BY <2>1
<1> QED
  BY <1>1, <1>2, PersistCases

\* Requests and codes keep naming primaries through a step that adds no request
\* to mint, no code, and changes no account's id, nor takes back a verification.
LEMMA PrimariesKept ==
    ASSUME GroupInv, issued \subseteq issued',
           \A r \in reqs' : r \in reqs \/ r.kind # "mint",
           \A t \in LinkCodes : linkTokens'[t] # NoToken => linkTokens'[t] = linkTokens[t],
           \A u \in issued : accounts'[u] # NoAccount =>
               /\ accounts[u] # NoAccount
               /\ accounts'[u].accountID = accounts[u].accountID
               /\ accounts[u].verified => accounts'[u].verified
    PROVE  /\ \A r \in reqs' : r.kind = "mint" => Primary(r.uid)'
           /\ \A t \in LinkCodes : linkTokens'[t] # NoToken => Primary(linkTokens[t].accountID)'
<1>1. ASSUME NEW id, Primary(id)
      PROVE  id \in issued' /\ (accounts'[id] # NoAccount =>
                                  accounts'[id].accountID = id /\ accounts'[id].verified)
  BY <1>1 DEF Primary, Live
<1> QED
  BY <1>1 DEF GroupInv, Primary, Live

\* Every step keeps devices with their accounts.
LEMMA GroupStep == TypeOK /\ TypeOK' /\ GroupInv /\ [Next]_vars => GroupInv'
<1> SUFFICES ASSUME TypeOK, TypeOK', GroupInv, [Next]_vars
             PROVE  GroupInv'
  OBVIOUS
<1>a. /\ accounts \in [Users -> Account \cup {NoAccount}]
      /\ \A u \in Users : Live(u) => accounts[u].accountID \in Users
      /\ issued \subseteq Users
  BY DEF TypeOK, Account, Live
<1>b. /\ Grouped(accounts) /\ Grouped(disk.accounts)
      /\ \A u \in Users : accounts[u] # NoAccount => u \in issued
      /\ \A u \in Users : disk.accounts[u] # NoAccount => u \in issued
  BY DEF GroupInv
\* What is left to show once the accounts are known to be grouped.
<1>c. ASSUME Grouped(accounts'), Persist(accounts'), issued \subseteq issued',
             \A u \in Users : accounts'[u] # NoAccount => u \in issued',
             \A r \in reqs' : r \in reqs \/ r.kind # "mint",
             \A t \in LinkCodes : linkTokens'[t] # NoToken => linkTokens'[t] = linkTokens[t],
             \A u \in issued : accounts'[u] # NoAccount =>
                 /\ accounts[u] # NoAccount
                 /\ accounts'[u].accountID = accounts[u].accountID
                 /\ accounts[u].verified => accounts'[u].verified
      PROVE  GroupInv'
  <2>1. /\ \A r \in reqs' : r.kind = "mint" => Primary(r.uid)'
        /\ \A t \in LinkCodes : linkTokens'[t] # NoToken => Primary(linkTokens[t].accountID)'
    BY <1>c, PrimariesKept
  <2>2. \A u \in Users : disk.accounts[u] # NoAccount => u \in issued'
    BY <1>b, <1>c
  <2>3. /\ Grouped(disk'.accounts)
        /\ \A u \in Users : disk'.accounts[u] # NoAccount => u \in issued'
    BY <1>b, <1>c, <2>2, PersistGrouped
  <2> QED
    BY <1>c, <2>1, <2>3 DEF GroupInv, Grouped
\* The steps that leave accounts, file and ids alone.
<1>d. ASSUME UNCHANGED <<accounts, disk, issued>>,
             \A r \in reqs' : r.kind = "mint" => Primary(r.uid),
             \A t \in LinkCodes : linkTokens'[t] # NoToken => Primary(linkTokens'[t].accountID)
      PROVE  GroupInv'
  BY <1>b, <1>d DEF GroupInv, Primary, Live, Grouped
<1>e. ASSUME NEW k, NEW u, Finish(k, u)
      PROVE  \A r \in reqs' : r \in reqs
  BY <1>e DEF Finish
<1>1. ASSUME NEW u \in Users, NEW p \in Phones, Register(u, p)
      PROVE  GroupInv'
  <2>1. accounts' = [accounts EXCEPT ![u] = NewAccount(u, <<salt, p>>, FALSE)] /\ u \notin issued
    BY <1>1 DEF Register
  <2>2. accounts[u] = NoAccount
    BY <1>b, <2>1
  <2>3. accounts'[u].accountID = u
    BY <1>a, <2>1 DEF NewAccount
  <2>4. accounts'[u] # NoAccount
    <3>1. minted \in Nat /\ <<salt, p>> \in Hashes
      BY DEF TypeOK, Hashes
    <3>2. NewAccount(u, <<salt, p>>, FALSE) \in Account
      BY <3>1, NewAccountType
    <3> QED
      BY <1>a, <2>1, <3>2, NoAccountApart
  <2>5. \A v \in Users : v # u => accounts'[v] = accounts[v]
    BY <1>a, <2>1
  <2>6. Grouped(accounts')
    BY <1>a, <1>b, <2>2, <2>3, <2>4, <2>5 DEF Grouped, Live
  <2>7. issued' = issued \cup {u} /\ Persist(accounts') /\ UNCHANGED <<reqs, linkTokens>>
    BY <1>1 DEF Register
  <2> QED
    BY <1>a, <1>b, <1>c, <2>1, <2>5, <2>6, <2>7
<1>2. ASSUME NEW u \in Users, VerifyOK(u)
      PROVE  GroupInv'
  <2>1. /\ accounts' = [accounts EXCEPT ![u] = [accounts[u] EXCEPT !.verified = TRUE]]
        /\ accounts[u] \in Account
    BY <1>2, <1>a DEF VerifyOK, Live
  <2>2. accounts'[u].accountID = accounts[u].accountID /\ accounts'[u].verified
    BY <1>a, <2>1 DEF Account
  <2>3. accounts[u] # NoAccount /\ accounts'[u] # NoAccount
    <3>1. [accounts[u] EXCEPT !.verified = TRUE] \in Account
      BY <2>1 DEF Account
    <3> QED
      BY <1>a, <2>1, <3>1, NoAccountApart
  <2>4. \A v \in Users : v # u => accounts'[v] = accounts[v]
    BY <1>a, <2>1
  <2>5. Grouped(accounts')
    BY <1>a, <1>b, <2>2, <2>3, <2>4 DEF Grouped, Live
  <2>6. Persist(accounts') /\ UNCHANGED <<reqs, linkTokens, issued>>
    BY <1>2 DEF VerifyOK
  <2> QED
    BY <1>a, <1>b, <1>c, <2>2, <2>3, <2>4, <2>5, <2>6
<1>3. ASSUME NEW u \in Users, VerifyWrong(u) \/ VerifyLate(u)
      PROVE  GroupInv'
  BY <1>3, <1>d DEF VerifyWrong, VerifyLate, GroupInv
<1>4. ASSUME NEW u \in Users, Authorize(u) \/ PresentRefresh(u)
      PROVE  GroupInv'
  BY <1>4, <1>d DEF Authorize, PresentRefresh, Req, GroupInv
<1>5. ASSUME NEW u \in Users, Answer(u) \/ Refresh(u) \/ \E n \in Batches : Intersect(u, n)
      PROVE  GroupInv'
  BY <1>5, <1>d, <1>e DEF Answer, Refresh, Intersect, GroupInv
\* The steps that change only a pool of prekeys.
<1>f. ASSUME NEW v \in Users, NEW s \in Seq(Nat), accounts[v] \in Account,
             accounts' = [accounts EXCEPT ![v] = [accounts[v] EXCEPT !.oneTime = s]],
             Persist(accounts'), UNCHANGED <<linkTokens, issued>>, \A r \in reqs' : r \in reqs
      PROVE  GroupInv'
  <2>1. /\ accounts'[v].accountID = accounts[v].accountID
        /\ accounts'[v].verified = accounts[v].verified
    BY <1>a, <1>f DEF Account
  <2>2. accounts[v] # NoAccount /\ accounts'[v] # NoAccount
    <3>1. [accounts[v] EXCEPT !.oneTime = s] \in Account
      BY <1>f DEF Account
    <3> QED
      BY <1>a, <1>f, <3>1, NoAccountApart
  <2>3. \A w \in Users : w # v => accounts'[w] = accounts[w]
    BY <1>a, <1>f
  <2>4. Grouped(accounts')
    BY <1>a, <1>b, <2>1, <2>2, <2>3 DEF Grouped, Live
  <2> QED
    BY <1>a, <1>b, <1>c, <1>f, <2>1, <2>2, <2>3, <2>4
<1>6. ASSUME NEW u \in Users, NEW v \in Users, FetchKeys(u, v)
      PROVE  GroupInv'
  <2>1. accounts[v] \in Account /\ accounts[v].oneTime # <<>>
    BY <1>6, <1>a DEF FetchKeys, Verified, Live
  <2>2. Tail(accounts[v].oneTime) \in Seq(Nat)
    BY <2>1 DEF Account
  <2>3. /\ accounts' = [accounts EXCEPT ![v] = [accounts[v] EXCEPT !.oneTime = Tail(accounts[v].oneTime)]]
        /\ Persist(accounts') /\ UNCHANGED <<linkTokens, issued>>
    BY <1>6 DEF FetchKeys
  <2>4. \A r \in reqs' : r \in reqs
    BY <1>6, <1>e DEF FetchKeys
  <2> QED
    BY <1>f, <2>1, <2>2, <2>3, <2>4
<1>7. ASSUME NEW u \in Users, UploadKeys(u)
      PROVE  GroupInv'
  <2>1. accounts[u] \in Account
    BY <1>7, <1>a DEF UploadKeys, Live
  <2>2. accounts[u].oneTime \o FreshKeys \in Seq(Nat)
    BY <2>1, FreshType DEF Account, TypeOK
  <2>3. /\ accounts' = [accounts EXCEPT ![u] = [accounts[u] EXCEPT !.oneTime = accounts[u].oneTime \o FreshKeys]]
        /\ Persist(accounts') /\ UNCHANGED <<linkTokens, issued>>
    BY <1>7 DEF UploadKeys
  <2>4. \A r \in reqs' : r \in reqs
    BY <1>7, <1>e DEF UploadKeys
  <2> QED
    BY <1>f, <2>1, <2>2, <2>3, <2>4
<1>8. ASSUME NEW u \in Users, DeleteAccount(u)
      PROVE  GroupInv'
  <2> DEFINE id == accounts[u].accountID
  <2>1. \A v \in Users : accounts'[v] = IF accounts[v] # NoAccount /\ accounts[v].accountID = id
                                        THEN NoAccount ELSE accounts[v]
    BY <1>8 DEF DeleteAccount, OnAccount, Live
  <2> HIDE DEF id
  <2>2. Grouped(accounts')
    BY <1>a, <1>b, <2>1 DEF Grouped, Live
  <2>3. Persist(accounts') /\ UNCHANGED <<linkTokens, issued>>
    BY <1>8 DEF DeleteAccount
  <2>4. \A r \in reqs' : r \in reqs
    BY <1>8, <1>e DEF DeleteAccount
  <2> QED
    BY <1>a, <1>b, <1>c, <2>1, <2>2, <2>3, <2>4
<1>9. ASSUME NEW u \in Users, NEW v \in Users, RemoveDevice(u, v)
      PROVE  GroupInv'
  <2>1. /\ accounts' = [accounts EXCEPT ![v] = NoAccount]
        /\ accounts[v] # NoAccount /\ v # accounts[v].accountID
    BY <1>9 DEF RemoveDevice, Live
  <2>2. \A w \in Users : accounts'[w] = IF w = v THEN NoAccount ELSE accounts[w]
    BY <1>a, <2>1
  <2>3. Grouped(accounts')
    BY <1>a, <1>b, <2>1, <2>2 DEF Grouped, Live
  <2>4. Persist(accounts') /\ UNCHANGED <<linkTokens, issued>>
    BY <1>9 DEF RemoveDevice
  <2>5. \A r \in reqs' : r \in reqs
    BY <1>9, <1>e DEF RemoveDevice
  <2> QED
    BY <1>a, <1>b, <1>c, <2>2, <2>3, <2>4, <2>5
<1>10. ASSUME NEW u \in Users, LinkToken(u)
       PROVE  GroupInv'
  <2>1. Primary(accounts[u].accountID)
    BY <1>10, <1>a, <1>b DEF LinkToken, Verified, Live, Grouped, Primary
  <2>2. \A r \in reqs' : r \in reqs \/ r = [kind |-> "mint", uid |-> accounts[u].accountID]
    BY <1>10 DEF LinkToken, Req
  <2>3. UNCHANGED <<accounts, disk, issued, linkTokens>>
    BY <1>10 DEF LinkToken
  <2> QED
    BY <1>d, <2>1, <2>2, <2>3 DEF GroupInv
<1>11. ASSUME NEW u \in Users, NEW t \in LinkCodes, CreateLinkToken(u, t)
       PROVE  GroupInv'
  <2>1. Primary(u)
    BY <1>11 DEF CreateLinkToken, Finish, Req, GroupInv
  <2>2. \A s \in LinkCodes : linkTokens'[s] = linkTokens[s] \/ linkTokens'[s].accountID = u
    BY <1>11 DEF CreateLinkToken, TypeOK
  <2>3. UNCHANGED <<accounts, disk, issued>> /\ \A r \in reqs' : r \in reqs
    BY <1>11, <1>e DEF CreateLinkToken
  <2> QED
    BY <1>d, <2>1, <2>2, <2>3 DEF GroupInv
<1>12. ASSUME NEW t \in LinkCodes, NEW u \in Users, LinkDevice(t, u)
       PROVE  GroupInv'
  <2> DEFINE id == linkTokens[t].accountID
  <2>1. /\ accounts' = [accounts EXCEPT ![u] = NewAccount(id, NoHash, TRUE)]
        /\ u \notin issued /\ accounts[id] # NoAccount /\ linkTokens[t] # NoToken
    BY <1>12 DEF LinkDevice, Live
  <2>2. id \in Users /\ accounts[id].accountID = id /\ accounts[id].verified
    BY <2>1 DEF GroupInv, Primary, Live, TypeOK
  <2>3. NewAccount(id, NoHash, TRUE).accountID = id
    BY DEF NewAccount
  <2>4. NewAccount(id, NoHash, TRUE) # NoAccount
    <3>1. minted \in Nat
      BY DEF TypeOK
    <3>2. NewAccount(id, NoHash, TRUE) \in Account
      BY <2>2, <3>1, NewAccountType
    <3> QED
      BY <3>2, NoAccountApart
  <2>5. linkTokens' = [linkTokens EXCEPT ![t] = NoToken]
    BY <1>12 DEF LinkDevice
  <2>6. issued' = issued \cup {u} /\ Persist(accounts') /\ UNCHANGED reqs
    BY <1>12 DEF LinkDevice
  <2>7. \A s \in LinkCodes : linkTokens'[s] # NoToken => linkTokens'[s] = linkTokens[s]
    BY <2>5 DEF TypeOK
  <2> HIDE DEF id
  <2>8. accounts'[u] = NewAccount(id, NoHash, TRUE) /\ \A v \in Users : v # u => accounts'[v] = accounts[v]
    BY <1>a, <2>1
  <2>9. accounts[u] = NoAccount /\ u # id
    BY <1>b, <2>1
  <2>10. Grouped(accounts')
    <3> SUFFICES ASSUME NEW v \in Users, accounts'[v] # NoAccount
                 PROVE  LET p == accounts'[v].accountID
                        IN  /\ accounts'[p] # NoAccount
                            /\ accounts'[p].accountID = p
                            /\ p # v => accounts'[p].verified
      BY DEF Grouped
    <3>1. CASE v = u
      <4>1. accounts'[v].accountID = id /\ accounts'[id] = accounts[id]
        BY <2>2, <2>3, <2>8, <2>9, <3>1
      <4> QED
        BY <2>1, <2>2, <4>1
    <3>2. CASE v # u
      <4>1. accounts'[v] = accounts[v] /\ accounts[v].accountID \in Users
        BY <1>a, <2>8, <3>2 DEF Live
      <4>2. accounts[v].accountID # u
        BY <1>b, <2>8, <2>9, <3>2 DEF Grouped
      <4> QED
        BY <1>b, <2>8, <4>1, <4>2 DEF Grouped
    <3> QED
      BY <3>1, <3>2
  <2> QED
    BY <1>a, <1>b, <1>c, <2>1, <2>6, <2>7, <2>8, <2>10
<1>13. ASSUME NEW t \in LinkCodes, LinkLate(t)
       PROVE  GroupInv'
  <2>1. \A s \in LinkCodes : linkTokens'[s] # NoToken => linkTokens'[s] = linkTokens[s]
    BY <1>13 DEF LinkLate, TypeOK
  <2> QED
    BY <1>13, <1>d, <2>1 DEF LinkLate, GroupInv
<1>14. CASE Tick
  BY <1>14, <1>d DEF Tick, GroupInv
<1>15. CASE Restart
  <2>1. accounts' = disk.accounts \/ accounts' = NoAccounts
    BY <1>15 DEF Restart
  <2>2. Grouped(accounts') /\ \A u \in Users : accounts'[u] # NoAccount => u \in issued
    BY <1>b, <2>1 DEF Grouped, NoAccounts
  <2>3. reqs' = {} /\ UNCHANGED <<disk, issued>> /\ \A t \in LinkCodes : linkTokens'[t] = NoToken
    BY <1>15 DEF Restart
  <2> QED
    BY <1>b, <2>2, <2>3 DEF GroupInv, Grouped
<1>16. CASE UNCHANGED vars
  BY <1>16, <1>d DEF vars, GroupInv
<1> QED
  BY <1>1, <1>2, <1>3, <1>4, <1>5, <1>6, <1>7, <1>8, <1>9, <1>10, <1>11, <1>12, <1>13,
     <1>14, <1>15, <1>16 DEF Next, Onboard, Serve, Link

\* A linked device never outlives its account's primary: linking, revoking,
\* deleting and restarting in any order leave no device on an account that is
\* gone (linkDevice, removeDevice, deleteAccount, NewPersistentStore).
THEOREM NobodyOrphaned == Spec => []NoOrphan
<1>1. Init => GroupInv
  BY DEF Init, GroupInv, Grouped, NoAccounts
<1>2. GroupInv => NoOrphan
  BY DEF GroupInv, NoOrphan
<1> QED
  BY <1>1, <1>2, TypeCorrect, GroupStep, PTL DEF Spec

-----------------------------------------------------------------------------
(* A revoked device's access ends.  A token may be presented before the    *)
(* device is revoked and served after it, so the bound rests on what the   *)
(* second step looks up, not on the first.                                 *)

AccessInv == RevokedDies /\ \A u \in Users : access[u] <= now + AccessTTL

\* Every step keeps the access of a device that is gone within its lifetime.
LEMMA AccessStep == TypeOK /\ TypeOK' /\ AccessInv /\ [Next]_vars => AccessInv'
<1> SUFFICES ASSUME TypeOK, TypeOK', AccessInv, [Next]_vars
             PROVE  AccessInv'
  OBVIOUS
<1> USE NatConstants
<1>a. /\ now \in Nat /\ access \in [Users -> Nat] /\ goneAt \in [Users -> Nat]
      /\ accounts \in [Users -> Account \cup {NoAccount}]
  BY DEF TypeOK
<1>b. \A u \in Users : access[u] <= now + AccessTTL
  BY DEF AccessInv
<1>c. \A u \in Users : accounts[u] = NoAccount => access[u] <= goneAt[u] + AccessTTL
  BY DEF AccessInv, RevokedDies, Live
\* No token is issued: the accounts that disappear do so now.
<1>d. ASSUME UNCHANGED <<now, access>>,
             \/ Disappear(accounts')
             \/ UNCHANGED goneAt /\ \A u \in Users : accounts'[u] = NoAccount => accounts[u] = NoAccount
      PROVE  AccessInv'
  <2>1. ASSUME NEW u \in Users, accounts'[u] = NoAccount
        PROVE  access[u] <= goneAt'[u] + AccessTTL
    <3>1. CASE UNCHANGED goneAt /\ accounts[u] = NoAccount
      BY <1>c, <3>1
    <3>2. CASE Disappear(accounts')
      <4>1. goneAt'[u] = IF accounts[u] # NoAccount THEN now ELSE goneAt[u]
        BY <2>1, <3>2 DEF Disappear, Live
      <4> QED
        BY <1>b, <1>c, <4>1
    <3> QED
      BY <1>d, <2>1, <3>1, <3>2
  <2> QED
    BY <1>b, <1>d, <2>1 DEF AccessInv, RevokedDies, Live
\* Tokens are issued only to a device that is there afterwards.
<1>e. ASSUME NEW u \in Users, IssueTokens(u), UNCHANGED <<now, goneAt>>, accounts'[u] # NoAccount,
             \A v \in Users : v # u => accounts'[v] = accounts[v]
      PROVE  AccessInv'
  <2>1. access'[u] = now + AccessTTL /\ \A v \in Users : v # u => access'[v] = access[v]
    BY <1>a, <1>e DEF IssueTokens
  <2>2. now + AccessTTL <= now + AccessTTL
    BY <1>a
  <2>3. \A v \in Users : access'[v] <= now' + AccessTTL
    BY <1>b, <1>e, <2>1, <2>2
  <2>4. \A v \in Users : accounts'[v] = NoAccount => access'[v] <= goneAt'[v] + AccessTTL
    BY <1>c, <1>e, <2>1
  <2> QED
    BY <2>3, <2>4 DEF AccessInv, RevokedDies, Live
<1>1. ASSUME NEW u \in Users, NEW p \in Phones, Register(u, p)
      PROVE  AccessInv'
  <2>1. \A v \in Users : accounts'[v] = NoAccount => accounts[v] = NoAccount
    <3>1. minted \in Nat /\ <<salt, p>> \in Hashes
      BY DEF TypeOK, Hashes
    <3>2. NewAccount(u, <<salt, p>>, FALSE) # NoAccount
      BY <3>1, NewAccountType, NoAccountApart
    <3> QED
      BY <1>1, <1>a, <3>2 DEF Register
  <2> QED
    BY <1>1, <1>d, <2>1 DEF Register
\* A changed record is still a record.
<1>f. ASSUME NEW v \in Users, NEW r \in Account, accounts' = [accounts EXCEPT ![v] = r]
      PROVE  accounts'[v] # NoAccount /\ \A w \in Users : w # v => accounts'[w] = accounts[w]
  BY <1>a, <1>f, NoAccountApart
<1>2. ASSUME NEW u \in Users, VerifyOK(u)
      PROVE  AccessInv'
  <2>1. accounts[u] \in Account
    BY <1>2, <1>a DEF VerifyOK, Live
  <2>2. [accounts[u] EXCEPT !.verified = TRUE] \in Account
    BY <2>1 DEF Account
  <2>3. accounts' = [accounts EXCEPT ![u] = [accounts[u] EXCEPT !.verified = TRUE]]
    BY <1>2 DEF VerifyOK
  <2>4. accounts'[u] # NoAccount /\ \A w \in Users : w # u => accounts'[w] = accounts[w]
    BY <1>f, <2>2, <2>3
  <2> QED
    BY <1>2, <1>e, <2>4 DEF VerifyOK
<1>3. ASSUME UNCHANGED <<now, access, accounts, goneAt>>
      PROVE  AccessInv'
  BY <1>3, <1>d
<1>4. ASSUME NEW u \in Users, Refresh(u)
      PROVE  AccessInv'
  <2>1. CASE Verified(u) /\ IssueTokens(u)
    BY <1>4, <1>e, <2>1 DEF Refresh, Verified, Live
  <2>2. CASE UNCHANGED access
    BY <1>4, <1>3, <2>2 DEF Refresh
  <2> QED
    BY <1>4, <2>1, <2>2 DEF Refresh
<1>5. ASSUME NEW u \in Users, NEW v \in Users, FetchKeys(u, v)
      PROVE  AccessInv'
  <2>1. accounts[v] \in Account /\ accounts[v].oneTime # <<>>
    BY <1>5, <1>a DEF FetchKeys, Verified, Live
  <2>2. Tail(accounts[v].oneTime) \in Seq(Nat)
    BY <2>1 DEF Account
  <2>3. [accounts[v] EXCEPT !.oneTime = Tail(accounts[v].oneTime)] \in Account
    BY <2>1, <2>2 DEF Account
  <2>4. accounts' = [accounts EXCEPT ![v] = [accounts[v] EXCEPT !.oneTime = Tail(accounts[v].oneTime)]]
    BY <1>5 DEF FetchKeys
  <2>5. accounts'[v] # NoAccount /\ \A w \in Users : w # v => accounts'[w] = accounts[w]
    BY <1>f, <2>3, <2>4
  <2> QED
    BY <1>5, <1>d, <2>5 DEF FetchKeys
<1>6. ASSUME NEW u \in Users, UploadKeys(u)
      PROVE  AccessInv'
  <2>1. accounts[u] \in Account
    BY <1>6, <1>a DEF UploadKeys, Live
  <2>2. accounts[u].oneTime \o FreshKeys \in Seq(Nat)
    BY <2>1, FreshType DEF Account, TypeOK
  <2>3. [accounts[u] EXCEPT !.oneTime = accounts[u].oneTime \o FreshKeys] \in Account
    BY <2>1, <2>2 DEF Account
  <2>4. accounts' = [accounts EXCEPT ![u] = [accounts[u] EXCEPT !.oneTime = accounts[u].oneTime \o FreshKeys]]
    BY <1>6 DEF UploadKeys
  <2>5. accounts'[u] # NoAccount /\ \A w \in Users : w # u => accounts'[w] = accounts[w]
    BY <1>f, <2>3, <2>4
  <2> QED
    BY <1>6, <1>d, <2>5 DEF UploadKeys
<1>7. ASSUME NEW u \in Users, DeleteAccount(u)
      PROVE  AccessInv'
  BY <1>7, <1>d DEF DeleteAccount
<1>8. ASSUME NEW u \in Users, NEW v \in Users, RemoveDevice(u, v)
      PROVE  AccessInv'
  BY <1>8, <1>d DEF RemoveDevice
<1>9. ASSUME NEW t \in LinkCodes, NEW u \in Users, LinkDevice(t, u)
      PROVE  AccessInv'
  <2>1. linkTokens[t].accountID \in Users /\ minted \in Nat
    BY <1>9 DEF LinkDevice, TypeOK
  <2>2. NewAccount(linkTokens[t].accountID, NoHash, TRUE) \in Account
    BY <2>1, NewAccountType
  <2>3. accounts' = [accounts EXCEPT ![u] = NewAccount(linkTokens[t].accountID, NoHash, TRUE)]
    BY <1>9 DEF LinkDevice
  <2>4. accounts'[u] # NoAccount /\ \A w \in Users : w # u => accounts'[w] = accounts[w]
    BY <1>f, <2>2, <2>3
  <2> QED
    BY <1>9, <1>e, <2>4 DEF LinkDevice
<1>10. CASE Tick
  <2>1. \A u \in Users : access[u] <= now + 1 + AccessTTL
    BY <1>a, <1>b
  <2> QED
    BY <1>10, <1>c, <2>1 DEF Tick, AccessInv, RevokedDies, Live
<1>11. CASE Restart
  BY <1>11, <1>d DEF Restart
<1>12. ASSUME NEW u \in Users,
              \/ VerifyWrong(u) \/ VerifyLate(u) \/ Authorize(u) \/ PresentRefresh(u) \/ Answer(u)
              \/ LinkToken(u) \/ \E n \in Batches : Intersect(u, n)
       PROVE  AccessInv'
  BY <1>12, <1>3 DEF VerifyWrong, VerifyLate, Authorize, PresentRefresh, Answer, LinkToken, Intersect
<1>13. ASSUME NEW t \in LinkCodes, LinkLate(t) \/ \E u \in Users : CreateLinkToken(u, t)
       PROVE  AccessInv'
  BY <1>13, <1>3 DEF LinkLate, CreateLinkToken
<1>14. CASE UNCHANGED vars
  BY <1>14, <1>3 DEF vars
<1> QED
  BY <1>1, <1>2, <1>4, <1>5, <1>6, <1>7, <1>8, <1>9, <1>10, <1>11, <1>12, <1>13, <1>14
     DEF Next, Onboard, Serve, Link

\* Once a device's record is gone, every token it holds has run out accessTTL
\* later, whatever was under way when it went (Store.refresh, removeDevice,
\* deleteAccount, NewPersistentStore).
THEOREM AccessEnds == Spec => []RevokedDies
<1>1. Init => AccessInv
  BY NatConstants DEF Init, AccessInv, RevokedDies
<1>2. AccessInv => RevokedDies
  BY DEF AccessInv
<1> QED
  BY <1>1, <1>2, TypeCorrect, AccessStep, PTL DEF Spec

-----------------------------------------------------------------------------
(* The file.  While every save since the last good one has succeeded, a    *)
(* restart finds the accounts as they were; and the hashes in the file go  *)
(* with the salt in the file, whatever has failed.                         *)

HashedWith(accts, s) ==
    \A u \in Users : accts[u] # NoAccount /\ accts[u].hash # NoHash =>
        accts[u].hash \in {<<s, p>> : p \in Phones}

FileInv ==
    /\ HashedWith(accounts, salt)
    /\ disk.salt # NoFile => HashedWith(disk.accounts, disk.salt)
    /\ disk.salt = NoFile => disk.accounts = NoAccounts
    /\ lag = "synced" => disk.accounts = accounts

\* Every step keeps the file good for a restart.
LEMMA FileStep == TypeOK /\ FileInv /\ [Next]_vars => FileInv'
<1> SUFFICES ASSUME TypeOK, FileInv, [Next]_vars
             PROVE  FileInv'
  OBVIOUS
<1>a. /\ accounts \in [Users -> Account \cup {NoAccount}]
      /\ salt \in Salts /\ NoFile \notin Salts /\ minted \in Nat
  BY DiscoveryAssumption DEF TypeOK
<1>b. /\ HashedWith(accounts, salt)
      /\ disk.salt # NoFile => HashedWith(disk.accounts, disk.salt)
      /\ disk.salt = NoFile => disk.accounts = NoAccounts
      /\ lag = "synced" => disk.accounts = accounts
  BY DEF FileInv
\* The steps that save.
<1>c. ASSUME HashedWith(accounts', salt), UNCHANGED salt, Persist(accounts')
      PROVE  FileInv'
  <2>1. CASE disk' = [salt |-> salt, accounts |-> accounts']
    <3>1. disk'.salt = salt /\ disk'.accounts = accounts'
      BY <2>1
    <3> QED
      BY <1>a, <1>c, <3>1 DEF FileInv, HashedWith
  <2>2. CASE disk' = disk /\ lag' = "behind"
    BY <1>b, <1>c, <2>2 DEF FileInv, HashedWith
  <2> QED
    BY <1>c, <2>1, <2>2 DEF Persist
\* The steps that do not.
<1>d. ASSUME UNCHANGED <<accounts, salt, disk, lag>>
      PROVE  FileInv'
  BY <1>b, <1>d DEF FileInv, HashedWith
\* A record with a hash of the present salt, or the hash the old one had.
<1>e. ASSUME NEW v \in Users, NEW r, accounts' = [accounts EXCEPT ![v] = r],
             r = NoAccount \/ r.hash \in {<<salt, p>> : p \in Phones} \cup {NoHash}
                 \/ (accounts[v] # NoAccount /\ r.hash = accounts[v].hash)
      PROVE  HashedWith(accounts', salt)
  <2>1. accounts'[v] = r /\ \A w \in Users : w # v => accounts'[w] = accounts[w]
    BY <1>a, <1>e
  <2> QED
    BY <1>b, <1>e, <2>1 DEF HashedWith
<1>1. ASSUME NEW u \in Users, NEW p \in Phones, Register(u, p)
      PROVE  FileInv'
  <2>1. NewAccount(u, <<salt, p>>, FALSE).hash = <<salt, p>>
    BY DEF NewAccount
  <2>2. HashedWith(accounts', salt)
    BY <1>1, <1>e, <2>1 DEF Register
  <2> QED
    BY <1>1, <1>c, <2>2 DEF Register
<1>2. ASSUME NEW u \in Users, VerifyOK(u)
      PROVE  FileInv'
  <2>1. accounts[u] \in Account /\ accounts[u] # NoAccount
    BY <1>2, <1>a DEF VerifyOK, Live
  <2>2. [accounts[u] EXCEPT !.verified = TRUE].hash = accounts[u].hash
    BY <2>1 DEF Account
  <2>3. accounts' = [accounts EXCEPT ![u] = [accounts[u] EXCEPT !.verified = TRUE]]
    BY <1>2 DEF VerifyOK
  <2>4. HashedWith(accounts', salt)
    BY <1>e, <2>1, <2>2, <2>3
  <2> QED
    BY <1>2, <1>c, <2>4 DEF VerifyOK
<1>3. ASSUME NEW u \in Users, NEW v \in Users, FetchKeys(u, v)
      PROVE  FileInv'
  <2>1. accounts[v] \in Account /\ accounts[v] # NoAccount
    BY <1>3, <1>a DEF FetchKeys, Verified, Live
  <2>2. [accounts[v] EXCEPT !.oneTime = Tail(accounts[v].oneTime)].hash = accounts[v].hash
    BY <2>1 DEF Account
  <2>3. accounts' = [accounts EXCEPT ![v] = [accounts[v] EXCEPT !.oneTime = Tail(accounts[v].oneTime)]]
    BY <1>3 DEF FetchKeys
  <2>4. HashedWith(accounts', salt)
    BY <1>e, <2>1, <2>2, <2>3
  <2> QED
    BY <1>3, <1>c, <2>4 DEF FetchKeys
<1>4. ASSUME NEW u \in Users, UploadKeys(u)
      PROVE  FileInv'
  <2>1. accounts[u] \in Account /\ accounts[u] # NoAccount
    BY <1>4, <1>a DEF UploadKeys, Live
  <2>2. [accounts[u] EXCEPT !.oneTime = accounts[u].oneTime \o FreshKeys].hash = accounts[u].hash
    BY <2>1 DEF Account
  <2>3. accounts' = [accounts EXCEPT ![u] = [accounts[u] EXCEPT !.oneTime = accounts[u].oneTime \o FreshKeys]]
    BY <1>4 DEF UploadKeys
  <2>4. HashedWith(accounts', salt)
    BY <1>e, <2>1, <2>2, <2>3
  <2> QED
    BY <1>4, <1>c, <2>4 DEF UploadKeys
<1>5. ASSUME NEW u \in Users, DeleteAccount(u)
      PROVE  FileInv'
  <2>1. \A v \in Users : accounts'[v] = NoAccount \/ accounts'[v] = accounts[v]
    BY <1>5 DEF DeleteAccount
  <2>2. HashedWith(accounts', salt)
    BY <1>b, <2>1 DEF HashedWith
  <2> QED
    BY <1>5, <1>c, <2>2 DEF DeleteAccount
<1>6. ASSUME NEW u \in Users, NEW v \in Users, RemoveDevice(u, v)
      PROVE  FileInv'
  <2>1. HashedWith(accounts', salt)
    BY <1>6, <1>e DEF RemoveDevice
  <2> QED
    BY <1>6, <1>c, <2>1 DEF RemoveDevice
<1>7. ASSUME NEW t \in LinkCodes, NEW u \in Users, LinkDevice(t, u)
      PROVE  FileInv'
  <2>1. NewAccount(linkTokens[t].accountID, NoHash, TRUE).hash = NoHash
    BY DEF NewAccount
  <2>2. HashedWith(accounts', salt)
    BY <1>7, <1>e, <2>1 DEF LinkDevice
  <2> QED
    BY <1>7, <1>c, <2>2 DEF LinkDevice
<1>8. CASE Restart
  <2>1. CASE disk.salt # NoFile /\ salt' = disk.salt /\ accounts' = disk.accounts
    BY <1>8, <1>b, <2>1 DEF Restart, FileInv, HashedWith
  <2>2. CASE /\ accounts' = NoAccounts
             /\ lag' = IF disk.salt = NoFile /\ lag = "synced" THEN "synced" ELSE "rewound"
    <3>1. HashedWith(accounts', salt')
      BY <2>2 DEF HashedWith, NoAccounts
    <3> QED
      BY <1>8, <1>b, <2>2, <3>1 DEF Restart, FileInv, HashedWith
  <2> QED
    BY <1>8, <2>1, <2>2 DEF Restart
<1>9. ASSUME NEW u \in Users,
             \/ VerifyWrong(u) \/ VerifyLate(u) \/ Authorize(u) \/ PresentRefresh(u) \/ Answer(u)
             \/ Refresh(u) \/ LinkToken(u) \/ \E n \in Batches : Intersect(u, n)
      PROVE  FileInv'
  BY <1>9, <1>d DEF VerifyWrong, VerifyLate, Authorize, PresentRefresh, Answer, Refresh,
                    LinkToken, Intersect
<1>10. ASSUME NEW t \in LinkCodes, LinkLate(t) \/ \E u \in Users : CreateLinkToken(u, t)
       PROVE  FileInv'
  BY <1>10, <1>d DEF LinkLate, CreateLinkToken
<1>11. CASE Tick \/ UNCHANGED vars
  BY <1>11, <1>d DEF Tick, vars
<1> QED
  BY <1>1, <1>2, <1>3, <1>4, <1>5, <1>6, <1>7, <1>8, <1>9, <1>10, <1>11
     DEF Next, Onboard, Serve, Link

\* The file is good for a restart in every state.
LEMMA FileCorrect == Spec => []FileInv
<1>1. Init => FileInv
  BY DiscoveryAssumption DEF Init, FileInv, HashedWith, NoAccounts
<1> QED
  BY <1>1, TypeCorrect, FileStep, PTL DEF Spec

\* Everyone who can be found is found with the salt handed out now, also after a
\* restart from any file (NewPersistentStore).
THEOREM SaltStaysCurrent == Spec => []SaltCurrent
<1>1. FileInv => SaltCurrent
  BY DEF FileInv, HashedWith, SaltCurrent, Live
<1> QED
  BY <1>1, FileCorrect, PTL

\* A device that was removed, and whose removal was saved, stays removed: its id
\* is handed out to nobody else and no restart brings it back.
THEOREM GoneStaysGone == Spec => GoneForGood
<1>1. ASSUME TypeOK, FileInv, [Next]_vars
      PROVE  [\A u \in issued : lag = "synced" /\ ~Live(u) => accounts'[u] = NoAccount]_vars
  <2> SUFFICES ASSUME Next, NEW w \in issued, lag = "synced", accounts[w] = NoAccount
               PROVE  accounts'[w] = NoAccount
    BY <1>1 DEF Live
  <2>a. accounts \in [Users -> Account \cup {NoAccount}] /\ w \in Users
    BY <1>1 DEF TypeOK
  <2>1. ASSUME NEW u \in Users, Onboard(u)
        PROVE  accounts'[w] = NoAccount
    BY <2>1, <2>a DEF Onboard, Register, VerifyOK, VerifyWrong, VerifyLate, Live
  <2>2. ASSUME NEW u \in Users, DeleteAccount(u)
        PROVE  accounts'[w] = NoAccount
    BY <2>2, <2>a DEF DeleteAccount
  <2>3. ASSUME NEW u \in Users, NEW v \in Users, FetchKeys(u, v) \/ RemoveDevice(u, v)
        PROVE  accounts'[w] = NoAccount
    BY <2>3, <2>a DEF FetchKeys, RemoveDevice, Verified, Live
  <2>4. ASSUME NEW u \in Users, UploadKeys(u)
        PROVE  accounts'[w] = NoAccount
    BY <2>4, <2>a DEF UploadKeys, Live
  <2>5. ASSUME NEW t \in LinkCodes, NEW u \in Users, LinkDevice(t, u)
        PROVE  accounts'[w] = NoAccount
    BY <2>5, <2>a DEF LinkDevice
  <2>6. CASE Restart
    BY <1>1, <2>6, <2>a DEF Restart, FileInv, NoAccounts
  <2>7. ASSUME NEW u \in Users,
               \/ Authorize(u) \/ PresentRefresh(u) \/ Answer(u)
               \/ Refresh(u) \/ LinkToken(u) \/ \E n \in Batches : Intersect(u, n)
        PROVE  accounts'[w] = NoAccount
    BY <2>7 DEF Authorize, PresentRefresh, Answer, Refresh, LinkToken, Intersect
  <2>8. ASSUME NEW t \in LinkCodes, LinkLate(t) \/ \E u \in Users : CreateLinkToken(u, t)
        PROVE  accounts'[w] = NoAccount
    BY <2>8 DEF LinkLate, CreateLinkToken
  <2>9. CASE Tick
    BY <2>9 DEF Tick
  <2> QED
    BY <2>1, <2>2, <2>3, <2>4, <2>5, <2>6, <2>7, <2>8, <2>9 DEF Next, Serve, Link
<1> QED
  BY <1>1, TypeCorrect, FileCorrect, PTL DEF Spec, GoneForGood

-----------------------------------------------------------------------------
(* One-time prekeys.  That a key is handed out once needs more than pools  *)
(* without what was handed out: no key may be in two pools, and none that  *)
(* is still to be published may have been handed out.                      *)

\* The pools of accts: what was published, once each, and not yet handed out.
Pools(accts) ==
    /\ \A u \in Users : accts[u] # NoAccount =>
          \A i \in DOMAIN accts[u].oneTime : accts[u].oneTime[i] \in (1..minted) \ handed
    /\ \A u, v \in Users : accts[u] # NoAccount /\ accts[v] # NoAccount =>
          \A i \in DOMAIN accts[u].oneTime, j \in DOMAIN accts[v].oneTime :
              accts[u].oneTime[i] = accts[v].oneTime[j] => u = v /\ i = j

PoolInv == lag # "rewound" => handed \subseteq 1..minted /\ Pools(accounts)

\* The pools stay pools when every key of a pool was in the same user's pool, at a
\* place of its own, or is of the batch published in this step for one user.
LEMMA PoolsKept ==
    ASSUME minted \in Nat, minted' \in Nat, minted <= minted', handed' = handed, handed \subseteq 1..minted,
           Pools(accounts), NEW w \in Users,
           \A u \in Users : accounts'[u] # NoAccount =>
               \A i \in DOMAIN accounts'[u].oneTime :
                  \/ /\ accounts[u] # NoAccount
                     /\ i \in DOMAIN accounts[u].oneTime
                     /\ accounts'[u].oneTime[i] = accounts[u].oneTime[i]
                  \/ /\ u = w
                     /\ i \in Nat
                     /\ accounts'[u].oneTime[i] \in (minted + 1)..minted'
                     /\ \A j \in DOMAIN accounts'[u].oneTime :
                           accounts'[u].oneTime[i] = accounts'[u].oneTime[j] => i = j
    PROVE  Pools(accounts)'
<1>1. ASSUME NEW u \in Users, accounts'[u] # NoAccount, NEW i \in DOMAIN accounts'[u].oneTime
      PROVE  accounts'[u].oneTime[i] \in (1..minted') \ handed'
  BY <1>1 DEF Pools
<1>2. ASSUME NEW u \in Users, NEW v \in Users, accounts'[u] # NoAccount, accounts'[v] # NoAccount,
             NEW i \in DOMAIN accounts'[u].oneTime, NEW j \in DOMAIN accounts'[v].oneTime,
             accounts'[u].oneTime[i] = accounts'[v].oneTime[j]
      PROVE  u = v /\ i = j
  BY <1>2 DEF Pools
<1> QED
  BY <1>1, <1>2 DEF Pools

\* The keys of a batch are new and differ.
LEMMA FreshDiffer ==
    ASSUME minted \in Nat
    PROVE  /\ DOMAIN FreshKeys = 1..Keys
           /\ \A i \in 1..Keys : FreshKeys[i] = minted + i /\ FreshKeys[i] \in (minted + 1)..(minted + Keys)
BY NatConstants DEF FreshKeys

\* Every step keeps the pools apart from each other and from what was handed out.
LEMMA PoolStep == TypeOK /\ TypeOK' /\ FileInv /\ GroupInv /\ PoolInv /\ [Next]_vars => PoolInv'
<1> SUFFICES ASSUME TypeOK, TypeOK', FileInv, GroupInv, PoolInv, [Next]_vars
             PROVE  PoolInv'
  OBVIOUS
<1> USE NatConstants
<1>a. /\ accounts \in [Users -> Account \cup {NoAccount}]
      /\ minted \in Nat /\ minted' \in Nat
      /\ \A u \in Users : accounts[u] # NoAccount => accounts[u].oneTime \in Seq(Nat)
  BY DEF TypeOK, Account
\* Once rewound, always rewound.
<1>b. ASSUME NEW acc, Persist(acc), lag' # "rewound"
      PROVE  lag # "rewound"
  BY <1>b DEF Persist, DiskFails
\* The steps that change no pool.
<1>c. ASSUME UNCHANGED <<minted, handed>>, lag' # "rewound" => lag # "rewound",
             \A v \in Users : accounts'[v] # NoAccount =>
                 accounts[v] # NoAccount /\ accounts'[v].oneTime = accounts[v].oneTime
      PROVE  PoolInv'
  <2>1. ASSUME Pools(accounts)
        PROVE  Pools(accounts)'
    BY <1>c, <2>1 DEF Pools
  <2> QED
    BY <1>a, <1>c, <2>1 DEF PoolInv
\* The steps that give a new device its first pool.
<1>d. ASSUME NEW u \in Users, NEW id, NEW h, NEW b, u \notin issued,
             accounts' = [accounts EXCEPT ![u] = NewAccount(id, h, b)],
             Persist(accounts'), minted' = minted + Keys, UNCHANGED handed
      PROVE  PoolInv'
  <2>1. accounts[u] = NoAccount
    BY <1>d DEF GroupInv
  <2>2. accounts'[u].oneTime = FreshKeys
    BY <1>a, <1>d DEF NewAccount
  <2>3. \A v \in Users : v # u => accounts'[v] = accounts[v]
    BY <1>a, <1>d
  <2>4. ASSUME NEW i \in DOMAIN accounts'[u].oneTime
        PROVE  /\ i \in Nat
               /\ accounts'[u].oneTime[i] \in (minted + 1)..minted'
               /\ \A j \in DOMAIN accounts'[u].oneTime :
                     accounts'[u].oneTime[i] = accounts'[u].oneTime[j] => i = j
    BY <1>a, <1>d, <2>2, FreshDiffer
  <2>5. minted <= minted' /\ handed' = handed
    BY <1>a, <1>d
  <2>6. ASSUME Pools(accounts), handed \subseteq 1..minted
        PROVE  Pools(accounts)' /\ handed' \subseteq 1..minted'
    <3>1. Pools(accounts)'
      BY <1>a, <2>3, <2>4, <2>5, <2>6, PoolsKept
    <3> QED
      BY <1>a, <2>5, <2>6, <3>1
  <2> QED
    BY <1>b, <1>d, <2>6 DEF PoolInv
<1>1. ASSUME NEW u \in Users, NEW p \in Phones, Register(u, p)
      PROVE  PoolInv'
  <2>1. /\ u \notin issued /\ accounts' = [accounts EXCEPT ![u] = NewAccount(u, <<salt, p>>, FALSE)]
        /\ Persist(accounts') /\ minted' = minted + Keys /\ UNCHANGED handed
    BY <1>1 DEF Register
  <2> QED
    BY <1>d, <2>1
<1>2. ASSUME NEW u \in Users, VerifyOK(u)
      PROVE  PoolInv'
  <2>1. accounts[u] \in Account /\ accounts[u] # NoAccount
    BY <1>2, <1>a DEF VerifyOK, Live
  <2>2. [accounts[u] EXCEPT !.verified = TRUE].oneTime = accounts[u].oneTime
    BY <2>1 DEF Account
  <2>3. accounts' = [accounts EXCEPT ![u] = [accounts[u] EXCEPT !.verified = TRUE]]
    BY <1>2 DEF VerifyOK
  <2>4. \A v \in Users : accounts'[v] # NoAccount =>
            accounts[v] # NoAccount /\ accounts'[v].oneTime = accounts[v].oneTime
    BY <1>a, <2>1, <2>2, <2>3
  <2> QED
    BY <1>2, <1>b, <1>c, <2>4 DEF VerifyOK
<1>3. ASSUME NEW u \in Users, NEW v \in Users, FetchKeys(u, v)
      PROVE  PoolInv'
  <2> DEFINE s == accounts[v].oneTime
  <2>1. accounts[v] \in Account /\ accounts[v] # NoAccount /\ s # <<>>
    BY <1>3, <1>a DEF FetchKeys, Verified, Live
  <2>2. [accounts[v] EXCEPT !.oneTime = Tail(s)].oneTime = Tail(s)
    BY <2>1 DEF Account
  <2>3. /\ accounts' = [accounts EXCEPT ![v] = [accounts[v] EXCEPT !.oneTime = Tail(s)]]
        /\ handed' = handed \cup {Head(s)} /\ minted' = minted /\ Persist(accounts')
    BY <1>3 DEF FetchKeys
  <2>4. /\ accounts'[v].oneTime = Tail(s)
        /\ \A w \in Users : w # v => accounts'[w] = accounts[w]
    BY <1>a, <2>2, <2>3
  <2>5. s \in Seq(Nat) /\ Len(s) > 0
    BY <1>a, <2>1
  <2> HIDE DEF s
  <2>6. /\ Head(s) = s[1] /\ 1 \in DOMAIN s
        /\ \A i \in DOMAIN Tail(s) : i \in Nat \ {0} /\ i + 1 \in DOMAIN s /\ Tail(s)[i] = s[i + 1]
    BY <2>5
  <2> USE DEF s
  <2>7. ASSUME Pools(accounts)
        PROVE  Pools(accounts)' /\ s[1] \in 1..minted
    <3>1. s[1] \in 1..minted
      BY <2>1, <2>6, <2>7 DEF Pools
    <3>2. ASSUME NEW w \in Users, accounts'[w] # NoAccount, NEW i \in DOMAIN accounts'[w].oneTime
          PROVE  accounts'[w].oneTime[i] \in (1..minted') \ handed'
      <4>1. CASE w = v
        <5>1. i \in Nat \ {0} /\ i + 1 \in DOMAIN s /\ accounts'[w].oneTime[i] = s[i + 1]
          BY <2>4, <2>6, <3>2, <4>1
        <5>2. s[i + 1] \in (1..minted) \ handed /\ s[i + 1] # s[1]
          <6>1. i + 1 # 1
            BY <5>1
          <6> QED
            BY <2>1, <2>6, <2>7, <5>1, <6>1 DEF Pools
        <5> HIDE DEF s
        <5> QED
          BY <2>3, <2>6, <5>1, <5>2
      <4>2. CASE w # v
        <5>1. accounts'[w] = accounts[w]
          BY <2>4, <4>2
        <5>2. accounts[w].oneTime[i] \in (1..minted) \ handed /\ accounts[w].oneTime[i] # s[1]
          BY <2>1, <2>6, <2>7, <3>2, <4>2, <5>1 DEF Pools
        <5> QED
          <6>1. handed' = handed \cup {s[1]} /\ minted' = minted
            BY <2>3, <2>6
          <6> QED
            BY <5>1, <5>2, <6>1
      <4> QED
        BY <4>1, <4>2
    <3>3. ASSUME NEW w \in Users, NEW x \in Users, accounts'[w] # NoAccount, accounts'[x] # NoAccount,
                 NEW i \in DOMAIN accounts'[w].oneTime, NEW j \in DOMAIN accounts'[x].oneTime,
                 accounts'[w].oneTime[i] = accounts'[x].oneTime[j]
          PROVE  w = x /\ i = j
      <4> DEFINE at(y, k) == IF y = v THEN k + 1 ELSE k
      <4>1. ASSUME NEW y \in Users, accounts'[y] # NoAccount, NEW k \in DOMAIN accounts'[y].oneTime
            PROVE  /\ accounts[y] # NoAccount /\ at(y, k) \in DOMAIN accounts[y].oneTime
                   /\ accounts'[y].oneTime[k] = accounts[y].oneTime[at(y, k)]
                   /\ y = v => k \in Nat
        BY <2>1, <2>4, <2>6, <4>1
      <4>2. w = x /\ at(w, i) = at(x, j)
        <5>1. /\ accounts[w] # NoAccount /\ accounts[x] # NoAccount
              /\ at(w, i) \in DOMAIN accounts[w].oneTime /\ at(x, j) \in DOMAIN accounts[x].oneTime
              /\ accounts[w].oneTime[at(w, i)] = accounts[x].oneTime[at(x, j)]
          BY <3>3, <4>1
        <5> HIDE DEF at
        <5> QED
          BY <2>7, <5>1 DEF Pools
      <4> QED
        BY <3>3, <4>1, <4>2
    <3> QED
      BY <3>1, <3>2, <3>3 DEF Pools
  <2>8. ASSUME Pools(accounts), handed \subseteq 1..minted
        PROVE  handed' \subseteq 1..minted'
    BY <2>3, <2>6, <2>7, <2>8
  <2> QED
    BY <1>b, <2>3, <2>7, <2>8 DEF PoolInv
<1>4. ASSUME NEW u \in Users, UploadKeys(u)
      PROVE  PoolInv'
  <2> DEFINE s == accounts[u].oneTime
  <2>1. accounts[u] \in Account /\ accounts[u] # NoAccount /\ s \in Seq(Nat)
    BY <1>4, <1>a DEF UploadKeys, Live
  <2>2. [accounts[u] EXCEPT !.oneTime = s \o FreshKeys].oneTime = s \o FreshKeys
    BY <2>1 DEF Account
  <2>3. /\ accounts' = [accounts EXCEPT ![u] = [accounts[u] EXCEPT !.oneTime = s \o FreshKeys]]
        /\ handed' = handed /\ minted' = minted + Keys /\ Persist(accounts')
    BY <1>4 DEF UploadKeys
  <2>4. /\ accounts'[u].oneTime = s \o FreshKeys
        /\ \A w \in Users : w # u => accounts'[w] = accounts[w]
    BY <1>a, <2>2, <2>3
  <2>5. FreshKeys \in Seq(Nat) /\ Len(FreshKeys) = Keys
    BY <1>a, FreshType DEF FreshKeys
  <2> HIDE DEF s
  <2>6. ASSUME NEW i \in DOMAIN (s \o FreshKeys)
        PROVE  \/ i \in DOMAIN s /\ (s \o FreshKeys)[i] = s[i]
               \/ i \in Nat /\ i > Len(s) /\ i - Len(s) \in 1..Keys /\ (s \o FreshKeys)[i] = minted + (i - Len(s))
    <3>1. i \in 1..(Len(s) + Keys) /\ Len(s) \in Nat
      BY <2>1, <2>5
    <3>2. CASE i <= Len(s)
      BY <2>1, <2>5, <3>1, <3>2
    <3>3. CASE i > Len(s)
      <4>1. i - Len(s) \in 1..Keys /\ (s \o FreshKeys)[i] = FreshKeys[i - Len(s)]
        BY <2>1, <2>5, <3>1, <3>3
      <4> QED
        BY <1>a, <3>1, <3>3, <4>1, FreshDiffer
    <3> QED
      BY <3>1, <3>2, <3>3
  <2>7. ASSUME Pools(accounts), handed \subseteq 1..minted
        PROVE  Pools(accounts)' /\ handed' \subseteq 1..minted'
    <3>1. \A i \in DOMAIN s : s[i] \in 1..minted
      BY <2>1, <2>7 DEF Pools, s
    <3>2. ASSUME NEW i \in DOMAIN (s \o FreshKeys)
          PROVE  \/ i \in DOMAIN s /\ (s \o FreshKeys)[i] = s[i]
                 \/ /\ i \in Nat
                    /\ (s \o FreshKeys)[i] \in (minted + 1)..minted'
                    /\ \A j \in DOMAIN (s \o FreshKeys) :
                          (s \o FreshKeys)[i] = (s \o FreshKeys)[j] => i = j
      <4>1. CASE i \in Nat /\ i > Len(s) /\ i - Len(s) \in 1..Keys /\ (s \o FreshKeys)[i] = minted + (i - Len(s))
        <5>1. (s \o FreshKeys)[i] \in (minted + 1)..minted' /\ Len(s) \in Nat
          <6>1. minted' = minted + Keys /\ Len(s) \in Nat
            BY <2>1, <2>3
          <6>2. \A n \in 1..Keys : minted + n \in (minted + 1)..(minted + Keys)
            BY <1>a
          <6> QED
            BY <4>1, <6>1, <6>2
        <5>2. ASSUME NEW j \in DOMAIN (s \o FreshKeys), (s \o FreshKeys)[i] = (s \o FreshKeys)[j]
              PROVE  i = j
          <6>1. CASE j \in DOMAIN s /\ (s \o FreshKeys)[j] = s[j]
            <7>1. s[j] \in 1..minted /\ s[j] \in (minted + 1)..minted'
              BY <3>1, <5>1, <5>2, <6>1
            <7> QED
              BY <1>a, <7>1
          <6>2. CASE j \in Nat /\ (s \o FreshKeys)[j] = minted + (j - Len(s))
            BY <1>a, <4>1, <5>1, <5>2, <6>2
          <6> QED
            BY <2>6, <6>1, <6>2
        <5> QED
          BY <4>1, <5>1, <5>2
      <4> QED
        BY <2>6, <4>1
    <3>3. minted <= minted' /\ handed' = handed
      BY <1>a, <2>3
    <3>4. ASSUME NEW v \in Users, accounts'[v] # NoAccount, NEW i \in DOMAIN accounts'[v].oneTime
          PROVE  \/ /\ accounts[v] # NoAccount
                    /\ i \in DOMAIN accounts[v].oneTime
                    /\ accounts'[v].oneTime[i] = accounts[v].oneTime[i]
                 \/ /\ v = u
                    /\ i \in Nat
                    /\ accounts'[v].oneTime[i] \in (minted + 1)..minted'
                    /\ \A j \in DOMAIN accounts'[v].oneTime :
                          accounts'[v].oneTime[i] = accounts'[v].oneTime[j] => i = j
      <4>1. CASE v = u
        BY <2>1, <2>4, <3>2, <3>4, <4>1 DEF s
      <4>2. CASE v # u
        BY <2>4, <3>4, <4>2
      <4> QED
        BY <4>1, <4>2
    <3>5. Pools(accounts)'
      BY <1>a, <2>7, <3>3, <3>4, PoolsKept
    <3> QED
      BY <1>a, <2>7, <3>3, <3>5
  <2> QED
    BY <1>b, <2>3, <2>7 DEF PoolInv
<1>5. ASSUME NEW u \in Users, DeleteAccount(u)
      PROVE  PoolInv'
  <2>1. \A v \in Users : accounts'[v] = NoAccount \/ accounts'[v] = accounts[v]
    BY <1>5 DEF DeleteAccount
  <2> QED
    BY <1>5, <1>b, <1>c, <2>1 DEF DeleteAccount
<1>6. ASSUME NEW u \in Users, NEW v \in Users, RemoveDevice(u, v)
      PROVE  PoolInv'
  <2>1. \A w \in Users : accounts'[w] = NoAccount \/ accounts'[w] = accounts[w]
    BY <1>6, <1>a DEF RemoveDevice
  <2> QED
    BY <1>6, <1>b, <1>c, <2>1 DEF RemoveDevice
<1>7. ASSUME NEW t \in LinkCodes, NEW u \in Users, LinkDevice(t, u)
      PROVE  PoolInv'
  <2>1. /\ u \notin issued
        /\ accounts' = [accounts EXCEPT ![u] = NewAccount(linkTokens[t].accountID, NoHash, TRUE)]
        /\ Persist(accounts') /\ minted' = minted + Keys /\ UNCHANGED handed
    BY <1>7 DEF LinkDevice
  <2> QED
    BY <1>d, <2>1
<1>8. CASE Restart
  <2>1. lag' # "rewound" => lag = "synced" /\ accounts' = accounts
    BY <1>8 DEF Restart, FileInv
  <2>2. UNCHANGED <<minted, handed>>
    BY <1>8 DEF Restart
  <2> QED
    BY <2>1, <2>2 DEF PoolInv, Pools
<1>9. ASSUME NEW u \in Users,
             \/ VerifyWrong(u) \/ VerifyLate(u) \/ Authorize(u) \/ PresentRefresh(u) \/ Answer(u)
             \/ Refresh(u) \/ LinkToken(u) \/ \E n \in Batches : Intersect(u, n)
      PROVE  PoolInv'
  BY <1>9, <1>c DEF VerifyWrong, VerifyLate, Authorize, PresentRefresh, Answer, Refresh,
                    LinkToken, Intersect
<1>10. ASSUME NEW t \in LinkCodes, LinkLate(t) \/ \E u \in Users : CreateLinkToken(u, t)
       PROVE  PoolInv'
  BY <1>10, <1>c DEF LinkLate, CreateLinkToken
<1>11. CASE Tick \/ UNCHANGED vars
  BY <1>11, <1>c DEF Tick, vars
<1> QED
  BY <1>1, <1>2, <1>3, <1>4, <1>5, <1>6, <1>7, <1>8, <1>9, <1>10, <1>11
     DEF Next, Onboard, Serve, Link

\* No one-time prekey is handed to two peers, also across a crash at any moment,
\* as long as the saves succeed (Store.bundleFor, addOneTime, persistLocked).
THEOREM KeysHandedOnce == Spec => []OtkOnce
<1>1. Init => GroupInv /\ PoolInv
  BY DEF Init, GroupInv, Grouped, NoAccounts, PoolInv, Pools
<1>2. TypeOK /\ PoolInv => OtkOnce
  <2> SUFFICES ASSUME TypeOK, PoolInv, lag # "rewound", NEW u \in Users, accounts[u] # NoAccount
               PROVE  /\ \A k \in ToSet(accounts[u].oneTime) : k \notin handed
                      /\ IsInjective(accounts[u].oneTime)
    BY DEF OtkOnce, Live
  <2>1. \A k \in ToSet(accounts[u].oneTime) : k \notin handed
    BY DEF PoolInv, Pools, ToSet
  <2>2. IsInjective(accounts[u].oneTime)
    BY DEF PoolInv, Pools, IsInjective
  <2> QED
    BY <2>1, <2>2
<1> QED
  BY <1>1, <1>2, TypeCorrect, FileCorrect, GroupStep, PoolStep, PTL DEF Spec
=============================================================================
