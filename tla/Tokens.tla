------------------------------- MODULE Tokens -------------------------------
(***************************************************************************)
(* The directory client (packages/client/src/discovery.ts): its two tokens *)
(* and every call that uses them.                                          *)
(*                                                                         *)
(* A call is suspended while its request or the shared refresh is under    *)
(* way.  Calls differ in what they do with a 401: "request" stands for the *)
(* operations that go through request(), which refreshes once and retries; *)
(* "remove" and "delete" fetch on their own; "ensure" is ensureAccess,     *)
(* which a connection calls before it uses the token.  What an answer      *)
(* carries is left out, and so is the restoring of saved tokens, which     *)
(* happens before there is any call.                                       *)
(***************************************************************************)
EXTENDS Naturals

CONSTANTS
    Accounts,   \* bound: the accounts onboarded in one process, one after the other
    Calls,      \* bound: calls under way
    MaxTokens,  \* bound: access tokens issued
    None

ASSUME TokensAssumption == MaxTokens \in Nat /\ None \notin Accounts

VARIABLES
    user,       \* the account last onboarded, or None before there is one; a deletion
                \* leaves it, as the account that remaining tokens are those of
    token,      \* the access token, or None
    refresh_,   \* the account whose refresh token it has, or None
    refreshing, \* the account of the refresh in flight, or None
    call,       \* the calls
    alive,      \* accounts the directory knows
    live,       \* access tokens that have not expired
    issued,     \* how many there have been
    crossed     \* history: "sent" while the refresh in flight is that of another account
                \* than the one onboarded under it, "done" once it has been answered

tokenVars == <<user, token, refresh_, refreshing, call, alive, live, issued, crossed>>

Token == [of : Accounts, n : Nat]
Kinds == {"request", "remove", "delete", "ensure"}
NoCall == [at |-> "idle", kind |-> "request", bearer |-> None, retried |-> FALSE]

TokensInit ==
    /\ user = None /\ token = None /\ refresh_ = None /\ refreshing = None
    /\ call = [c \in Calls |-> NoCall]
    /\ alive = {} /\ live = {} /\ issued = 0 /\ crossed = "no"

\* The directory's check of a bearer token.
Authorized(bearer) == bearer # None /\ bearer \in live /\ bearer.of \in alive

New(a) == [of |-> a, n |-> issued + 1]

Waiting == {c \in Calls : call[c].at = "refresh"}

\* Of the refresh in flight, when account a is onboarded.
Crossing(a) == IF refreshing \in {None, a} THEN "no" ELSE "sent"

-----------------------------------------------------------------------------
\* Mutant of SubmitOtp: a refresh token that is there is kept.
SubmitOtpKeeps(a) ==
    /\ a \notin alive /\ issued < MaxTokens
    /\ user' = a /\ token' = New(a)
    /\ refresh_' = IF refresh_ = None THEN a ELSE refresh_
    /\ alive' = alive \union {a} /\ live' = live \union {New(a)} /\ issued' = issued + 1
    /\ crossed' = Crossing(a)
    /\ UNCHANGED <<refreshing, call>>

\* submitOtp or linkDevice is answered: a new account, or a new device of one.
SubmitOtp(a) ==
    /\ a \notin alive /\ issued < MaxTokens
    /\ user' = a /\ token' = New(a) /\ refresh_' = a
    /\ alive' = alive \union {a} /\ live' = live \union {New(a)} /\ issued' = issued + 1
    /\ crossed' = Crossing(a)
    /\ UNCHANGED <<refreshing, call>>

\* A call begins with the token of this moment; ensureAccess begins with its checks.
Begin(c, kind) ==
    /\ call[c] = NoCall /\ user # None
    /\ kind # "ensure"
    /\ call' = [call EXCEPT ![c] = [at |-> "sent", kind |-> kind, bearer |-> token,
                                    retried |-> FALSE]]
    /\ UNCHANGED <<user, token, refresh_, refreshing, alive, live, issued, crossed>>

\* refresh: all callers share the one in flight.
Refresh(c, kind) ==
    /\ call' = [call EXCEPT ![c] = [at |-> "refresh", kind |-> kind, bearer |-> None,
                                    retried |-> FALSE]]
    /\ refreshing' = IF refreshing = None THEN refresh_ ELSE refreshing

\* ensureAccess finds no token, or one that expires within the minute: how old a
\* token is is left out, so that any token, accepted or not, may be such a one.
EnsureAccess(c) ==
    /\ call[c] = NoCall /\ user # None
    /\ refresh_ # None
    /\ Refresh(c, "ensure")
    /\ UNCHANGED <<user, token, refresh_, alive, live, issued, crossed>>

\* A call is over: its promise is settled.
Ends(c) == call' = [call EXCEPT ![c] = NoCall]

\* The directory carries the request out.
Accepted(c) ==
    /\ call[c].at = "sent" /\ Authorized(call[c].bearer)
    /\ Ends(c)
    /\ IF call[c].kind = "delete"
       THEN token' = None /\ alive' = alive \ {call[c].bearer.of}
       ELSE UNCHANGED <<token, alive>>
    /\ UNCHANGED <<user, refresh_, refreshing, live, issued, crossed>>

\* 401: request refreshes once and sends again; the others fail.
Unauthorized(c) ==
    /\ call[c].at = "sent" /\ ~Authorized(call[c].bearer)
    /\ IF call[c].kind = "request" /\ ~call[c].retried /\ refresh_ # None
       THEN Refresh(c, "request")
       ELSE Ends(c) /\ UNCHANGED refreshing
    /\ UNCHANGED <<user, token, refresh_, alive, live, issued, crossed>>

\* No answer, or another error.  The directory may have carried a deletion out.
Lost(c) ==
    /\ call[c].at = "sent"
    /\ Ends(c)
    /\ alive' \in {alive} \union
        IF call[c].kind = "delete" /\ Authorized(call[c].bearer)
        THEN {alive \ {call[c].bearer.of}} ELSE {}
    /\ UNCHANGED <<user, token, refresh_, refreshing, live, issued, crossed>>

\* Every call that waits goes on: an ensureAccess returns, a request is sent again.
Resumed(bearer) ==
    [c \in Calls |->
        IF c \notin Waiting THEN call[c]
        ELSE IF call[c].kind = "ensure" THEN NoCall
        ELSE [at |-> "sent", kind |-> "request", bearer |-> bearer, retried |-> TRUE]]

\* The refresh is answered: its tokens replace the client's, whosever those are.
RefreshOK ==
    /\ refreshing # None /\ refreshing \in alive /\ issued < MaxTokens
    /\ token' = New(refreshing) /\ refresh_' = refreshing /\ refreshing' = None
    /\ live' = live \union {New(refreshing)} /\ issued' = issued + 1
    /\ call' = Resumed(New(refreshing))
    /\ crossed' = IF crossed = "sent" THEN "done" ELSE crossed
    /\ UNCHANGED <<user, alive>>

\* Mutant of RefreshFails: the shared promise is dropped, its callers are not told.
RefreshFailsSilently ==
    /\ refreshing # None
    /\ refreshing' = None
    /\ crossed' = IF crossed = "sent" THEN "no" ELSE crossed
    /\ UNCHANGED <<user, token, refresh_, call, alive, live, issued>>

\* The refresh fails: so does every call that shares it.
RefreshFails ==
    /\ refreshing # None
    /\ refreshing' = None
    /\ call' = [c \in Calls |-> IF c \in Waiting THEN NoCall ELSE call[c]]
    /\ crossed' = IF crossed = "sent" THEN "no" ELSE crossed
    /\ UNCHANGED <<user, token, refresh_, alive, live, issued>>

\* accessTTL has passed since a token was issued.
Expire(t) ==
    /\ live' = live \ {t}
    /\ UNCHANGED <<user, token, refresh_, refreshing, call, alive, issued, crossed>>

Settle(c) == Accepted(c) \/ Unauthorized(c) \/ Lost(c)

TokensNext ==
    \/ \E a \in Accounts : SubmitOtp(a)
    \/ \E c \in Calls :
        \/ \E kind \in Kinds : Begin(c, kind)
        \/ EnsureAccess(c) \/ Settle(c)
    \/ RefreshOK \/ RefreshFails
    \/ \E t \in live : Expire(t)

\* Every request is answered or fails, and so is the refresh: fetch settles.
TokensFairness ==
    /\ \A c \in Calls : WF_tokenVars(Settle(c))
    /\ WF_tokenVars(RefreshOK \/ RefreshFails)

-----------------------------------------------------------------------------
(* Properties.                                                             *)

\* Tokens and calls have their types.
TokensTypeOK ==
    /\ user \in Accounts \union {None} /\ token \in Token \union {None}
    /\ refresh_ \in Accounts \union {None} /\ refreshing \in Accounts \union {None}
    /\ call \in [Calls -> [at : {"idle", "sent", "refresh"}, kind : Kinds,
                           bearer : Token \union {None}, retried : BOOLEAN]]
    /\ alive \subseteq Accounts /\ live \subseteq Token
    /\ issued \in 0..MaxTokens /\ crossed \in {"no", "sent", "done"}

\* The client acts as the account it is: whatever refreshes, deletions and new
\* onboardings came before, the access token is the user's own.  One thing takes it
\* away: the answer to a refresh that was sent for another account before the user
\* onboarded; until that answer, and when it is a failure, the token is still theirs.
OwnToken == crossed # "done" /\ token # None => token.of = user

\* Every call comes to an end: shared refreshes resume all that wait for them, and
\* a 401 is not retried for ever.
CallsEnd == \A c \in Calls : call[c] # NoCall ~> call[c] = NoCall

(* What the code's comments say, and the code does not do.                 *)

\* discovery.ts:100-101 "verify the OTP and keep the returned bearer token": the
\* access token is the one of the account last onboarded.
TokenIsKept == token # None => token.of = user
=============================================================================
