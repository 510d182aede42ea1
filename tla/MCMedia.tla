------------------------------- MODULE MCMedia -------------------------------
(* The instances of Media, and with it of Tokens, for TLC. *)
EXTENDS Media

CONSTANTS a1, a2, c1, c2, i1, i2, x, y

\* bound: while attachments are under way there are at most two tokens of one
\* account, one attachment and one other call, or two attachments and no call.
Focus ==
    \/ \A i \in Items : attached'[i] = None
    \/ issued' = 1 /\ \A c \in Calls : call'[c] = NoCall
    \/ issued' <= 2 /\ a2 \notin alive' /\ call'[c2] = NoCall /\ attached'[i2] = None
=============================================================================
