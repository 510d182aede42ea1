----------------------------- MODULE MCPresence -----------------------------
(* The instances of Typing, Statuses and Reports for TLC: three stores that *)
(* share nothing but the screen and the process.                            *)
EXTENDS Typing, Statuses, Reports

CONSTANTS p, q, gr, u1, u2, s1, s2, r1, r2, k1, k2

Init == TypingInit /\ StatusesInit /\ ReportsInit

Next ==
    \/ TypingNext /\ UNCHANGED <<statusVars, reportVars>>
    \/ StatusesNext /\ UNCHANGED <<typingVars, reportVars>>
    \/ ReportsNext /\ UNCHANGED <<typingVars, statusVars>>

Spec == Init /\ [][Next]_<<typingVars, statusVars, reportVars>> /\ TypingFairness

\* bound: one store at a time is in use.  Of the typing store, one sender in two
\* threads with two signals under way, or two in the group with one and never both
\* at their screens.
OneStore ==
    /\ Cardinality({v \in {1, 2, 3} :
           \/ v = 1 /\ ~TypingInit
           \/ v = 2 /\ ~StatusesInit
           \/ v = 3 /\ ~ReportsInit}) <= 1
    /\ LET underWay == MapThenSumSet(LAMBDA n : pings[n], Signals)
           aloof(s) == composer[s] = NoScreen
           inGroup(s) == composer[s].thread \in {None, gr} /\ begun[s] \subseteq {gr}
       IN  \/ aloof(q) /\ begun[q] = {} /\ q \notin DOMAIN byConv[gr] /\ underWay <= 2
           \/ inGroup(p) /\ inGroup(q) /\ (aloof(p) \/ aloof(q)) /\ underWay <= 1
=============================================================================
