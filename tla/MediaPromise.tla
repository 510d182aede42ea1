----------------------------- MODULE MediaPromise -----------------------------
(* What the attachments of a message promise: a recipient is shown nothing,  *)
(* or the bytes the sender picked, which never change.                       *)

CONSTANTS Items, Data, None

VARIABLES
    attached,  \* item -> the bytes picked, or None
    shown      \* item -> the bytes shown, or None

Init ==
    /\ attached = [i \in Items |-> None]
    /\ shown = [i \in Items |-> None]

Pick(i, bytes) ==
    /\ attached[i] = None
    /\ attached' = [attached EXCEPT ![i] = bytes]
    /\ UNCHANGED shown

Show(i) ==
    /\ attached[i] # None
    /\ shown' = [shown EXCEPT ![i] = attached[i]]
    /\ UNCHANGED attached

Next == \E i \in Items : Show(i) \/ \E bytes \in Data : Pick(i, bytes)

Spec == Init /\ [][Next]_<<attached, shown>>
=============================================================================
