------------------------------ MODULE Statuses ------------------------------
(***************************************************************************)
(* Status updates: the status store, postStatus and the Updates tab.       *)
(*                                                                         *)
(* Every user has a store and a tab.  A status carries the moment it       *)
(* expires, so all copies of it have the same time to live; clocks agree.  *)
(* Text, phone number and the order of the list are left out.              *)
(***************************************************************************)
EXTENDS Naturals, FiniteSetsExt

CONSTANTS
    Users,
    StatusIds,  \* bound: statuses posted
    StatusTTL   \* STATUS_TTL_MS

ASSUME StatusesAssumption == StatusTTL \in Nat \ {0}

VARIABLES
    ttl,    \* status that was posted -> the time to its expiresAt
    items,  \* user -> the statuses in its store
    tab,    \* user -> its Updates tab: open, the memoised list, a share under way
    notes   \* copies under way: status, sender, recipient

statusVars == <<ttl, items, tab, notes>>

NoTab == [open |-> FALSE, active |-> {}, busy |-> FALSE]

StatusesInit ==
    /\ ttl = <<>>
    /\ items = [u \in Users |-> {}]
    /\ tab = [u \in Users |-> NoTab]
    /\ notes = {}

Unexpired(ids) == {i \in ids : ttl[i] # 0}

\* Mutant of Upsert: what comes in is not looked at.
UpsertAll(u, i) == Unexpired(items[u] \ {i}) \union {i}

\* upsert: one of each id, expired ones pruned, the new one among them.
Upsert(u, i) == Unexpired(items[u] \ {i}) \union Unexpired({i})

\* The store emits: the tab filters the new list, once.
Emitted(u, list) ==
    /\ items' = [items EXCEPT ![u] = list]
    /\ tab' = [tab EXCEPT ![u].active = IF tab[u].open THEN Unexpired(list) ELSE {}]

OpenTab(u) ==
    /\ ~tab[u].open
    /\ tab' = [tab EXCEPT ![u] = [open |-> TRUE, active |-> Unexpired(items[u]), busy |-> FALSE]]
    /\ UNCHANGED <<ttl, items, notes>>

\* The tab is unmounted; a share goes on without it.
CloseTab(u) ==
    /\ tab[u].open
    /\ tab' = [tab EXCEPT ![u] = NoTab]
    /\ UNCHANGED <<ttl, items, notes>>

\* share and postStatus: into the own store, then to every conversation's peer.
Share(u, i) ==
    /\ tab[u].open /\ ~tab[u].busy /\ i \notin DOMAIN ttl
    /\ ttl' = [j \in DOMAIN ttl \union {i} |-> IF j = i THEN StatusTTL ELSE ttl[j]]
    /\ items' = [items EXCEPT ![u] = Unexpired(@) \union {i}]
    /\ tab' = [tab EXCEPT ![u] = [open |-> TRUE, active |-> Unexpired(items[u]) \union {i},
                                  busy |-> TRUE]]
    /\ \E peers \in SUBSET (Users \ {u}) :
        notes' = notes \union {[id |-> i, from |-> u, to |-> p] : p \in peers}

\* The sends have settled, whether or not they worked.
Shared(u) ==
    /\ tab[u].busy
    /\ tab' = [tab EXCEPT ![u].busy = FALSE]
    /\ UNCHANGED <<ttl, items, notes>>

\* receive routes a status to receiveStatus; the relay may deliver it again.
ReceiveStatus(n, again) ==
    /\ n \in notes
    /\ Emitted(n.to, Upsert(n.to, n.id))
    /\ notes' = IF again THEN notes ELSE notes \ {n}
    /\ UNCHANGED ttl

LoseNote(n) ==
    /\ n \in notes
    /\ notes' = notes \ {n}
    /\ UNCHANGED <<ttl, items, tab>>

\* Time passes; nothing calls prune.
Age ==
    /\ Unexpired(DOMAIN ttl) # {}
    /\ ttl' = [i \in DOMAIN ttl |-> Max({ttl[i], 1}) - 1]
    /\ UNCHANGED <<items, tab, notes>>

StatusesNext ==
    \/ \E u \in Users :
        \/ OpenTab(u) \/ CloseTab(u) \/ Shared(u)
        \/ \E i \in StatusIds : Share(u, i)
    \/ \E n \in notes : LoseNote(n) \/ \E again \in BOOLEAN : ReceiveStatus(n, again)
    \/ Age

StatusesSpec == StatusesInit /\ [][StatusesNext]_statusVars

-----------------------------------------------------------------------------
(* Properties.                                                             *)

\* A status that has expired and is gone from a store never comes back, although
\* copies of it may arrive late or again: it is neither stored nor shown anew.
NotRevived ==
    [][\A u \in Users, i \in DOMAIN ttl :
        ttl[i] = 0 => /\ i \in items'[u] => i \in items[u]
                      /\ i \in tab'[u].active => i \in tab[u].active]_statusVars
=============================================================================
