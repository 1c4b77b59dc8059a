----------------------------- MODULE CafContext -----------------------------
(***************************************************************************)
(* The two containers a node's caf::Context owns                           *)
(* (src/src/ndnSIM/model/caf-context.cpp), as operators on their values:   *)
(* the AlertStore, a bounded list of the alerts the node has seen, newest  *)
(* first, and the DeferredRegistry, which maps an alert to the identifier  *)
(* of the simulator event that will transmit it.                           *)
(***************************************************************************)
EXTENDS Naturals, Sequences

CONSTANT NoEvent   \* "the alert has no entry in the registry"

StoreEntry(alert, senderType, senderPos) ==
    [alert |-> alert, senderType |-> senderType, senderPos |-> senderPos]

StoredAlerts(store) == {store[i].alert : i \in DOMAIN store}

IsDuplicate(store, alert) == alert \in StoredAlerts(store)

\* Position of the alert in the list; only used when it is a duplicate.
IndexOf(store, alert) == CHOOSE i \in DOMAIN store : store[i].alert = alert

Get(store, alert) == store[IndexOf(store, alert)]

MoveToFront(store, i) ==
    <<store[i]>> \o SubSeq(store, 1, i - 1) \o SubSeq(store, i + 1, Len(store))

EvictOldest(store) == SubSeq(store, 1, Len(store) - 1)

(***************************************************************************)
(* A known alert only moves to the front: the fields of its entry stay as  *)
(* they were.  A new one goes to the front and may push out the oldest.    *)
(***************************************************************************)
InsertOrUpdate(store, entry, maxSize) ==
    IF IsDuplicate(store, entry.alert)
    THEN MoveToFront(store, IndexOf(store, entry.alert))
    ELSE LET grown == <<entry>> \o store
         IN  IF Len(grown) > maxSize THEN EvictOldest(grown) ELSE grown

-----------------------------------------------------------------------------
\* Registering overwrites: an event registered earlier stays scheduled.
Register(registry, alert, id) == [registry EXCEPT ![alert] = id]

IsRegistered(registry, alert) == registry[alert] # NoEvent

\* Mutant of Erase: a completed event keeps its entry.
EraseNothing(registry, alert) == registry

\* What Cancel and Complete have in common: the alert's entry goes.
Erase(registry, alert) == [registry EXCEPT ![alert] = NoEvent]
=============================================================================
