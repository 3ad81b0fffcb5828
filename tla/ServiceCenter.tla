--------------------------- MODULE ServiceCenter ----------------------------
(***************************************************************************)
(* srv_center.lua: the registry that starts services and hands out one of  *)
(* those registered under a name.  The lists of different names do not     *)
(* touch each other, so one name is modelled.  srv_center has no queue:    *)
(* start_service suspends in newservice or uniqueservice, and other starts *)
(* and lookups run meanwhile.                                              *)
(***************************************************************************)
EXTENDS Naturals, Sequences, FiniteSets

CONSTANTS
    Handles,    \* the handles that newservice may return
    Callers,    \* coroutines of srv_center that serve a start_*_service
    NoHandle,   \* nil
    MaxListed,  \* bound: a full list is not added to by one more caller
    Window      \* bound: lookups remembered in `recent'

ASSUME CenterAssumption == NoHandle \notin Handles /\ MaxListed \in Nat /\ Window \in Nat

NewTypes == {"skynet", "snax"}
UniqueTypes == {"skynetunique", "snaxunique"}

VARIABLES
    one_services,   \* all_service[name]: handles in list order
    unique,         \* handle of the node's only service of that name, per unique type
    starting,       \* per caller: the handle that its suspended start will return
    last,           \* the handle returned by the last lookup
    recent          \* history: handles returned since the last registration

vars == <<one_services, unique, starting, last, recent>>

Init ==
    /\ one_services = <<>>
    /\ unique = [t \in UniqueTypes |-> NoHandle]
    /\ starting = [c \in Callers |-> NoHandle]
    /\ last = NoHandle
    /\ recent = <<>>

Registered == {one_services[i] : i \in 1 .. Len(one_services)}

\* No service has the handle yet.
Unused(h) == h \notin Registered /\ \A c \in Callers : starting[c] # h

\* start_service up to its suspension: newservice starts a service of its own ...
newservice(c, h) ==
    /\ Unused(h)
    /\ starting' = [starting EXCEPT ![c] = h]
    /\ UNCHANGED unique

\* ... uniqueservice only where none was started, and returns that one for ever after.
uniqueservice(c, type, h) ==
    /\ IF unique[type] = NoHandle THEN Unused(h) ELSE h = unique[type]
    /\ unique' = [unique EXCEPT ![type] = h]
    /\ starting' = [starting EXCEPT ![c] = h]

start_service(c, type, h) ==
    /\ starting[c] = NoHandle /\ Len(one_services) < MaxListed
    /\ \/ type \in NewTypes /\ newservice(c, h)
       \/ type \in UniqueTypes /\ uniqueservice(c, type, h)
    /\ UNCHANGED <<one_services, last, recent>>

\* start_service after it: the handle is appended to the list, listed already or not.
start_service_done(c) ==
    /\ starting[c] # NoHandle
    /\ starting' = [starting EXCEPT ![c] = NoHandle]
    /\ one_services' = Append(one_services, starting[c])
    /\ recent' = <<>>
    /\ UNCHANGED <<unique, last>>

\* Mutant: only the first two of the list change places.
RotateShort(s) == <<s[2], s[1]>> \o SubSeq(s, 3, Len(s))

\* table.insert(one_services, 1, two) and table.remove(one_services)
Rotate(s) == <<s[Len(s)]>> \o SubSeq(s, 1, Len(s) - 1)

\* getOneServer: the first of the list; the last is moved to the front.
getOneServer ==
    /\ last' = IF one_services = <<>> THEN NoHandle ELSE one_services[1]
    /\ one_services' = IF Len(one_services) > 1 THEN Rotate(one_services) ELSE one_services
    /\ recent' = IF one_services = <<>> THEN recent
                 ELSE LET r == Append(recent, one_services[1])
                      IN  IF Len(r) > Window THEN Tail(r) ELSE r
    /\ UNCHANGED <<unique, starting>>

Next ==
    \/ \E c \in Callers, type \in NewTypes \cup UniqueTypes, h \in Handles :
          start_service(c, type, h)
    \/ \E c \in Callers : start_service_done(c)
    \/ getOneServer

Spec == Init /\ [][Next]_vars

-----------------------------------------------------------------------------
TypeOK ==
    /\ one_services \in Seq(Handles)
    /\ unique \in [UniqueTypes -> Handles \cup {NoHandle}]
    /\ starting \in [Callers -> Handles \cup {NoHandle}]
    /\ last \in Handles \cup {NoHandle}
    /\ recent \in Seq(Handles)

\* At how many of the places h is in s.
Times(h, s, places) == Cardinality({k \in places : s[k] = h})

\* Between two registrations the listed services take turns: of any as many lookups as
\* the list is long, each service answers as often as it is listed (once, or once for
\* every registration of a unique service).
TakesTurns ==
    \A i \in 1 .. Len(recent), h \in Handles :
        LET n == Len(one_services)
        IN  i + n <= Len(recent) + 1 =>
                Times(h, recent, i .. i + n - 1) = Times(h, one_services, 1 .. n)

\* The list, read from its first element and then from its end, is the ring of module
\* ServiceRing: lookups rotate it and a registration adds the next but one.
InTurn ==
    [i \in 1 .. Len(one_services) |->
        IF i = 1 THEN one_services[1] ELSE one_services[Len(one_services) + 2 - i]]

Ring == INSTANCE ServiceRing WITH ring <- InTurn
ImplementsRing == Ring!Spec
=============================================================================
