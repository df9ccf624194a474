--------------------------- MODULE AtomicMarket ---------------------------
(***************************************************************************)
(* What the market store promises: one current market, which every refresh *)
(* changes in one step and only where it has news, and which every reader  *)
(* sees as it was at one moment.  A reader may do as it likes with what it *)
(* got; nobody else ever sees that.                                        *)
(***************************************************************************)
CONSTANTS
    Refreshers, Readers,
    Keys,      \* entries of the snapshot: books, offers, fees, exchange rates
    NewsOf,    \* the entries each refresher writes
    Values,    \* what an entry may say
    Absent,    \* the value of an entry that is not there
    NoView     \* the view of a reader that has none

VARIABLES
    market,    \* the current market
    view       \* what each reader holds

vars == <<market, view>>

Markets == [Keys -> Values \cup {Absent}]

Init == market = [k \in Keys |-> Absent] /\ view = [r \in Readers |-> NoView]

Publish(w) ==
    /\ \E news \in Markets :
         market' = [k \in Keys |-> IF k \in NewsOf[w] THEN news[k] ELSE market[k]]
    /\ UNCHANGED view

Observe(r) ==
    /\ view[r] = NoView
    /\ view' = [view EXCEPT ![r] = market]
    /\ UNCHANGED market

\* The reader alters its own copy.
Alter(r) ==
    /\ view[r] # NoView
    /\ \E k \in Keys, v \in Values : view' = [view EXCEPT ![r] = [@ EXCEPT ![k] = v]]
    /\ UNCHANGED market

Forget(r) ==
    /\ view[r] # NoView
    /\ view' = [view EXCEPT ![r] = NoView]
    /\ UNCHANGED market

Next ==
    \/ \E w \in Refreshers : Publish(w)
    \/ \E r \in Readers : Observe(r) \/ Alter(r) \/ Forget(r)

Spec == Init /\ [][Next]_vars
=============================================================================
