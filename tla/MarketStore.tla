---------------------------- MODULE MarketStore ----------------------------
(***************************************************************************)
(* The market store (internal/market/snapshot.go).  Goroutines that        *)
(* refresh a source (internal/app/workers.go) call Update; quotes, menus   *)
(* and the readiness probe call Read, which takes no lock.  The store      *)
(* hands out copies: clone copies the snapshot entry by entry while others *)
(* publish, read and scribble on the copies they own.                      *)
(*                                                                         *)
(* Memory is explicit.  An entry of a snapshot refers to a cell for its    *)
(* slices and, when it is a list of P2P offers, to a cell for the offers'  *)
(* country lists, which clone does not copy.  Unreachable cells are freed. *)
(***************************************************************************)
EXTENDS Naturals, FiniteSets

CONSTANTS
    Refreshers, Readers,
    Keys,        \* entries of the snapshot
    OfferKeys,   \* those that are lists of P2P offers
    NewsOf,      \* the entries each refresher writes
    Values,      \* what a slice may hold
    MaxUpdates,  \* bound: updates begun
    Room,        \* bound: cells in use at once that one goroutine allocated for one entry
    Nil,         \* no cell
    Nobody,      \* the holder of a free mutex
    Absent, NoView

VARIABLES
    mem,     \* what each cell in use holds
    snap,    \* the published snapshot, behind the atomic pointer
    mu,      \* who holds the mutex of Update
    proc,    \* what each goroutine is doing
    begun    \* number of updates begun

vars == <<mem, snap, mu, proc, begun>>

Procs   == Refreshers \cup Readers
\* A cell's name says who allocated it and for which entry.
Cells   == Procs \X Keys \X (1..Room)
NoEntry == [data |-> Nil, countries |-> Nil]
Entries == [data : Cells \cup {Nil}, countries : Cells \cup {Nil}]
Blank   == [k \in Keys |-> NoEntry]
Resting == [pc |-> "idle", base |-> Blank, copy |-> Blank, todo |-> {}]

ASSUME StoreAssumption ==
    /\ OfferKeys \subseteq Keys
    /\ NewsOf \in [Refreshers -> SUBSET Keys]
    /\ Room \in Nat /\ MaxUpdates \in Nat
    /\ Nil \notin Cells \cup Values /\ Absent \notin Values
    /\ Nobody \notin Refreshers
    /\ Refreshers \cap Readers = {}
    /\ NoView \notin [Keys -> Values \cup {Absent}]

CellsOf(s)  == ({s[k].data : k \in Keys} \cup {s[k].countries : k \in Keys}) \ {Nil}
Present(s)  == {k \in Keys : s[k] # NoEntry}
SlicesOf(s) == {s[k].data : k \in Keys} \ {Nil}

\* What is in use, by the store or by a goroutine that copies or has copied.
Reachable ==
    CellsOf(snap) \cup UNION {CellsOf(proc[p].base) \cup CellsOf(proc[p].copy) : p \in Procs}

\* The memory after a step that leaves new in it: what is not reachable any more is freed.
Collected(new) == mem' = [c \in Reachable' |-> new[c]]

Stored(old, c, v) == [x \in DOMAIN old \cup {c} |-> IF x = c THEN v ELSE old[x]]

\* A free cell, and another one.
Free(p, k)  == {n \in 1..Room : <<p, k, n>> \notin DOMAIN mem}
First(p, k) == CHOOSE n \in Free(p, k) : \A m \in Free(p, k) : n <= m
Fresh(p, k) == <<p, k, First(p, k)>>
Other(p, k) == <<p, k, CHOOSE n \in Free(p, k) \ {First(p, k)} :
                            \A m \in Free(p, k) \ {First(p, k)} : n <= m>>

Init ==
    /\ mem = <<>>
    /\ snap = Blank
    /\ mu = Nobody
    /\ proc = [p \in Procs |-> Resting]
    /\ begun = 0

-----------------------------------------------------------------------------
(* clone: the entries are copied one after another, each into cells of its own. *)

Moves(p, pc, base, copy, todo) ==
    proc' = [proc EXCEPT ![p] = [pc |-> pc, base |-> base, copy |-> copy, todo |-> todo]]

Copied(e, c) == [data |-> c, countries |-> e.countries]

CopyEntry(p) ==
    LET me == proc[p] IN
    /\ UNCHANGED <<snap, mu, begun>>
    /\ me.pc \in {"clone", "seal"}
    /\ \E k \in me.todo :
         LET old == me.base[k]
             new == Fresh(p, k)
         IN /\ Free(p, k) # {}
            /\ Moves(p, me.pc, me.base, [me.copy EXCEPT ![k] = Copied(old, new)], me.todo \ {k})
            /\ Collected(Stored(mem, new, mem[old.data]))

-----------------------------------------------------------------------------
(* Read: load the pointer, clone, hand the copy to the caller. *)

\* Mutant: Read waits for the mutex of Update.
WaitsForMutex == mu = Nobody
ReadsFreely   == TRUE

ReadLoad(r) ==
    /\ proc[r].pc = "idle" /\ ReadsFreely
    /\ Moves(r, "clone", snap, Blank, Present(snap))
    /\ UNCHANGED <<mem, snap, mu, begun>>

ReadReturn(r) ==
    /\ UNCHANGED <<snap, mu, begun>>
    /\ proc[r].pc = "clone" /\ proc[r].todo = {}
    /\ Moves(r, "have", Blank, proc[r].copy, {})
    /\ Collected(mem)

Drop(r) ==
    /\ UNCHANGED <<snap, mu, begun>>
    /\ proc[r].pc = "have"
    /\ Moves(r, "idle", Blank, Blank, {})
    /\ Collected(mem)

-----------------------------------------------------------------------------
(* Update: under the mutex, clone, let the caller change the clone, clone  *)
(* that, publish the second clone.                                         *)

\* Mutant: Update without the mutex.
LocksNothing == TRUE
MutexIsFree  == mu = Nobody

Lock(w) ==
    /\ UNCHANGED snap
    /\ proc[w].pc = "idle" /\ MutexIsFree
    /\ begun < MaxUpdates /\ begun' = begun + 1
    /\ mu' = w
    /\ Moves(w, "clone", snap, Blank, Present(snap))
    /\ Collected(mem)

ToApply(w) ==
    /\ UNCHANGED <<snap, mu, begun>>
    /\ proc[w].pc = "clone" /\ proc[w].todo = {}
    /\ Moves(w, "apply", Blank, proc[w].copy, NewsOf[w])
    /\ Collected(mem)

\* The caller's function puts what it fetched in its entries, or deletes them.
Apply(w) ==
    LET me == proc[w]
        Put(k, e) == Moves(w, "apply", Blank, [me.copy EXCEPT ![k] = e], me.todo \ {k})
    IN
    /\ UNCHANGED <<snap, mu, begun>>
    /\ me.pc = "apply"
    /\ \E k \in me.todo, v \in Values :
         LET c == Fresh(w, k)
             d == Other(w, k)
         IN
         \/ Put(k, NoEntry) /\ Collected(mem)
         \/ /\ k \notin OfferKeys /\ Free(w, k) # {}
            /\ Put(k, [data |-> c, countries |-> Nil])
            /\ Collected(Stored(mem, c, v))
         \/ /\ k \in OfferKeys /\ Cardinality(Free(w, k)) > 1
            /\ Put(k, [data |-> c, countries |-> d])
            /\ Collected(Stored(Stored(mem, c, v), d, v))

\* Mutant: the caller's own snapshot is published.
PublishesNext(w) == proc[w].base
Sealed(w) == proc[w].copy

ToSeal(w) ==
    /\ proc[w].pc = "apply" /\ proc[w].todo = {}
    /\ Moves(w, "seal", proc[w].copy, Blank, Present(proc[w].copy))
    /\ UNCHANGED <<mem, snap, mu, begun>>

\* The pointer is stored; the caller may keep the snapshot its function was given.
Store(w) ==
    /\ UNCHANGED <<mu, begun>>
    /\ proc[w].pc = "seal" /\ proc[w].todo = {}
    /\ snap' = Sealed(w)
    /\ Moves(w, "unlock", proc[w].base, Blank, {})
    /\ Collected(mem)

Unlock(w) ==
    /\ proc[w].pc = "unlock"
    /\ mu' = Nobody
    /\ Moves(w, "idle", proc[w].base, Blank, {})
    /\ UNCHANGED <<mem, snap, begun>>

-----------------------------------------------------------------------------
\* What a caller owns: the copy Read returned, the snapshot Update lent it.
Owned(p) == IF proc[p].pc = "have" THEN proc[p].copy
            ELSE IF p \in Refreshers /\ proc[p].pc \in {"unlock", "idle"} THEN proc[p].base
            ELSE Blank

\* A caller writes into the slices of its copy.
Scribble(p) ==
    /\ \E c \in SlicesOf(Owned(p)), v \in Values : mem' = [mem EXCEPT ![c] = v]
    /\ UNCHANGED <<snap, mu, proc, begun>>

Read(r)   == ReadLoad(r) \/ CopyEntry(r) \/ ReadReturn(r)
Update(w) == Lock(w) \/ CopyEntry(w) \/ ToApply(w) \/ Apply(w) \/ ToSeal(w) \/ Store(w) \/ Unlock(w)

Next ==
    \/ \E r \in Readers : Read(r) \/ Drop(r)
    \/ \E w \in Refreshers : Update(w)
    \/ \E p \in Procs : Scribble(p)

Spec == Init /\ [][Next]_vars

\* A reader that runs keeps running.  Nothing is asked of the refreshers: they may stop
\* anywhere, also with the mutex in their hands.
ReadersRun == \A r \in Readers : WF_vars(Read(r))
FairSpec   == Spec /\ ReadersRun

-----------------------------------------------------------------------------
(* Properties *)

Snapshots == [Keys -> Entries]

\* The shape of the memory, the snapshots and the goroutines; what is in use has content,
\* nothing else has, and one refresher at a time is between Lock and Unlock.
TypeOK ==
    /\ mem \in [Reachable -> Values]
    /\ snap \in Snapshots
    /\ mu \in Refreshers \cup {Nobody}
    /\ begun \in Nat
    /\ proc \in [Procs -> [pc : {"idle", "clone", "have", "apply", "seal", "unlock"},
                           base : Snapshots, copy : Snapshots, todo : SUBSET Keys]]
    /\ \A w \in Refreshers : proc[w].pc # "idle" <=> mu = w

\* No slice of the published snapshot is in the hands of a caller, and no two callers share
\* one: whatever they do to their copies, the market and the other copies stay as they are.
SlicesOwned ==
    \A p \in Procs :
        /\ SlicesOf(Owned(p)) \cap SlicesOf(snap) = {}
        /\ \A q \in Procs \ {p} : SlicesOf(Owned(p)) \cap SlicesOf(Owned(q)) = {}

\* Comment at Store: both writers and readers get owned copies.
CopiesOwned == \A p \in Procs : CellsOf(Owned(p)) \cap CellsOf(snap) = {}

\* Who wants to read gets its copy whatever the refreshers do, even if one of them never
\* returns the mutex.
ReadsEnd == \A r \in Readers : proc[r].pc # "have" ~> proc[r].pc = "have"

Content(e) == IF e.data = Nil THEN Absent ELSE mem[e.data]

\* The market is what the published snapshot says.  A reader sees it from the moment it
\* loads the pointer, whatever part of it is copied.
Promised == INSTANCE AtomicMarket WITH
    market <- [k \in Keys |-> Content(snap[k])],
    view <- [r \in Readers |->
               IF proc[r].pc = "idle" THEN NoView
               ELSE [k \in Keys |-> Content(IF k \in proc[r].todo THEN proc[r].base[k]
                                            ELSE proc[r].copy[k])]]

\* Updates and reads are atomic: no update is lost, no reader sees half of one, and no
\* caller's writing shows up in the market or in another's copy.
Atomic == Promised!Spec
=============================================================================
