-------------------------- MODULE MarketStoreProofs --------------------------
(***************************************************************************)
(* Proofs about MarketStore, for any goroutines, entries and values, and   *)
(* any number of updates: no slice is shared, and the store implements     *)
(* AtomicMarket.                                                           *)
(*                                                                         *)
(* Apart says which snapshots have no data cell in common.  A cell that is *)
(* in use keeps its content in every step but Scribble, and Scribble       *)
(* writes to a cell that only its caller has; so the copies made of a      *)
(* market, under way or finished, go on saying what it said.               *)
(***************************************************************************)
EXTENDS MarketStore, FiniteSetTheorems, WellFoundedInduction, TLAPS

ProcType == [pc : {"idle", "clone", "have", "apply", "seal", "unlock"},
             base : Snapshots, copy : Snapshots, todo : SUBSET Keys]

\* The type invariant with its records folded, and the same after a step.
Shapes ==
    /\ mem \in [Reachable -> Values]
    /\ snap \in Snapshots /\ mu \in Refreshers \cup {Nobody} /\ begun \in Nat
    /\ proc \in [Procs -> ProcType]
    /\ \A w \in Refreshers : proc[w].pc # "idle" <=> mu = w

LEMMA Folded == TypeOK <=> Shapes
    BY DEF TypeOK, Shapes, ProcType

LEMMA FoldedNext == TypeOK' <=> Shapes'
    BY DEF TypeOK, Shapes, ProcType

-----------------------------------------------------------------------------
(* Cells. *)

LEMMA Blanks ==
    /\ NoEntry \in Entries /\ Blank \in Snapshots /\ Resting \in ProcType
    /\ \A k \in Keys : Blank[k] = NoEntry /\ Blank[k].data = Nil /\ Blank[k].countries = Nil
    /\ NoEntry.data = Nil
    /\ CellsOf(Blank) = {}
    BY DEF NoEntry, Entries, Blank, Snapshots, Resting, ProcType, CellsOf

\* What a snapshot refers to.
LEMMA Refers ==
    ASSUME NEW s \in Snapshots, NEW k \in Keys
    PROVE  /\ s[k] \in Entries
           /\ s[k].data = Nil \/ s[k].data \in CellsOf(s)
           /\ s[k].countries = Nil \/ s[k].countries \in CellsOf(s)
           /\ s[k].data = Nil \/ s[k].data \in SlicesOf(s)
    BY DEF Snapshots, Entries, CellsOf, SlicesOf

LEMMA ReachableParts ==
    /\ CellsOf(snap) \subseteq Reachable
    /\ \A p \in Procs : CellsOf(proc[p].base) \subseteq Reachable /\ CellsOf(proc[p].copy) \subseteq Reachable
    /\ \A N : /\ CellsOf(snap) \subseteq N
              /\ \A p \in Procs : CellsOf(proc[p].base) \subseteq N /\ CellsOf(proc[p].copy) \subseteq N
              => Reachable \subseteq N
    BY DEF Reachable

LEMMA ReachablePartsNext ==
    /\ CellsOf(snap') \subseteq Reachable'
    /\ \A p \in Procs : CellsOf(proc'[p].base) \subseteq Reachable' /\ CellsOf(proc'[p].copy) \subseteq Reachable'
    /\ \A N : /\ CellsOf(snap') \subseteq N
              /\ \A p \in Procs : CellsOf(proc'[p].base) \subseteq N /\ CellsOf(proc'[p].copy) \subseteq N
              => Reachable' \subseteq N
    BY DEF Reachable, CellsOf

\* An entry in its place in a snapshot.
LEMMA CellsOfExcept ==
    ASSUME NEW s \in Snapshots, NEW k \in Keys, NEW e \in Entries
    PROVE  /\ [s EXCEPT ![k] = e] \in Snapshots
           /\ CellsOf([s EXCEPT ![k] = e]) \subseteq CellsOf(s) \cup ({e.data, e.countries} \ {Nil})
    BY DEF Snapshots, CellsOf

\* Of a set of numbers that is not empty there is a least.
LEMMA Least ==
    ASSUME NEW T, T \subseteq Nat, T # {}
    PROVE  \E n \in T : \A m \in T : n <= m
<1>1. \E n \in T : \A m \in T : ~(<<m, n>> \in OpToRel(<, Nat))
    BY NatLessThanWellFounded, WFMin
<1>2. PICK n \in T : \A m \in T : ~(m < n)
    BY <1>1 DEF OpToRel
<1>3. \A m \in T : n <= m
    BY <1>2
<1> QED BY <1>3

\* The cells that are allocated are free, of this goroutine and for this entry.
LEMMA FreshCell ==
    ASSUME NEW p \in Procs, NEW k \in Keys, Free(p, k) # {}
    PROVE  Fresh(p, k) \in Cells /\ Fresh(p, k) \notin DOMAIN mem /\ Fresh(p, k)[2] = k
<1>1. Free(p, k) \subseteq Nat /\ Free(p, k) \subseteq 1..Room
    BY DEF Free
<1>2. First(p, k) \in Free(p, k)
    BY <1>1, Least DEF First
<1> QED BY <1>1, <1>2 DEF Fresh, Free, Cells

LEMMA OtherCell ==
    ASSUME NEW p \in Procs, NEW k \in Keys, Cardinality(Free(p, k)) > 1
    PROVE  /\ Free(p, k) # {}
           /\ Other(p, k) \in Cells /\ Other(p, k) \notin DOMAIN mem /\ Other(p, k) # Fresh(p, k)
<1>1. Free(p, k) \subseteq Nat /\ Free(p, k) \subseteq 1..Room
    BY DEF Free
<1>2. IsFiniteSet(Free(p, k))
    <2>1. IsFiniteSet(1..Room)
        BY StoreAssumption, FS_Interval
    <2> QED BY <1>1, <2>1, FS_Subset
<1>3. Free(p, k) # {}
    BY FS_EmptySet
<1>4. First(p, k) \in Free(p, k)
    BY <1>1, <1>3, Least DEF First
<1>5. Free(p, k) \ {First(p, k)} # {}
    <2>1. Cardinality({First(p, k)}) = 1
        BY FS_Singleton
    <2>2. Cardinality(Free(p, k)) # 1
        OBVIOUS
    <2>3. Free(p, k) # {First(p, k)}
        BY <2>1, <2>2, Zenon
    <2> QED BY <1>4, <2>3
<1> DEFINE rest == Free(p, k) \ {First(p, k)}
           n    == CHOOSE n \in rest : \A m \in rest : n <= m
<1>6. n \in rest
    <2>1. rest \subseteq Nat /\ rest # {}
        BY <1>1, <1>5
    <2> HIDE DEF rest
    <2> QED BY <2>1, Least
<1>7. Other(p, k) = <<p, k, n>>
    BY DEF Other
<1> HIDE DEF n
<1> QED BY <1>1, <1>3, <1>6, <1>7 DEF Fresh, Free, Cells

-----------------------------------------------------------------------------
(* Memory. *)

\* What was in use and still is has the content that it had.
Kept == \A c \in Reachable \cap Reachable' : mem'[c] = mem[c]

\* After a step that puts nothing new in.
LEMMA MemoryShrinks ==
    ASSUME mem \in [Reachable -> Values], Collected(mem), Reachable' \subseteq Reachable
    PROVE  mem' \in [Reachable' -> Values] /\ Kept
    BY DEF Collected, Kept

\* After one that stores v in a cell that was free.
LEMMA MemoryGrows ==
    ASSUME mem \in [Reachable -> Values], NEW c, c \notin DOMAIN mem, NEW v \in Values,
           Collected(Stored(mem, c, v)), Reachable' \subseteq Reachable \cup {c}
    PROVE  mem' \in [Reachable' -> Values] /\ Kept /\ (c \in Reachable' => mem'[c] = v)
    BY DEF Collected, Stored, Kept

\* After one that stores it in two.
LEMMA MemoryGrowsTwice ==
    ASSUME mem \in [Reachable -> Values], NEW c, c \notin DOMAIN mem, NEW d, d \notin DOMAIN mem,
           NEW v \in Values,
           Collected(Stored(Stored(mem, c, v), d, v)), Reachable' \subseteq Reachable \cup {c, d}
    PROVE  mem' \in [Reachable' -> Values] /\ Kept
    BY DEF Collected, Stored, Kept

\* After one that leaves the memory and what is in use.
LEMMA MemoryStays ==
    ASSUME mem \in [Reachable -> Values], mem' = mem, Reachable' = Reachable
    PROVE  mem' \in [Reachable' -> Values] /\ Kept
    BY DEF Kept
-----------------------------------------------------------------------------
(* Shapes and stages. *)

\* An entry that is there has a slice, in a cell allocated for it.
Named(s) == \A k \in Keys : s[k] = NoEntry \/ (s[k].data # Nil /\ s[k].data[2] = k)

\* What a goroutine has in its hands at each stage.
Stage(me) ==
    /\ me.pc \in {"idle", "unlock"} => me.copy = Blank /\ me.todo = {}
    /\ me.pc \in {"apply", "have"} => me.base = Blank
    /\ me.pc = "have" => me.todo = {}
    /\ me.pc \in {"clone", "seal"} => \A k \in me.todo : me.base[k] # NoEntry
    /\ Named(me.base) /\ Named(me.copy)

Reads(me) == me.pc \in {"idle", "clone", "have"} /\ (me.pc = "idle" => me.base = Blank)

Stages ==
    /\ Named(snap)
    /\ \A p \in Procs : Stage(proc[p])
    /\ \A r \in Readers : Reads(proc[r])
    /\ \A w \in Refreshers : proc[w].pc # "have"

LEMMA BlankNamed == Named(Blank)
    BY Blanks DEF Named

LEMMA NamedExcept ==
    ASSUME NEW s \in Snapshots, Named(s), NEW k \in Keys, NEW e \in Entries,
           e = NoEntry \/ (e.data # Nil /\ e.data[2] = k)
    PROVE  Named([s EXCEPT ![k] = e])
    BY DEF Named, Snapshots

\* One goroutine moves.
LEMMA Moved ==
    ASSUME proc \in [Procs -> ProcType], NEW p \in Procs, NEW m \in ProcType,
           proc' = [proc EXCEPT ![p] = m]
    PROVE  /\ proc' \in [Procs -> ProcType]
           /\ proc'[p] = m
           /\ \A q \in Procs \ {p} : proc'[q] = proc[q]
           /\ Reachable' \subseteq Reachable \cup CellsOf(snap') \cup CellsOf(m.base) \cup CellsOf(m.copy)
<1>1. /\ proc' \in [Procs -> ProcType]
      /\ proc'[p] = m
      /\ \A q \in Procs \ {p} : proc'[q] = proc[q]
    OBVIOUS
<1> DEFINE N == Reachable \cup CellsOf(snap') \cup CellsOf(m.base) \cup CellsOf(m.copy)
<1>2. ASSUME NEW q \in Procs PROVE CellsOf(proc'[q].base) \subseteq N /\ CellsOf(proc'[q].copy) \subseteq N
    <2>1. CASE q = p
        BY <1>1, <2>1
    <2>2. CASE q # p
        <3>1. proc'[q] = proc[q]
            BY <1>1, <2>2
        <3> QED BY <3>1, ReachableParts
    <2> QED BY <2>1, <2>2
<1>3. CellsOf(snap') \subseteq N
    OBVIOUS
<1> HIDE DEF N
<1>4. Reachable' \subseteq N
    BY <1>2, <1>3, ReachablePartsNext
<1> QED BY <1>1, <1>4 DEF N

\* What such a step has to show to keep the shapes and the stages.
LEMMA StepKeeps ==
    ASSUME Shapes, Stages, NEW p \in Procs, NEW m \in ProcType, proc' = [proc EXCEPT ![p] = m],
           Stage(m), p \in Readers => Reads(m), p \in Refreshers => m.pc # "have",
           snap' \in Snapshots, Named(snap'),
           mem' \in [Reachable' -> Values],
           mu' \in Refreshers \cup {Nobody}, begun' \in Nat,
           p \in Refreshers => (m.pc # "idle" <=> mu' = p),
           \A q \in Refreshers \ {p} : mu' = q <=> mu = q
    PROVE  Shapes' /\ Stages'
<1>1. /\ proc' \in [Procs -> ProcType] /\ proc'[p] = m
      /\ \A q \in Procs \ {p} : proc'[q] = proc[q]
    BY Moved DEF Shapes
<1>2. Refreshers \subseteq Procs /\ Readers \subseteq Procs
    BY DEF Procs
<1>3. \A w \in Refreshers : proc'[w].pc # "idle" <=> mu' = w
    <2> SUFFICES ASSUME NEW w \in Refreshers PROVE proc'[w].pc # "idle" <=> mu' = w
        OBVIOUS
    <2>1. CASE w = p
        BY <1>1, <2>1
    <2>2. CASE w # p
        BY <1>1, <1>2, <2>2 DEF Shapes
    <2> QED BY <2>1, <2>2
<1>4. Shapes'
    BY <1>1, <1>3 DEF Shapes
<1>5. \A q \in Procs : Stage(proc'[q])
    <2> SUFFICES ASSUME NEW q \in Procs PROVE Stage(proc'[q])
        OBVIOUS
    <2>1. CASE q = p
        BY <1>1, <2>1
    <2>2. CASE q # p
        <3>1. proc'[q] = proc[q]
            BY <1>1, <2>2
        <3> QED BY <3>1 DEF Stages
    <2> QED BY <2>1, <2>2
<1>6. \A r \in Readers : Reads(proc'[r])
    <2> SUFFICES ASSUME NEW r \in Readers PROVE Reads(proc'[r])
        OBVIOUS
    <2>1. CASE r = p
        BY <1>1, <2>1
    <2>2. CASE r # p
        <3>1. proc'[r] = proc[r]
            BY <1>1, <1>2, <2>2
        <3> QED BY <3>1 DEF Stages
    <2> QED BY <2>1, <2>2
<1>7. \A w \in Refreshers : proc'[w].pc # "have"
    BY <1>1, <1>2 DEF Stages
<1> QED BY <1>4, <1>5, <1>6, <1>7 DEF Stages, Stage, Reads, Named

\* What a step that moves a goroutine, and writes into no slice in use, guarantees.
Kind == Shapes' /\ Stages' /\ Kept

\* A goroutine that moves on with parts of what it had, or of the snapshot, uses no new cell.
LEMMA NothingNew ==
    ASSUME Shapes, NEW p \in Procs, NEW m \in ProcType, proc' = [proc EXCEPT ![p] = m],
           snap' = snap \/ snap' = proc[p].copy,
           m.base \in {Blank, snap, proc[p].base, proc[p].copy},
           m.copy \in {Blank, proc[p].copy}
    PROVE  Reachable' \subseteq Reachable
<1>1. CellsOf(m.base) \subseteq Reachable
    BY Blanks, ReachableParts
<1>2. CellsOf(m.copy) \subseteq Reachable
    BY Blanks, ReachableParts
<1>3. CellsOf(snap') \subseteq Reachable
    BY ReachableParts
<1> QED BY <1>1, <1>2, <1>3, Moved DEF Shapes

\* What is in use stays in use when a goroutine lets go of a blank and what it had it keeps.
LEMMA NothingLost ==
    ASSUME Shapes, NEW p \in Procs, NEW m \in ProcType, proc' = [proc EXCEPT ![p] = m],
           snap' = snap,
           proc[p].base \in {Blank, m.base, m.copy}, proc[p].copy \in {Blank, m.base, m.copy}
    PROVE  Reachable \subseteq Reachable'
<1>1. proc'[p] = m /\ \A q \in Procs \ {p} : proc'[q] = proc[q]
    BY Moved DEF Shapes
<1>2. CellsOf(m.base) \subseteq Reachable' /\ CellsOf(m.copy) \subseteq Reachable' /\ CellsOf(snap) \subseteq Reachable'
    BY <1>1, ReachablePartsNext
<1>3. ASSUME NEW q \in Procs
      PROVE  CellsOf(proc[q].base) \subseteq Reachable' /\ CellsOf(proc[q].copy) \subseteq Reachable'
    <2>1. CASE q = p
        BY <1>2, <2>1, Blanks
    <2>2. CASE q # p
        <3>1. proc'[q] = proc[q]
            BY <1>1, <2>2
        <3> QED BY <3>1, ReachablePartsNext
    <2> QED BY <2>1, <2>2
<1> QED BY <1>2, <1>3, ReachableParts

LEMMA PresentThere ==
    ASSUME NEW s PROVE Present(s) \subseteq Keys /\ \A k \in Present(s) : s[k] # NoEntry
    BY DEF Present

\* What a goroutine has before it moves.
LEMMA Had ==
    ASSUME Shapes, Stages, NEW p \in Procs
    PROVE  /\ proc[p] \in ProcType /\ proc[p].base \in Snapshots /\ proc[p].copy \in Snapshots
           /\ proc[p].todo \in SUBSET Keys
           /\ Stage(proc[p]) /\ Named(proc[p].base) /\ Named(proc[p].copy)
           /\ Named(snap) /\ snap \in Snapshots /\ mem \in [Reachable -> Values]
<1>1. proc[p] \in ProcType /\ Stage(proc[p])
    BY DEF Shapes, Stages
<1> QED BY <1>1 DEF Shapes, Stages, Stage, ProcType

LEMMA ReadLoadKind ==
    ASSUME Shapes, Stages, NEW r \in Readers, ReadLoad(r)
    PROVE  Kind
<1> DEFINE m == [pc |-> "clone", base |-> snap, copy |-> Blank, todo |-> Present(snap)]
<1>1. r \in Procs /\ r \notin Refreshers
    BY StoreAssumption DEF Procs
<1>2. proc' = [proc EXCEPT ![r] = m] /\ mem' = mem /\ snap' = snap /\ mu' = mu /\ begun' = begun
    BY DEF ReadLoad, Moves
<1>3. m \in ProcType
    BY <1>1, Had, Blanks, PresentThere DEF ProcType
<1>4. Stage(m) /\ Reads(m)
    BY <1>1, Had, BlankNamed, PresentThere DEF Stage, Reads
<1>5. proc[r].base = Blank /\ proc[r].copy = Blank
    BY <1>1 DEF ReadLoad, Stages, Stage, Reads
<1>7. m.base = snap /\ m.copy = Blank
    OBVIOUS
<1> HIDE DEF m
<1>6. Reachable' = Reachable
    BY <1>1, <1>2, <1>3, <1>5, <1>7, NothingNew, NothingLost
<1>8. mem' \in [Reachable' -> Values] /\ Kept
    BY <1>1, <1>2, <1>6, Had, MemoryStays
<1>9. Shapes' /\ Stages'
    BY <1>1, <1>2, <1>3, <1>4, <1>8, StepKeeps DEF Shapes, Stages
<1> QED BY <1>8, <1>9 DEF Kind

LEMMA ReadReturnKind ==
    ASSUME Shapes, Stages, NEW r \in Readers, ReadReturn(r)
    PROVE  Kind
<1> DEFINE m == [pc |-> "have", base |-> Blank, copy |-> proc[r].copy, todo |-> {}]
<1>1. r \in Procs /\ r \notin Refreshers
    BY StoreAssumption DEF Procs
<1>2. proc' = [proc EXCEPT ![r] = m] /\ Collected(mem) /\ snap' = snap /\ mu' = mu /\ begun' = begun
    BY DEF ReadReturn, Moves
<1>3. m \in ProcType
    BY <1>1, Had, Blanks DEF ProcType
<1>4. Stage(m) /\ Reads(m)
    BY <1>1, Had, BlankNamed DEF Stage, Reads
<1>5. m.base = Blank /\ m.copy = proc[r].copy
    OBVIOUS
<1> HIDE DEF m
<1>6. Reachable' \subseteq Reachable
    BY <1>1, <1>2, <1>3, <1>5, NothingNew
<1>7. mem' \in [Reachable' -> Values] /\ Kept
    BY <1>1, <1>2, <1>6, Had, MemoryShrinks
<1>8. Shapes' /\ Stages'
    BY <1>1, <1>2, <1>3, <1>4, <1>7, StepKeeps DEF Shapes, Stages
<1> QED BY <1>7, <1>8 DEF Kind

LEMMA DropKind ==
    ASSUME Shapes, Stages, NEW r \in Readers, Drop(r)
    PROVE  Kind
<1> DEFINE m == [pc |-> "idle", base |-> Blank, copy |-> Blank, todo |-> {}]
<1>1. r \in Procs /\ r \notin Refreshers
    BY StoreAssumption DEF Procs
<1>2. proc' = [proc EXCEPT ![r] = m] /\ Collected(mem) /\ snap' = snap /\ mu' = mu /\ begun' = begun
    BY DEF Drop, Moves
<1>3. m \in ProcType
    BY Blanks DEF ProcType
<1>4. Stage(m) /\ Reads(m)
    BY BlankNamed DEF Stage, Reads
<1>5. m.base = Blank /\ m.copy = Blank
    OBVIOUS
<1> HIDE DEF m
<1>6. Reachable' \subseteq Reachable
    BY <1>1, <1>2, <1>3, <1>5, NothingNew
<1>7. mem' \in [Reachable' -> Values] /\ Kept
    BY <1>1, <1>2, <1>6, Had, MemoryShrinks
<1>8. Shapes' /\ Stages'
    BY <1>1, <1>2, <1>3, <1>4, <1>7, StepKeeps DEF Shapes, Stages
<1> QED BY <1>7, <1>8 DEF Kind

LEMMA LockKind ==
    ASSUME Shapes, Stages, NEW w \in Refreshers, Lock(w)
    PROVE  Kind
<1> DEFINE m == [pc |-> "clone", base |-> snap, copy |-> Blank, todo |-> Present(snap)]
<1>1. w \in Procs /\ w \notin Readers
    BY StoreAssumption DEF Procs
<1>2. /\ proc' = [proc EXCEPT ![w] = m] /\ Collected(mem) /\ snap' = snap
      /\ mu = Nobody /\ mu' = w /\ begun' = begun + 1
    BY DEF Lock, Moves, MutexIsFree
<1>3. m \in ProcType
    BY <1>1, Had, Blanks, PresentThere DEF ProcType
<1>4. Stage(m) /\ m.pc = "clone"
    BY <1>1, Had, BlankNamed, PresentThere DEF Stage
<1>5. m.base = snap /\ m.copy = Blank
    OBVIOUS
<1> HIDE DEF m
<1>6. Reachable' \subseteq Reachable
    BY <1>1, <1>2, <1>3, <1>5, NothingNew
<1>7. mem' \in [Reachable' -> Values] /\ Kept
    BY <1>1, <1>2, <1>6, Had, MemoryShrinks
<1>8. mu' \in Refreshers \cup {Nobody} /\ begun' \in Nat /\ snap' \in Snapshots /\ Named(snap')
    BY <1>2 DEF Shapes, Stages
<1>9. \A q \in Refreshers \ {w} : mu' = q <=> mu = q
    BY <1>2, StoreAssumption
<1>10. Shapes' /\ Stages'
    BY <1>1, <1>2, <1>3, <1>4, <1>7, <1>8, <1>9, StepKeeps
<1> QED BY <1>7, <1>10 DEF Kind

\* A refresher between Lock and Unlock holds the mutex, and goes on holding it.
LEMMA Holder ==
    ASSUME Shapes, NEW w \in Refreshers, proc[w].pc # "idle", mu' = mu, begun' = begun
    PROVE  /\ w \in Procs /\ w \notin Readers /\ mu' = w
           /\ mu' \in Refreshers \cup {Nobody} /\ begun' \in Nat
           /\ \A q \in Refreshers \ {w} : mu' = q <=> mu = q
    BY StoreAssumption DEF Shapes, Procs

LEMMA ToApplyKind ==
    ASSUME Shapes, Stages, NEW w \in Refreshers, ToApply(w)
    PROVE  Kind
<1> DEFINE m == [pc |-> "apply", base |-> Blank, copy |-> proc[w].copy, todo |-> NewsOf[w]]
<1>1. /\ proc' = [proc EXCEPT ![w] = m] /\ Collected(mem) /\ snap' = snap /\ mu' = mu /\ begun' = begun
      /\ proc[w].pc # "idle"
    BY DEF ToApply, Moves
<1>2. /\ w \in Procs /\ w \notin Readers /\ mu' = w /\ mu' \in Refreshers \cup {Nobody} /\ begun' \in Nat
      /\ \A q \in Refreshers \ {w} : mu' = q <=> mu = q
    BY <1>1, Holder
<1>3. m \in ProcType
    BY <1>2, Had, Blanks, StoreAssumption DEF ProcType
<1>4. Stage(m) /\ m.pc = "apply"
    BY <1>2, Had, BlankNamed DEF Stage
<1>5. m.base = Blank /\ m.copy = proc[w].copy
    OBVIOUS
<1> HIDE DEF m
<1>6. Reachable' \subseteq Reachable
    BY <1>1, <1>2, <1>3, <1>5, NothingNew
<1>7. mem' \in [Reachable' -> Values] /\ Kept
    BY <1>1, <1>2, <1>6, Had, MemoryShrinks
<1>8. snap' \in Snapshots /\ Named(snap')
    BY <1>1 DEF Shapes, Stages
<1>9. Shapes' /\ Stages'
    BY <1>1, <1>2, <1>3, <1>4, <1>7, <1>8, StepKeeps
<1> QED BY <1>7, <1>9 DEF Kind

LEMMA StoreKind ==
    ASSUME Shapes, Stages, NEW w \in Refreshers, Store(w)
    PROVE  Kind
<1> DEFINE m == [pc |-> "unlock", base |-> proc[w].base, copy |-> Blank, todo |-> {}]
<1>1. /\ proc' = [proc EXCEPT ![w] = m] /\ Collected(mem) /\ snap' = proc[w].copy
      /\ mu' = mu /\ begun' = begun /\ proc[w].pc # "idle"
    BY DEF Store, Moves, Sealed
<1>2. /\ w \in Procs /\ w \notin Readers /\ mu' = w /\ mu' \in Refreshers \cup {Nobody} /\ begun' \in Nat
      /\ \A q \in Refreshers \ {w} : mu' = q <=> mu = q
    BY <1>1, Holder
<1>3. m \in ProcType
    BY <1>2, Had, Blanks DEF ProcType
<1>4. Stage(m) /\ m.pc = "unlock"
    BY <1>2, Had, BlankNamed DEF Stage
<1>5. m.base = proc[w].base /\ m.copy = Blank
    OBVIOUS
<1> HIDE DEF m
<1>6. Reachable' \subseteq Reachable
    BY <1>1, <1>2, <1>3, <1>5, NothingNew
<1>7. mem' \in [Reachable' -> Values] /\ Kept
    BY <1>1, <1>2, <1>6, Had, MemoryShrinks
<1>8. snap' \in Snapshots /\ Named(snap')
    BY <1>1, <1>2, Had
<1>9. Shapes' /\ Stages'
    BY <1>1, <1>2, <1>3, <1>4, <1>7, <1>8, StepKeeps
<1> QED BY <1>7, <1>9 DEF Kind

LEMMA ToSealKind ==
    ASSUME Shapes, Stages, NEW w \in Refreshers, ToSeal(w)
    PROVE  Kind
<1> DEFINE m == [pc |-> "seal", base |-> proc[w].copy, copy |-> Blank, todo |-> Present(proc[w].copy)]
<1>1. /\ proc' = [proc EXCEPT ![w] = m] /\ mem' = mem /\ snap' = snap /\ mu' = mu /\ begun' = begun
      /\ proc[w].pc = "apply"
    BY DEF ToSeal, Moves
<1>2. /\ w \in Procs /\ w \notin Readers /\ mu' = w /\ mu' \in Refreshers \cup {Nobody} /\ begun' \in Nat
      /\ \A q \in Refreshers \ {w} : mu' = q <=> mu = q
    BY <1>1, Holder
<1>3. m \in ProcType
    BY <1>2, Had, Blanks, PresentThere DEF ProcType
<1>4. Stage(m) /\ m.pc = "seal"
    BY <1>2, Had, BlankNamed, PresentThere DEF Stage
<1>5. m.base = proc[w].copy /\ m.copy = Blank
    OBVIOUS
<1>6. proc[w].base = Blank
    BY <1>1, <1>2, Had DEF Stage
<1> HIDE DEF m
<1>7. Reachable' = Reachable
    BY <1>1, <1>2, <1>3, <1>5, <1>6, NothingNew, NothingLost
<1>8. mem' \in [Reachable' -> Values] /\ Kept
    BY <1>1, <1>2, <1>7, Had, MemoryStays
<1>9. snap' \in Snapshots /\ Named(snap')
    BY <1>1 DEF Shapes, Stages
<1>10. Shapes' /\ Stages'
    BY <1>1, <1>2, <1>3, <1>4, <1>8, <1>9, StepKeeps
<1> QED BY <1>8, <1>10 DEF Kind

LEMMA UnlockKind ==
    ASSUME Shapes, Stages, NEW w \in Refreshers, Unlock(w)
    PROVE  Kind
<1> DEFINE m == [pc |-> "idle", base |-> proc[w].base, copy |-> Blank, todo |-> {}]
<1>1. /\ proc' = [proc EXCEPT ![w] = m] /\ mem' = mem /\ snap' = snap /\ mu' = Nobody /\ begun' = begun
      /\ proc[w].pc = "unlock"
    BY DEF Unlock, Moves
<1>2. /\ w \in Procs /\ w \notin Readers /\ w # Nobody /\ mu = w
    BY <1>1, StoreAssumption DEF Shapes, Procs
<1>3. m \in ProcType
    BY <1>2, Had, Blanks DEF ProcType
<1>4. Stage(m) /\ m.pc = "idle"
    BY <1>2, Had, BlankNamed DEF Stage
<1>5. m.base = proc[w].base /\ m.copy = Blank
    OBVIOUS
<1>6. proc[w].copy = Blank
    BY <1>1, <1>2, Had DEF Stage
<1> HIDE DEF m
<1>7. Reachable' = Reachable
    BY <1>1, <1>2, <1>3, <1>5, <1>6, NothingNew, NothingLost
<1>8. mem' \in [Reachable' -> Values] /\ Kept
    BY <1>1, <1>2, <1>7, Had, MemoryStays
<1>9. snap' \in Snapshots /\ Named(snap') /\ mu' \in Refreshers \cup {Nobody} /\ begun' \in Nat
    BY <1>1 DEF Shapes, Stages
<1>10. \A q \in Refreshers \ {w} : mu' = q <=> mu = q
    BY <1>1, <1>2, StoreAssumption
<1>11. Shapes' /\ Stages'
    BY <1>1, <1>2, <1>3, <1>4, <1>8, <1>9, <1>10, StepKeeps
<1> QED BY <1>8, <1>11 DEF Kind

\* A goroutine puts an entry in its copy: it refers to cells in use, and to new ones.
LEMMA EntryPut ==
    ASSUME Shapes, Stages, NEW p \in Procs, NEW k \in Keys, NEW e \in Entries,
           e = NoEntry \/ (e.data # Nil /\ e.data[2] = k),
           NEW m \in ProcType, proc' = [proc EXCEPT ![p] = m], snap' = snap,
           m.base \in {Blank, proc[p].base}, m.copy = [proc[p].copy EXCEPT ![k] = e]
    PROVE  Named(m.copy) /\ Reachable' \subseteq Reachable \cup ({e.data, e.countries} \ {Nil})
<1>1. proc[p].copy \in Snapshots /\ Named(proc[p].copy)
    BY Had
<1>2. Named(m.copy)
    BY <1>1, NamedExcept
<1>3. CellsOf(m.copy) \subseteq Reachable \cup ({e.data, e.countries} \ {Nil})
    BY <1>1, CellsOfExcept, ReachableParts
<1>4. CellsOf(m.base) \subseteq Reachable /\ CellsOf(snap') \subseteq Reachable
    BY Blanks, ReachableParts
<1> QED BY <1>2, <1>3, <1>4, Moved DEF Shapes

\* One entry is copied: k, into a new cell.
CopiedInto(p, k, m, c) ==
    /\ proc[p].pc \in {"clone", "seal"} /\ k \in proc[p].todo /\ c = Fresh(p, k) /\ Free(p, k) # {}
    /\ m = [pc |-> proc[p].pc, base |-> proc[p].base,
            copy |-> [proc[p].copy EXCEPT ![k] = Copied(proc[p].base[k], c)],
            todo |-> proc[p].todo \ {k}]
    /\ proc' = [proc EXCEPT ![p] = m]
    /\ Collected(Stored(mem, c, mem[proc[p].base[k].data]))
    /\ snap' = snap /\ mu' = mu /\ begun' = begun

LEMMA CopyEntryIs ==
    ASSUME NEW p \in Procs, CopyEntry(p)
    PROVE  \E k, m, c : CopiedInto(p, k, m, c)
    BY DEF CopyEntry, CopiedInto, Moves

\* What is copied, and where it goes.
LEMMA CopiedCells ==
    ASSUME Shapes, Stages, NEW p \in Procs, NEW k, NEW m, NEW c, CopiedInto(p, k, m, c)
    PROVE  /\ k \in Keys /\ c \in Cells /\ c # Nil /\ c \notin Reachable /\ c[2] = k
           /\ Copied(proc[p].base[k], c) \in Entries
           /\ proc[p].base[k].data # Nil /\ proc[p].base[k].data \in Reachable
           /\ {c, proc[p].base[k].countries} \ {Nil} \subseteq Reachable \cup {c}
           /\ mem[proc[p].base[k].data] \in Values
           /\ m \in ProcType
<1>1. k \in Keys /\ proc[p].base \in Snapshots /\ Stage(proc[p]) /\ mem \in [Reachable -> Values]
    BY Had DEF CopiedInto
<1>2. c \in Cells /\ c \notin DOMAIN mem /\ c[2] = k
    BY <1>1, FreshCell DEF CopiedInto
<1>3. c # Nil /\ c \notin Reachable
    BY <1>1, <1>2, StoreAssumption
<1>4. proc[p].base[k] \in Entries /\ proc[p].base[k].data # Nil
    BY <1>1, Refers DEF CopiedInto, Stage, Named
<1>5. proc[p].base[k].data \in Reachable
    BY <1>1, <1>4, Refers, ReachableParts
<1>6. Copied(proc[p].base[k], c) \in Entries
    BY <1>2, <1>4 DEF Copied, Entries
<1>7. {c, proc[p].base[k].countries} \ {Nil} \subseteq Reachable \cup {c}
    BY <1>1, Refers, ReachableParts
<1>8. mem[proc[p].base[k].data] \in Values
    BY <1>1, <1>5
<1>9. [proc[p].copy EXCEPT ![k] = Copied(proc[p].base[k], c)] \in Snapshots
    BY <1>1, <1>6, Had, CellsOfExcept
<1>10. m \in ProcType
    <2>1. proc[p].pc \in {"idle", "clone", "have", "apply", "seal", "unlock"} /\ proc[p].todo \in SUBSET Keys
        BY Had DEF ProcType
    <2> QED BY <1>1, <1>9, <2>1 DEF CopiedInto, ProcType
<1> QED BY <1>1, <1>2, <1>3, <1>4, <1>5, <1>6, <1>7, <1>8, <1>10

LEMMA CopyEntryKind ==
    ASSUME Shapes, Stages, NEW p \in Procs, NEW k, NEW m, NEW c, CopiedInto(p, k, m, c)
    PROVE  Kind /\ (c \in Reachable' => mem'[c] = mem[proc[p].base[k].data])
<1> DEFINE e == Copied(proc[p].base[k], c)
           v == mem[proc[p].base[k].data]
<1>1. /\ k \in Keys /\ c \notin DOMAIN mem /\ e \in Entries /\ v \in Values /\ m \in ProcType
      /\ {e.data, e.countries} \ {Nil} \subseteq Reachable \cup {c}
      /\ e.data # Nil /\ e.data[2] = k
    BY CopiedCells, Had DEF Copied
<1>2. /\ proc' = [proc EXCEPT ![p] = m] /\ Collected(Stored(mem, c, v))
      /\ snap' = snap /\ mu' = mu /\ begun' = begun
      /\ m.base = proc[p].base /\ m.copy = [proc[p].copy EXCEPT ![k] = e]
      /\ m.pc = proc[p].pc /\ m.pc \in {"clone", "seal"} /\ m.todo = proc[p].todo \ {k}
    BY DEF CopiedInto
<1> HIDE DEF e, v
<1>3. Named(m.copy) /\ Reachable' \subseteq Reachable \cup {c}
    <2>1. m.base \in {Blank, proc[p].base} /\ (e = NoEntry \/ (e.data # Nil /\ e.data[2] = k))
        BY <1>1, <1>2
    <2>2. Named(m.copy) /\ Reachable' \subseteq Reachable \cup ({e.data, e.countries} \ {Nil})
        BY <1>1, <1>2, <2>1, EntryPut
    <2> QED BY <1>1, <2>2
<1>4. mem' \in [Reachable' -> Values] /\ Kept /\ (c \in Reachable' => mem'[c] = v)
    BY <1>1, <1>2, <1>3, Had, MemoryGrows
<1>5. Stage(m)
    BY <1>2, <1>3, Had DEF Stage
<1>6. p \in Readers => Reads(m)
    BY <1>2 DEF Stages, Reads
<1>7. snap' \in Snapshots /\ Named(snap') /\ mu' \in Refreshers \cup {Nobody} /\ begun' \in Nat
    BY <1>2 DEF Shapes, Stages
<1>8. p \in Refreshers => (m.pc # "idle" <=> mu' = p)
    BY <1>2 DEF Shapes
<1>9. Shapes' /\ Stages'
    BY <1>1, <1>2, <1>4, <1>5, <1>6, <1>7, <1>8, StepKeeps
<1> QED BY <1>4, <1>9 DEF Kind, v

\* The caller of Update puts e in entry k: nothing, or cells of its own.
PutsEntry(w, k, e, m) ==
    /\ proc[w].pc = "apply" /\ k \in proc[w].todo
    /\ e \in Entries /\ (e = NoEntry \/ (e.data # Nil /\ e.data[2] = k /\ e.data \notin Reachable))
    /\ m = [pc |-> "apply", base |-> Blank, copy |-> [proc[w].copy EXCEPT ![k] = e],
            todo |-> proc[w].todo \ {k}]
    /\ proc' = [proc EXCEPT ![w] = m]
    /\ snap' = snap /\ mu' = mu /\ begun' = begun

LEMMA PutShape ==
    ASSUME Shapes, Stages, NEW w \in Procs, NEW k, NEW e, NEW m, PutsEntry(w, k, e, m)
    PROVE  /\ m \in ProcType /\ k \in Keys /\ Named(m.copy)
           /\ Reachable' \subseteq Reachable \cup ({e.data, e.countries} \ {Nil})
<1>1. /\ proc[w].todo \in SUBSET Keys /\ proc[w].copy \in Snapshots /\ k \in proc[w].todo /\ e \in Entries
      /\ m = [pc |-> "apply", base |-> Blank, copy |-> [proc[w].copy EXCEPT ![k] = e],
              todo |-> proc[w].todo \ {k}]
      /\ proc' = [proc EXCEPT ![w] = m] /\ snap' = snap
      /\ e = NoEntry \/ (e.data # Nil /\ e.data[2] = k)
    BY Had DEF PutsEntry
<1>2. [proc[w].copy EXCEPT ![k] = e] \in Snapshots
    BY <1>1, CellsOfExcept
<1>3. m \in ProcType /\ m.base = Blank /\ m.copy = [proc[w].copy EXCEPT ![k] = e]
    BY <1>1, <1>2, Blanks DEF ProcType
<1>4. m.base \in {Blank, proc[w].base} /\ k \in Keys
    BY <1>1, <1>3
<1>5. Named(m.copy) /\ Reachable' \subseteq Reachable \cup ({e.data, e.countries} \ {Nil})
    <2>1. proc' = [proc EXCEPT ![w] = m] /\ snap' = snap /\ (e = NoEntry \/ (e.data # Nil /\ e.data[2] = k)) /\ e \in Entries
        BY <1>1
    <2> QED BY <1>3, <1>4, <2>1, EntryPut
<1> QED BY <1>3, <1>4, <1>5

LEMMA ApplyPuts ==
    ASSUME Shapes, Stages, NEW w \in Refreshers, Apply(w)
    PROVE  \E k, e, m : PutsEntry(w, k, e, m) /\ mem' \in [Reachable' -> Values] /\ Kept
<1>1. w \in Procs
    BY DEF Procs
<1> DEFINE M(k, e) == [pc |-> "apply", base |-> Blank, copy |-> [proc[w].copy EXCEPT ![k] = e],
                       todo |-> proc[w].todo \ {k}]
<1>2. PICK k \in proc[w].todo, v \in Values :
         \/ Moves(w, "apply", Blank, [proc[w].copy EXCEPT ![k] = NoEntry], proc[w].todo \ {k}) /\ Collected(mem)
         \/ /\ Free(w, k) # {}
            /\ Moves(w, "apply", Blank, [proc[w].copy EXCEPT ![k] = [data |-> Fresh(w, k), countries |-> Nil]],
                     proc[w].todo \ {k})
            /\ Collected(Stored(mem, Fresh(w, k), v))
         \/ /\ Cardinality(Free(w, k)) > 1
            /\ Moves(w, "apply", Blank, [proc[w].copy EXCEPT ![k] = [data |-> Fresh(w, k), countries |-> Other(w, k)]],
                     proc[w].todo \ {k})
            /\ Collected(Stored(Stored(mem, Fresh(w, k), v), Other(w, k), v))
    BY DEF Apply
<1>3. proc[w].pc = "apply" /\ snap' = snap /\ mu' = mu /\ begun' = begun
    BY DEF Apply
<1>4. k \in Keys /\ mem \in [Reachable -> Values]
    BY <1>1, Had
<1>5. CASE Moves(w, "apply", Blank, [proc[w].copy EXCEPT ![k] = NoEntry], proc[w].todo \ {k}) /\ Collected(mem)
    <2>1. PutsEntry(w, k, NoEntry, M(k, NoEntry))
        BY <1>2, <1>3, <1>5, Blanks DEF PutsEntry, Moves
    <2>2. Reachable' \subseteq Reachable
        BY <1>1, <2>1, PutShape DEF NoEntry
    <2>3. mem' \in [Reachable' -> Values] /\ Kept
        BY <1>4, <1>5, <2>2, MemoryShrinks
    <2> QED BY <2>1, <2>3
<1>6. CASE /\ Free(w, k) # {}
           /\ Moves(w, "apply", Blank, [proc[w].copy EXCEPT ![k] = [data |-> Fresh(w, k), countries |-> Nil]],
                    proc[w].todo \ {k})
           /\ Collected(Stored(mem, Fresh(w, k), v))
    <2> DEFINE c == Fresh(w, k)
               e == [data |-> c, countries |-> Nil]
    <2>1. c \in Cells /\ c \notin DOMAIN mem /\ c[2] = k
        BY <1>1, <1>4, <1>6, FreshCell
    <2>2. e \in Entries /\ e.data = c /\ e.countries = Nil /\ c # Nil /\ c \notin Reachable
        BY <1>4, <2>1, StoreAssumption DEF Entries
    <2>3. PutsEntry(w, k, e, M(k, e))
        BY <1>2, <1>3, <1>6, <2>1, <2>2 DEF PutsEntry, Moves
    <2>4. Reachable' \subseteq Reachable \cup {c}
        <3> HIDE DEF M, e, c
        <3> QED BY <1>1, <2>2, <2>3, PutShape
    <2>5. mem' \in [Reachable' -> Values] /\ Kept
        BY <1>2, <1>4, <1>6, <2>1, <2>4, MemoryGrows
    <2> QED BY <2>3, <2>5
<1>7. CASE /\ Cardinality(Free(w, k)) > 1
           /\ Moves(w, "apply", Blank, [proc[w].copy EXCEPT ![k] = [data |-> Fresh(w, k), countries |-> Other(w, k)]],
                    proc[w].todo \ {k})
           /\ Collected(Stored(Stored(mem, Fresh(w, k), v), Other(w, k), v))
    <2> DEFINE c == Fresh(w, k)
               d == Other(w, k)
               e == [data |-> c, countries |-> d]
    <2>1. c \in Cells /\ c \notin DOMAIN mem /\ c[2] = k /\ d \in Cells /\ d \notin DOMAIN mem
        BY <1>1, <1>4, <1>7, FreshCell, OtherCell
    <2>2. e \in Entries /\ e.data = c /\ e.countries = d /\ c # Nil /\ c \notin Reachable
        BY <1>4, <2>1, StoreAssumption DEF Entries
    <2>3. PutsEntry(w, k, e, M(k, e))
        BY <1>2, <1>3, <1>7, <2>1, <2>2 DEF PutsEntry, Moves
    <2>4. Reachable' \subseteq Reachable \cup {c, d}
        <3> HIDE DEF M, e, c, d
        <3> QED BY <1>1, <2>2, <2>3, PutShape
    <2>5. mem' \in [Reachable' -> Values] /\ Kept
        BY <1>2, <1>4, <1>7, <2>1, <2>4, MemoryGrowsTwice
    <2> QED BY <2>3, <2>5
<1> QED BY <1>2, <1>5, <1>6, <1>7

LEMMA ApplyKind ==
    ASSUME Shapes, Stages, NEW w \in Refreshers, NEW k, NEW e, NEW m, PutsEntry(w, k, e, m),
           mem' \in [Reachable' -> Values], Kept
    PROVE  Kind
<1>1. /\ proc' = [proc EXCEPT ![w] = m] /\ snap' = snap /\ mu' = mu /\ begun' = begun
      /\ proc[w].pc # "idle" /\ m.pc = "apply" /\ m.base = Blank /\ m.todo = proc[w].todo \ {k}
    BY DEF PutsEntry
<1>2. /\ w \in Procs /\ w \notin Readers /\ mu' = w /\ mu' \in Refreshers \cup {Nobody} /\ begun' \in Nat
      /\ \A q \in Refreshers \ {w} : mu' = q <=> mu = q
    BY <1>1, Holder
<1>3. m \in ProcType /\ Named(m.copy)
    BY <1>2, PutShape
<1>4. Stage(m)
    BY <1>1, <1>3, BlankNamed DEF Stage
<1>5. snap' \in Snapshots /\ Named(snap')
    BY <1>1 DEF Shapes, Stages
<1>6. Shapes' /\ Stages'
    BY <1>1, <1>2, <1>3, <1>4, <1>5, StepKeeps
<1> QED BY <1>6 DEF Kind

\* A caller that scribbles moves nobody, and writes only into a slice it owns.
LEMMA ScribbleKeeps ==
    ASSUME Shapes, Stages, NEW p \in Procs, Scribble(p)
    PROVE  /\ Shapes' /\ Stages' /\ Reachable' = Reachable
           /\ snap' = snap /\ mu' = mu /\ proc' = proc /\ begun' = begun
           /\ \E c \in SlicesOf(Owned(p)), v \in Values : mem' = [mem EXCEPT ![c] = v]
<1>1. /\ snap' = snap /\ mu' = mu /\ proc' = proc /\ begun' = begun
      /\ \E c \in SlicesOf(Owned(p)), v \in Values : mem' = [mem EXCEPT ![c] = v]
    BY DEF Scribble
<1>2. Reachable' = Reachable
    BY <1>1 DEF Reachable, CellsOf
<1>3. mem' \in [Reachable' -> Values]
    BY <1>1, <1>2 DEF Shapes
<1>4. Shapes'
    BY <1>1, <1>3 DEF Shapes
<1>5. Stages'
    BY <1>1 DEF Stages, Stage, Reads, Named
<1> QED BY <1>1, <1>2, <1>4, <1>5

LEMMA InitKind == Init => Shapes /\ Stages
<1> SUFFICES ASSUME Init PROVE Shapes /\ Stages
    OBVIOUS
<1>1. \A p \in Procs : proc[p] = Resting
    BY DEF Init
<1>2. Reachable = {}
    BY <1>1, Blanks DEF Init, Reachable, Resting
<1>3. mem \in [Reachable -> Values]
    BY <1>2 DEF Init
<1>4. Shapes
    BY <1>1, <1>3, Blanks, StoreAssumption DEF Init, Shapes, Resting, Procs
<1>5. Stages
    BY <1>1, BlankNamed DEF Init, Stages, Stage, Reads, Resting, Procs
<1> QED BY <1>4, <1>5

\* Every step is one of these.
LEMMA NextIs ==
    ASSUME Next
    PROVE  \/ \E r \in Readers : ReadLoad(r) \/ ReadReturn(r) \/ Drop(r)
           \/ \E p \in Procs : CopyEntry(p) \/ Scribble(p)
           \/ \E w \in Refreshers : Lock(w) \/ ToApply(w) \/ Apply(w) \/ ToSeal(w) \/ Store(w) \/ Unlock(w)
    BY DEF Next, Read, Update, Procs

LEMMA StutterKeeps ==
    ASSUME Shapes, Stages, UNCHANGED vars
    PROVE  Shapes' /\ Stages' /\ Kept
<1>1. mem' = mem /\ snap' = snap /\ mu' = mu /\ proc' = proc /\ begun' = begun
    BY DEF vars
<1>2. Reachable' = Reachable
    BY <1>1 DEF Reachable, CellsOf
<1>3. Shapes'
    BY <1>1, <1>2 DEF Shapes
<1>4. Stages'
    BY <1>1 DEF Stages, Stage, Reads, Named
<1> QED BY <1>1, <1>3, <1>4 DEF Kept

LEMMA ShapesStep == Shapes /\ Stages /\ [Next]_vars => Shapes' /\ Stages'
<1> SUFFICES ASSUME Shapes, Stages, [Next]_vars PROVE Shapes' /\ Stages'
    OBVIOUS
<1>1. ASSUME NEW r \in Readers, ReadLoad(r) \/ ReadReturn(r) \/ Drop(r) PROVE Shapes' /\ Stages'
    BY <1>1, ReadLoadKind, ReadReturnKind, DropKind DEF Kind
<1>2. ASSUME NEW p \in Procs, CopyEntry(p) PROVE Shapes' /\ Stages'
    BY <1>2, CopyEntryIs, CopyEntryKind DEF Kind
<1>3. ASSUME NEW p \in Procs, Scribble(p) PROVE Shapes' /\ Stages'
    BY <1>3, ScribbleKeeps
<1>4. ASSUME NEW w \in Refreshers, Lock(w) \/ ToApply(w) \/ ToSeal(w) \/ Store(w) \/ Unlock(w)
      PROVE  Shapes' /\ Stages'
    BY <1>4, LockKind, ToApplyKind, ToSealKind, StoreKind, UnlockKind DEF Kind
<1>5. ASSUME NEW w \in Refreshers, Apply(w) PROVE Shapes' /\ Stages'
    BY <1>5, ApplyPuts, ApplyKind DEF Kind
<1>6. CASE UNCHANGED vars
    BY <1>6, StutterKeeps
<1> QED BY <1>1, <1>2, <1>3, <1>4, <1>5, <1>6, NextIs

\* The snapshots have the shape they should; every cell in use has content and no other cell
\* has; and of the refreshers only the one that holds the mutex is between Lock and Unlock.
THEOREM TypeCorrect == Spec => []TypeOK
<1>1. Init => Shapes /\ Stages
    BY InitKind
<1>2. (Shapes /\ Stages) /\ [Next]_vars => (Shapes /\ Stages)'
    BY ShapesStep
<1>3. Shapes => TypeOK
    BY Folded
<1> QED BY <1>1, <1>2, <1>3, PTL DEF Spec

-----------------------------------------------------------------------------
(* Nobody shares a slice. *)

Disjoint(s, t) == \A j, k \in Keys : s[j].data = t[k].data => s[j].data = Nil

\* Two goroutines: neither's copy shares with what the other has; what they copy from they
\* share only while both copy the published snapshot.
Separate(m, n) ==
    /\ Disjoint(m.copy, n.copy) /\ Disjoint(m.copy, n.base) /\ Disjoint(n.copy, m.base)
    /\ m.pc # "clone" \/ n.pc # "clone" => Disjoint(m.base, n.base)

\* One goroutine and the published snapshot.
Own(m, s) ==
    /\ Disjoint(m.copy, s) /\ Disjoint(m.copy, m.base)
    /\ m.pc # "clone" => Disjoint(m.base, s)

Apart(s, P) ==
    /\ \A p \in Procs : Own(P[p], s)
    /\ \A p, q \in Procs : p # q => Separate(P[p], P[q])

LEMMA DisjointFacts ==
    ASSUME NEW s, NEW t
    PROVE  /\ Disjoint(s, t) => Disjoint(t, s)
           /\ Disjoint(Blank, s) /\ Disjoint(s, Blank)
    BY Blanks DEF Disjoint

LEMMA DisjointExcept ==
    ASSUME NEW s \in Snapshots, NEW t \in Snapshots, Disjoint(s, t), NEW k \in Keys, NEW e \in Entries,
           e.data = Nil \/ e.data \notin CellsOf(t)
    PROVE  Disjoint([s EXCEPT ![k] = e], t)
<1>1. \A j \in Keys : t[j].data = Nil \/ t[j].data \in CellsOf(t)
    BY Refers
<1>2. \A j \in Keys : [s EXCEPT ![k] = e][j] = IF j = k THEN e ELSE s[j]
    BY DEF Snapshots
<1> QED BY <1>1, <1>2 DEF Disjoint

LEMMA SeparateSym == ASSUME NEW m, NEW n, Separate(m, n) PROVE Separate(n, m)
    BY DisjointFacts DEF Separate

\* One goroutine moves and the snapshot may change: what has to be shown of that.
LEMMA ApartMoves ==
    ASSUME proc \in [Procs -> ProcType], Apart(snap, proc), NEW p \in Procs, NEW m \in ProcType,
           proc' = [proc EXCEPT ![p] = m],
           Own(m, snap'),
           \A q \in Procs \ {p} : Separate(m, proc[q]) /\ Own(proc[q], snap')
    PROVE  Apart(snap', proc')
<1>1. proc'[p] = m /\ \A q \in Procs \ {p} : proc'[q] = proc[q]
    BY Moved
<1>2. ASSUME NEW q \in Procs PROVE Own(proc'[q], snap')
    BY <1>1
<1>3. ASSUME NEW q \in Procs, NEW u \in Procs, q # u PROVE Separate(proc'[q], proc'[u])
    <2>1. CASE q = p
        <3>1. proc'[u] = proc[u] /\ proc'[q] = m /\ u \in Procs \ {p}
            BY <1>1, <1>3, <2>1
        <3> QED BY <3>1
    <2>2. CASE u = p
        <3>1. proc'[q] = proc[q] /\ proc'[u] = m /\ q \in Procs \ {p}
            BY <1>1, <1>3, <2>2
        <3> QED BY <3>1, SeparateSym
    <2>3. CASE q # p /\ u # p
        <3>1. proc'[q] = proc[q] /\ proc'[u] = proc[u]
            BY <1>1, <2>3
        <3> QED BY <1>3, <3>1 DEF Apart
    <2> QED BY <2>1, <2>2, <2>3
<1> QED BY <1>2, <1>3 DEF Apart

\* How things stand before a step.
LEMMA Standing ==
    ASSUME Apart(snap, proc), NEW p \in Procs
    PROVE  /\ Own(proc[p], snap)
           /\ \A q \in Procs \ {p} : Separate(proc[p], proc[q]) /\ Own(proc[q], snap)
    BY DEF Apart

LEMMA MovesIs ==
    ASSUME NEW p, NEW pc \in {"idle", "clone", "have", "apply", "seal", "unlock"},
           NEW base \in Snapshots, NEW copy \in Snapshots, NEW todo \in SUBSET Keys,
           Moves(p, pc, base, copy, todo)
    PROVE  \E m \in ProcType :
              /\ proc' = [proc EXCEPT ![p] = m]
              /\ m.pc = pc /\ m.base = base /\ m.copy = copy /\ m.todo = todo
<1> DEFINE m == [pc |-> pc, base |-> base, copy |-> copy, todo |-> todo]
<1>1. m \in ProcType /\ proc' = [proc EXCEPT ![p] = m]
    BY DEF Moves, ProcType
<1> QED BY <1>1

\* A goroutine that begins to clone: it has a blank copy, and copies from the snapshot.
LEMMA BeginsApart ==
    ASSUME Shapes, Apart(snap, proc), NEW p \in Procs, snap' = snap,
           Moves(p, "clone", snap, Blank, Present(snap))
    PROVE  Apart(snap', proc')
<1>0. PICK m \in ProcType : /\ proc' = [proc EXCEPT ![p] = m]
                            /\ m.pc = "clone" /\ m.base = snap /\ m.copy = Blank
    <2>1. snap \in Snapshots /\ Present(snap) \in SUBSET Keys /\ Blank \in Snapshots
        BY PresentThere, Blanks DEF Shapes
    <2> QED BY <2>1, MovesIs
<1>1. Own(m, snap)
    BY <1>0, DisjointFacts DEF Own
<1>2. ASSUME NEW q \in Procs \ {p} PROVE Separate(m, proc[q])
    <2>1. Own(proc[q], snap)
        BY Standing
    <2> QED BY <1>0, <2>1, DisjointFacts DEF Own, Separate
<1> QED BY <1>0, <1>1, <1>2, Standing, ApartMoves DEF Shapes

\* One that goes on with parts of what it had: its copy, or nothing; and to copy from, what it
\* copied from (unless that is the snapshot), its copy, or nothing.
GoesOn(p, base, copy) ==
    /\ \/ base = Blank
       \/ base = proc[p].copy
       \/ (base = proc[p].base /\ proc[p].pc # "clone")
    /\ copy = Blank \/ (copy = proc[p].copy /\ base = Blank)

LEMMA GoesOnApart ==
    ASSUME Shapes, Apart(snap, proc), NEW p \in Procs, snap' = snap,
           NEW pc \in {"idle", "have", "apply", "seal"}, NEW base, NEW copy, NEW todo \in SUBSET Keys,
           Moves(p, pc, base, copy, todo),
           GoesOn(p, base, copy)
    PROVE  Apart(snap', proc')
<1>0. PICK m \in ProcType : /\ proc' = [proc EXCEPT ![p] = m]
                            /\ m.pc = pc /\ m.base = base /\ m.copy = copy
    <2>1. proc[p].base \in Snapshots /\ proc[p].copy \in Snapshots /\ Blank \in Snapshots
        BY Blanks DEF Shapes, ProcType
    <2>2. base \in Snapshots /\ copy \in Snapshots
        BY <2>1 DEF GoesOn
    <2>3. pc \in {"idle", "clone", "have", "apply", "seal", "unlock"}
        OBVIOUS
    <2> QED BY <2>2, <2>3, MovesIs
<1>1. Own(proc[p], snap)
    BY Standing
<1>2. Own(m, snap)
    BY <1>0, <1>1, DisjointFacts DEF Own, GoesOn
<1>3. ASSUME NEW q \in Procs \ {p} PROVE Separate(m, proc[q])
    <2>1. Separate(proc[p], proc[q])
        BY Standing
    <2> QED BY <1>0, <2>1, DisjointFacts DEF Separate, GoesOn
<1> QED BY <1>0, <1>2, <1>3, Standing, ApartMoves DEF Shapes

\* One that puts an entry with a new cell, or none, in its copy.
LEMMA PutApart ==
    ASSUME Shapes, Apart(snap, proc), NEW p \in Procs, NEW m \in ProcType, NEW k \in Keys, NEW e \in Entries,
           e.data = Nil \/ e.data \notin Reachable,
           proc' = [proc EXCEPT ![p] = m], snap' = snap,
           m.base = Blank \/ (m.base = proc[p].base /\ m.pc = proc[p].pc),
           m.copy = [proc[p].copy EXCEPT ![k] = e]
    PROVE  Apart(snap', proc')
<1>1. snap \in Snapshots /\ \A q \in Procs : proc[q].base \in Snapshots /\ proc[q].copy \in Snapshots
    BY DEF Shapes, ProcType
<1>2. Own(proc[p], snap)
    BY Standing
<1>3. e.data = Nil \/ e.data \notin CellsOf(snap)
    BY ReachableParts
<1>4. \A q \in Procs : e.data = Nil \/ (e.data \notin CellsOf(proc[q].base) /\ e.data \notin CellsOf(proc[q].copy))
    BY ReachableParts
<1>5. Own(m, snap)
    <2>1. Disjoint(m.copy, snap)
        BY <1>1, <1>2, <1>3, DisjointExcept DEF Own
    <2>2. Disjoint(m.copy, proc[p].base)
        BY <1>1, <1>2, <1>4, DisjointExcept DEF Own
    <2> QED BY <1>2, <2>1, <2>2, DisjointFacts DEF Own
<1>6. ASSUME NEW q \in Procs \ {p} PROVE Separate(m, proc[q])
    <2>1. Separate(proc[p], proc[q])
        BY Standing
    <2>2. Disjoint(m.copy, proc[q].copy)
        BY <1>1, <1>4, <2>1, DisjointExcept DEF Separate
    <2>3. Disjoint(m.copy, proc[q].base)
        BY <1>1, <1>4, <2>1, DisjointExcept DEF Separate
    <2> QED BY <2>1, <2>2, <2>3, DisjointFacts DEF Separate
<1> QED BY <1>5, <1>6, Standing, ApartMoves DEF Shapes

\* The copy of the refresher becomes the snapshot.
LEMMA StoreApart ==
    ASSUME Shapes, Stages, Apart(snap, proc), NEW w \in Refreshers, Store(w)
    PROVE  Apart(snap', proc')
<1> DEFINE m == [pc |-> "unlock", base |-> proc[w].base, copy |-> Blank, todo |-> {}]
<1>1. w \in Procs
    BY DEF Procs
<1>2. proc' = [proc EXCEPT ![w] = m] /\ snap' = proc[w].copy /\ proc[w].pc = "seal"
    BY DEF Store, Moves, Sealed
<1>3. m \in ProcType
    BY <1>1, Had, Blanks DEF ProcType
<1>4. m.base = proc[w].base /\ m.copy = Blank /\ m.pc = "unlock"
    OBVIOUS
<1> HIDE DEF m
<1>5. Own(proc[w], snap)
    BY <1>1, Standing
<1>6. Own(m, snap')
    BY <1>2, <1>4, <1>5, DisjointFacts DEF Own
<1>7. ASSUME NEW q \in Procs \ {w} PROVE Separate(m, proc[q]) /\ Own(proc[q], snap')
    <2>1. Separate(proc[w], proc[q]) /\ Own(proc[q], snap)
        BY <1>1, Standing
    <2>2. Separate(m, proc[q])
        BY <1>2, <1>4, <2>1, DisjointFacts DEF Separate
    <2>3. Own(proc[q], snap')
        BY <1>2, <2>1, DisjointFacts DEF Separate, Own
    <2> QED BY <2>2, <2>3
<1> QED BY <1>1, <1>2, <1>3, <1>6, <1>7, ApartMoves DEF Shapes

LEMMA ApartStep == Shapes /\ Stages /\ Apart(snap, proc) /\ [Next]_vars => Apart(snap', proc')
<1> SUFFICES ASSUME Shapes, Stages, Apart(snap, proc), [Next]_vars PROVE Apart(snap', proc')
    OBVIOUS
<1>1. Readers \subseteq Procs /\ Refreshers \subseteq Procs /\ {} \in SUBSET Keys
    BY DEF Procs
<1>2. ASSUME NEW r \in Readers, ReadLoad(r) PROVE Apart(snap', proc')
    BY <1>1, <1>2, BeginsApart DEF ReadLoad
<1>3. ASSUME NEW w \in Refreshers, Lock(w) PROVE Apart(snap', proc')
    BY <1>1, <1>3, BeginsApart DEF Lock
<1>4. ASSUME NEW r \in Readers, ReadReturn(r) PROVE Apart(snap', proc')
    <2>1. Moves(r, "have", Blank, proc[r].copy, {}) /\ snap' = snap /\ GoesOn(r, Blank, proc[r].copy)
        BY <1>4 DEF ReadReturn, GoesOn
    <2> QED BY <1>1, <2>1, GoesOnApart
<1>5. ASSUME NEW r \in Readers, Drop(r) PROVE Apart(snap', proc')
    <2>1. Moves(r, "idle", Blank, Blank, {}) /\ snap' = snap /\ GoesOn(r, Blank, Blank)
        BY <1>5 DEF Drop, GoesOn
    <2> QED BY <1>1, <2>1, GoesOnApart
<1>6. ASSUME NEW w \in Refreshers, ToApply(w) PROVE Apart(snap', proc')
    <2>1. Moves(w, "apply", Blank, proc[w].copy, NewsOf[w]) /\ snap' = snap /\ GoesOn(w, Blank, proc[w].copy)
        BY <1>6 DEF ToApply, GoesOn
    <2>2. NewsOf[w] \in SUBSET Keys
        BY StoreAssumption
    <2> QED BY <1>1, <2>1, <2>2, GoesOnApart
<1>7. ASSUME NEW w \in Refreshers, ToSeal(w) PROVE Apart(snap', proc')
    <2>1. Moves(w, "seal", proc[w].copy, Blank, Present(proc[w].copy)) /\ snap' = snap
        BY <1>7 DEF ToSeal
    <2>3. GoesOn(w, proc[w].copy, Blank)
        BY Zenon DEF GoesOn
    <2>2. Present(proc[w].copy) \in SUBSET Keys
        BY PresentThere
    <2> QED BY <1>1, <2>1, <2>2, <2>3, GoesOnApart
<1>8. ASSUME NEW w \in Refreshers, Unlock(w) PROVE Apart(snap', proc')
    <2>1. Moves(w, "idle", proc[w].base, Blank, {}) /\ snap' = snap /\ proc[w].pc # "clone"
        BY <1>8 DEF Unlock
    <2>2. GoesOn(w, proc[w].base, Blank)
        BY <2>1, Zenon DEF GoesOn
    <2> QED BY <1>1, <2>1, <2>2, GoesOnApart
<1>9. ASSUME NEW w \in Refreshers, Store(w) PROVE Apart(snap', proc')
    BY <1>9, StoreApart
<1>10. ASSUME NEW p \in Procs, CopyEntry(p) PROVE Apart(snap', proc')
    <2>1. PICK k, m, c : CopiedInto(p, k, m, c)
        BY <1>10, CopyEntryIs
    <2>2. /\ k \in Keys /\ c \notin Reachable /\ Copied(proc[p].base[k], c) \in Entries /\ m \in ProcType
        BY <2>1, CopiedCells
    <2>3. /\ proc' = [proc EXCEPT ![p] = m] /\ snap' = snap
          /\ m.base = proc[p].base /\ m.pc = proc[p].pc
          /\ m.copy = [proc[p].copy EXCEPT ![k] = Copied(proc[p].base[k], c)]
          /\ Copied(proc[p].base[k], c).data = c
        BY <2>1 DEF CopiedInto, Copied
    <2>4. PICK e \in Entries : e = Copied(proc[p].base[k], c)
        BY <2>2
    <2>5. (e.data = Nil \/ e.data \notin Reachable) /\ m.copy = [proc[p].copy EXCEPT ![k] = e]
        BY <2>2, <2>3, <2>4
    <2> QED BY <2>2, <2>3, <2>5, PutApart
<1>11. ASSUME NEW w \in Refreshers, Apply(w) PROVE Apart(snap', proc')
    <2>1. PICK k, e, m : PutsEntry(w, k, e, m)
        BY <1>11, ApplyPuts
    <2>2. k \in Keys /\ m \in ProcType
        BY <1>1, <2>1, PutShape
    <2>3. /\ proc' = [proc EXCEPT ![w] = m] /\ snap' = snap /\ e \in Entries
          /\ m.base = Blank /\ m.copy = [proc[w].copy EXCEPT ![k] = e]
          /\ e.data = Nil \/ e.data \notin Reachable
        BY <2>1 DEF PutsEntry, NoEntry
    <2> QED BY <1>1, <2>2, <2>3, PutApart
<1>12. ASSUME NEW p \in Procs, Scribble(p) PROVE Apart(snap', proc')
    BY <1>12, ScribbleKeeps
<1>13. CASE UNCHANGED vars
    BY <1>13 DEF vars
<1> QED BY <1>2, <1>3, <1>4, <1>5, <1>6, <1>7, <1>8, <1>9, <1>10, <1>11, <1>12, <1>13, NextIs

LEMMA InitApart == Init => Apart(snap, proc)
<1> SUFFICES ASSUME Init PROVE Apart(snap, proc)
    OBVIOUS
<1>1. snap = Blank /\ \A p \in Procs : proc[p].base = Blank /\ proc[p].copy = Blank
    BY DEF Init, Resting
<1> QED BY <1>1, DisjointFacts DEF Apart, Own, Separate

\* What a caller owns is its copy, or the snapshot it was lent.
LEMMA OwnedIs ==
    ASSUME NEW p \in Procs
    PROVE  \/ Owned(p) = Blank
           \/ Owned(p) = proc[p].copy /\ proc[p].pc = "have"
           \/ Owned(p) = proc[p].base /\ proc[p].pc \in {"unlock", "idle"} /\ p \in Refreshers
    BY DEF Owned

LEMMA DisjointSlices ==
    ASSUME NEW s, NEW t, Disjoint(s, t) PROVE SlicesOf(s) \cap SlicesOf(t) = {}
    BY DEF Disjoint, SlicesOf

LEMMA ApartOwned == Apart(snap, proc) => SlicesOwned
<1> SUFFICES ASSUME Apart(snap, proc), NEW p \in Procs
             PROVE  /\ SlicesOf(Owned(p)) \cap SlicesOf(snap) = {}
                    /\ \A q \in Procs \ {p} : SlicesOf(Owned(p)) \cap SlicesOf(Owned(q)) = {}
    BY DEF SlicesOwned
<1>1. Own(proc[p], snap)
    BY Standing
<1>2. Disjoint(Owned(p), snap)
    BY <1>1, OwnedIs, DisjointFacts DEF Own
<1>3. ASSUME NEW q \in Procs \ {p} PROVE Disjoint(Owned(p), Owned(q))
    <2>1. Separate(proc[p], proc[q])
        BY Standing
    <2> QED BY <2>1, OwnedIs, DisjointFacts DEF Separate
<1> QED BY <1>2, <1>3, DisjointSlices

\* No slice of the published snapshot is in the hands of a caller, and no two callers share
\* one, whatever the goroutines do and in whatever order.
THEOREM SlicesAreOwned == Spec => []SlicesOwned
<1> DEFINE IInv == Shapes /\ Stages /\ Apart(snap, proc)
<1>1. Init => IInv
    BY InitKind, InitApart
<1>2. IInv /\ [Next]_vars => IInv'
    BY ShapesStep, ApartStep
<1>3. IInv => SlicesOwned
    BY ApartOwned
<1> QED BY <1>1, <1>2, <1>3, PTL DEF Spec

-----------------------------------------------------------------------------
(* The store implements AtomicMarket. *)

\* What an entry says, and the entry a goroutine that clones stands for.
Says(m, e)  == IF e.data = Nil THEN Absent ELSE m[e.data]
Seen(me, k) == IF k \in me.todo THEN me.base[k] ELSE me.copy[k]

\* What has become of the market in the hands of a refresher: it is all there until the
\* caller puts its news, and from then on all but the news is.
Progress(m, s, w, me) ==
    /\ me.pc = "clone" => \A k \in Keys : Says(m, Seen(me, k)) = Says(m, s[k])
    /\ me.pc = "apply" => /\ me.todo \subseteq NewsOf[w]
                          /\ \A k \in Keys \ NewsOf[w] : Says(m, me.copy[k]) = Says(m, s[k])
    /\ me.pc = "seal" => \A k \in Keys \ NewsOf[w] : Says(m, Seen(me, k)) = Says(m, s[k])

Progresses(m, s, P) == \A w \in Refreshers : Progress(m, s, w, P[w])

\* Entries of the snapshot and of the goroutines, before a step and after it.
LEMMA InUse ==
    ASSUME Shapes, NEW k \in Keys
    PROVE  /\ snap[k] \in Entries /\ (snap[k].data = Nil \/ snap[k].data \in Reachable)
           /\ \A p \in Procs : /\ proc[p].base[k] \in Entries /\ proc[p].copy[k] \in Entries
                               /\ proc[p].base[k].data = Nil \/ proc[p].base[k].data \in Reachable
                               /\ proc[p].copy[k].data = Nil \/ proc[p].copy[k].data \in Reachable
<1>1. snap \in Snapshots /\ \A p \in Procs : proc[p].base \in Snapshots /\ proc[p].copy \in Snapshots
    BY DEF Shapes, ProcType
<1>2. snap[k] \in Entries /\ (snap[k].data = Nil \/ snap[k].data \in Reachable)
    BY <1>1, Refers, ReachableParts
<1>3. ASSUME NEW p \in Procs
      PROVE  /\ proc[p].base[k] \in Entries /\ proc[p].copy[k] \in Entries
             /\ proc[p].base[k].data = Nil \/ proc[p].base[k].data \in Reachable
             /\ proc[p].copy[k].data = Nil \/ proc[p].copy[k].data \in Reachable
    BY <1>1, Refers, ReachableParts
<1> QED BY <1>2, <1>3

LEMMA InUseNext ==
    ASSUME Shapes', NEW k \in Keys
    PROVE  /\ snap'[k] \in Entries /\ (snap'[k].data = Nil \/ snap'[k].data \in Reachable')
           /\ \A p \in Procs : /\ proc'[p].base[k] \in Entries /\ proc'[p].copy[k] \in Entries
                               /\ proc'[p].base[k].data = Nil \/ proc'[p].base[k].data \in Reachable'
                               /\ proc'[p].copy[k].data = Nil \/ proc'[p].copy[k].data \in Reachable'
<1>1. snap' \in Snapshots /\ \A p \in Procs : proc'[p].base \in Snapshots /\ proc'[p].copy \in Snapshots
    BY DEF Shapes, ProcType
<1>2. snap'[k] \in Entries /\ (snap'[k].data = Nil \/ snap'[k].data \in Reachable')
    BY <1>1, Refers, ReachablePartsNext
<1>3. ASSUME NEW p \in Procs
      PROVE  /\ proc'[p].base[k] \in Entries /\ proc'[p].copy[k] \in Entries
             /\ proc'[p].base[k].data = Nil \/ proc'[p].base[k].data \in Reachable'
             /\ proc'[p].copy[k].data = Nil \/ proc'[p].copy[k].data \in Reachable'
    BY <1>1, Refers, ReachablePartsNext
<1> QED BY <1>2, <1>3

\* What an entry that stays in use says, a step that writes into no slice leaves.
LEMMA SaysTheSame ==
    ASSUME Kept, NEW e, e.data = Nil \/ (e.data \in Reachable /\ e.data \in Reachable')
    PROVE  Says(mem', e) = Says(mem, e)
    BY DEF Kept, Says

LEMMA SaysType ==
    ASSUME Shapes, NEW k \in Keys
    PROVE  /\ Says(mem, snap[k]) \in Values \cup {Absent}
           /\ \A p \in Procs : Says(mem, Seen(proc[p], k)) \in Values \cup {Absent}
<1>1. mem \in [Reachable -> Values]
    BY DEF Shapes
<1>2. \A e : e.data = Nil \/ e.data \in Reachable => Says(mem, e) \in Values \cup {Absent}
    BY <1>1 DEF Says
<1> QED BY <1>2, InUse DEF Seen

LEMMA SaysTypeNext ==
    ASSUME Shapes', NEW k \in Keys
    PROVE  Says(mem', snap'[k]) \in Values \cup {Absent}
<1>1. mem' \in [Reachable' -> Values]
    BY DEF Shapes
<1>2. \A e : e.data = Nil \/ e.data \in Reachable' => Says(mem', e) \in Values \cup {Absent}
    BY <1>1 DEF Says
<1> QED BY <1>2, InUseNext

\* What those who do not move have, and the snapshot if it stays, says what it said.
LEMMA OthersSay ==
    ASSUME Shapes, Kind, NEW p \in Procs, NEW m \in ProcType, proc' = [proc EXCEPT ![p] = m], NEW k \in Keys
    PROVE  /\ snap' = snap => Says(mem', snap[k]) = Says(mem, snap[k])
           /\ \A q \in Procs \ {p} : /\ proc'[q] = proc[q]
                                     /\ Says(mem', proc[q].base[k]) = Says(mem, proc[q].base[k])
                                     /\ Says(mem', proc[q].copy[k]) = Says(mem, proc[q].copy[k])
                                     /\ Says(mem', Seen(proc[q], k)) = Says(mem, Seen(proc[q], k))
<1>1. Shapes' /\ Kept
    BY DEF Kind
<1>2. snap' = snap => Says(mem', snap[k]) = Says(mem, snap[k])
    BY <1>1, InUse, InUseNext, SaysTheSame
<1>3. ASSUME NEW q \in Procs \ {p}
      PROVE  /\ proc'[q] = proc[q]
             /\ Says(mem', proc[q].base[k]) = Says(mem, proc[q].base[k])
             /\ Says(mem', proc[q].copy[k]) = Says(mem, proc[q].copy[k])
    <2>1. proc'[q] = proc[q]
        BY Moved DEF Shapes
    <2> QED BY <1>1, <2>1, InUse, InUseNext, SaysTheSame
<1> QED BY <1>2, <1>3 DEF Seen

\* The entries a goroutine keeps say what they said.
LEMMA KeptSays ==
    ASSUME Shapes, Kind, NEW p \in Procs, NEW m \in ProcType, proc' = [proc EXCEPT ![p] = m], NEW k \in Keys
    PROVE  \A e \in {proc[p].base[k], proc[p].copy[k]} \cap {m.base[k], m.copy[k], snap'[k]} :
              Says(mem', e) = Says(mem, e)
<1>1. Shapes' /\ Kept /\ proc'[p] = m
    BY Moved DEF Kind, Shapes
<1> QED BY <1>1, InUse, InUseNext, SaysTheSame

\* What AtomicMarket sees of the store.
Market == [k \in Keys |-> Says(mem, snap[k])]
View   == [r \in Readers |-> IF proc[r].pc = "idle" THEN NoView
                             ELSE [k \in Keys |-> Says(mem, Seen(proc[r], k))]]

Stays       == Market' = Market /\ View' = View
Publishes(w) == /\ \E news \in [Keys -> Values \cup {Absent}] :
                      Market' = [k \in Keys |-> IF k \in NewsOf[w] THEN news[k] ELSE Market[k]]
                /\ View' = View
Observes(r) == View[r] = NoView /\ View' = [View EXCEPT ![r] = Market] /\ Market' = Market
Alters(r)   == /\ View[r] # NoView
               /\ \E k \in Keys, v \in Values : View' = [View EXCEPT ![r] = [@ EXCEPT ![k] = v]]
               /\ Market' = Market
Forgets(r)  == View[r] # NoView /\ View' = [View EXCEPT ![r] = NoView] /\ Market' = Market

Shows == Stays \/ (\E w \in Refreshers : Publishes(w)) \/ (\E r \in Readers : Observes(r) \/ Alters(r) \/ Forgets(r))

LEMMA Mapped ==
    /\ Promised!vars = <<Market, View>>
    /\ Promised!Init <=> Market = [k \in Keys |-> Absent] /\ View = [r \in Readers |-> NoView]
    /\ \A w : Promised!Publish(w) <=> Publishes(w)
    /\ \A r : /\ Promised!Observe(r) <=> Observes(r)
              /\ Promised!Alter(r) <=> Alters(r)
              /\ Promised!Forget(r) <=> Forgets(r)
    BY DEF Promised!vars, Promised!Init, Promised!Publish, Promised!Observe, Promised!Alter, Promised!Forget,
           Promised!Markets, Market, View, Says, Seen, Content, Publishes, Observes, Alters, Forgets

LEMMA MappedNext == (Promised!vars)' = <<Market', View'>>
    BY DEF Promised!vars, Market, View, Says, Seen, Content

LEMMA ShownStep == Shows => [Promised!Next]_(Promised!vars)
<1>1. Stays => (Promised!vars)' = Promised!vars
    BY Mapped, MappedNext DEF Stays
<1>2. Shows => Stays \/ Promised!Next
    BY Mapped DEF Shows, Promised!Next
<1> QED BY <1>1, <1>2

\* One goroutine moves and the snapshot stays: the market does, and the views of the others.
LEMMA MarketStays ==
    ASSUME Shapes, Kind, NEW p \in Procs, NEW m \in ProcType, proc' = [proc EXCEPT ![p] = m], snap' = snap
    PROVE  Market' = Market
<1>1. \A k \in Keys : Says(mem', snap'[k]) = Says(mem, snap[k])
    BY OthersSay
<1> QED BY <1>1 DEF Market

LEMMA ViewStays ==
    ASSUME Shapes, Kind, NEW p \in Procs, NEW m \in ProcType, proc' = [proc EXCEPT ![p] = m], p \notin Readers
    PROVE  View' = View
<1>1. ASSUME NEW r \in Readers
      PROVE  proc'[r] = proc[r] /\ \A k \in Keys : Says(mem', Seen(proc'[r], k)) = Says(mem, Seen(proc[r], k))
    <2>1. r \in Procs \ {p}
        BY DEF Procs
    <2> QED BY <2>1, OthersSay, Moved DEF Shapes
<1> QED BY <1>1 DEF View

LEMMA ViewMoves ==
    ASSUME Shapes, Kind, NEW p \in Procs, NEW m \in ProcType, proc' = [proc EXCEPT ![p] = m], p \in Readers
    PROVE  View' = [View EXCEPT ![p] = IF m.pc = "idle" THEN NoView
                                       ELSE [k \in Keys |-> Says(mem', Seen(m, k))]]
<1>1. proc'[p] = m
    BY Moved DEF Shapes
<1>2. ASSUME NEW r \in Readers \ {p}
      PROVE  proc'[r] = proc[r] /\ \A k \in Keys : Says(mem', Seen(proc'[r], k)) = Says(mem, Seen(proc[r], k))
    <2>1. r \in Procs \ {p}
        BY DEF Procs
    <2> QED BY <2>1, OthersSay, Moved DEF Shapes
<1> DEFINE V(P, mm, r) == IF P[r].pc = "idle" THEN NoView ELSE [k \in Keys |-> Says(mm, Seen(P[r], k))]
<1>3. \A r \in Readers \ {p} : V(proc', mem', r) = V(proc, mem, r)
    BY <1>2
<1>4. V(proc', mem', p) = IF m.pc = "idle" THEN NoView ELSE [k \in Keys |-> Says(mem', Seen(m, k))]
    BY <1>1
<1>5. View = [r \in Readers |-> V(proc, mem, r)] /\ View' = [r \in Readers |-> V(proc', mem', r)]
    BY DEF View
<1> HIDE DEF V
<1> QED BY <1>3, <1>4, <1>5

LEMMA ProgressMoves ==
    ASSUME Shapes, Kind, NEW p \in Procs, NEW m \in ProcType, proc' = [proc EXCEPT ![p] = m], snap' = snap,
           Progresses(mem, snap, proc), p \in Refreshers => Progress(mem', snap, p, m)
    PROVE  Progresses(mem', snap', proc')
<1> SUFFICES ASSUME NEW w \in Refreshers PROVE Progress(mem', snap, w, proc'[w])
    BY DEF Progresses
<1>1. CASE w = p
    BY <1>1, Moved DEF Shapes
<1>2. CASE w # p
    <2>1. w \in Procs \ {p}
        BY <1>2 DEF Procs
    <2>2. proc'[w] = proc[w] /\ Progress(mem, snap, w, proc[w])
        BY <2>1, Moved DEF Shapes, Progresses
    <2>3. \A k \in Keys : /\ Says(mem', snap[k]) = Says(mem, snap[k])
                          /\ Says(mem', proc[w].copy[k]) = Says(mem, proc[w].copy[k])
                          /\ Says(mem', Seen(proc[w], k)) = Says(mem, Seen(proc[w], k))
        BY <2>1, OthersSay
    <2> QED BY <2>2, <2>3 DEF Progress
<1> QED BY <1>1, <1>2

\* The steps of a refresher that leave the snapshot show nothing.
LEMMA NothingShown ==
    ASSUME Shapes, Kind, NEW w \in Refreshers, NEW m \in ProcType, proc' = [proc EXCEPT ![w] = m], snap' = snap,
           Progresses(mem, snap, proc), Progress(mem', snap, w, m)
    PROVE  Progresses(mem', snap', proc') /\ Shows
<1>1. w \in Procs /\ w \notin Readers
    BY StoreAssumption DEF Procs
<1> QED BY <1>1, MarketStays, ViewStays, ProgressMoves DEF Shows, Stays

LEMMA AllToDo ==
    ASSUME NEW s, NEW me, me.base = s, me.copy = Blank, me.todo = Present(s), NEW k \in Keys, NEW m
    PROVE  Says(m, Seen(me, k)) = Says(m, s[k])
    BY Blanks DEF Seen, Present, Says

LEMMA LockShows ==
    ASSUME Shapes, Stages, Progresses(mem, snap, proc), NEW w \in Refreshers, Lock(w)
    PROVE  Progresses(mem', snap', proc') /\ Shows
<1>1. snap \in Snapshots /\ Present(snap) \in SUBSET Keys /\ Blank \in Snapshots
    BY PresentThere, Blanks DEF Shapes
<1>2. Moves(w, "clone", snap, Blank, Present(snap)) /\ snap' = snap
    BY DEF Lock
<1>3. PICK m \in ProcType : /\ proc' = [proc EXCEPT ![w] = m]
                            /\ m.pc = "clone" /\ m.base = snap /\ m.copy = Blank /\ m.todo = Present(snap)
    BY <1>1, <1>2, MovesIs
<1>4. Progress(mem', snap, w, m)
    BY <1>3, AllToDo DEF Progress
<1> QED BY <1>2, <1>3, <1>4, LockKind, NothingShown

LEMMA ToApplyShows ==
    ASSUME Shapes, Stages, Progresses(mem, snap, proc), NEW w \in Refreshers, ToApply(w)
    PROVE  Progresses(mem', snap', proc') /\ Shows
<1>1. w \in Procs /\ proc[w].copy \in Snapshots /\ NewsOf[w] \in SUBSET Keys /\ Blank \in Snapshots
    BY Had, Blanks, StoreAssumption DEF Procs
<1>2. Moves(w, "apply", Blank, proc[w].copy, NewsOf[w]) /\ snap' = snap /\ proc[w].pc = "clone" /\ proc[w].todo = {}
    BY DEF ToApply
<1>3. PICK m \in ProcType : /\ proc' = [proc EXCEPT ![w] = m]
                            /\ m.pc = "apply" /\ m.base = Blank /\ m.copy = proc[w].copy /\ m.todo = NewsOf[w]
    BY <1>1, <1>2, MovesIs
<1>4. Kind
    BY ToApplyKind
<1>5. ASSUME NEW k \in Keys PROVE Says(mem', m.copy[k]) = Says(mem', snap[k])
    <2>1. Says(mem, proc[w].copy[k]) = Says(mem, snap[k])
        BY <1>2 DEF Progresses, Progress, Seen
    <2>2. Says(mem', snap[k]) = Says(mem, snap[k])
        BY <1>1, <1>2, <1>3, <1>4, OthersSay
    <2>3. Says(mem', m.copy[k]) = Says(mem, m.copy[k])
        BY <1>1, <1>3, <1>4, KeptSays
    <2> QED BY <1>3, <2>1, <2>2, <2>3
<1>6. Progress(mem', snap, w, m)
    BY <1>3, <1>5 DEF Progress
<1> QED BY <1>2, <1>3, <1>4, <1>6, NothingShown

LEMMA ApplyShows ==
    ASSUME Shapes, Stages, Progresses(mem, snap, proc), NEW w \in Refreshers, Apply(w)
    PROVE  Progresses(mem', snap', proc') /\ Shows
<1>1. PICK k, e, m : PutsEntry(w, k, e, m) /\ mem' \in [Reachable' -> Values] /\ Kept
    BY ApplyPuts
<1>2. w \in Procs
    BY DEF Procs
<1>3. Kind /\ m \in ProcType /\ proc[w].copy \in Snapshots
    BY <1>1, <1>2, ApplyKind, PutShape, Had
<1>4. /\ proc' = [proc EXCEPT ![w] = m] /\ snap' = snap /\ proc[w].pc = "apply" /\ k \in proc[w].todo
      /\ m.pc = "apply" /\ m.todo = proc[w].todo \ {k} /\ m.copy = [proc[w].copy EXCEPT ![k] = e]
    BY <1>1 DEF PutsEntry
<1>5. Progress(mem, snap, w, proc[w])
    BY DEF Progresses
<1>6. ASSUME NEW j \in Keys \ NewsOf[w] PROVE Says(mem', m.copy[j]) = Says(mem', snap[j])
    <2>1. Says(mem, proc[w].copy[j]) = Says(mem, snap[j]) /\ j # k
        BY <1>4, <1>5 DEF Progress
    <2>2. m.copy[j] = proc[w].copy[j]
        BY <1>3, <1>4, <2>1 DEF Snapshots
    <2>3. Says(mem', snap[j]) = Says(mem, snap[j])
        BY <1>2, <1>3, <1>4, OthersSay
    <2>4. Says(mem', m.copy[j]) = Says(mem, m.copy[j])
        <3>1. m.copy[j] \in {proc[w].base[j], proc[w].copy[j]} \cap {m.base[j], m.copy[j], snap'[j]}
            BY <2>2
        <3> QED BY <1>2, <1>3, <1>4, <3>1, KeptSays
    <2> QED BY <2>1, <2>2, <2>3, <2>4
<1>7. Progress(mem', snap, w, m)
    BY <1>4, <1>5, <1>6 DEF Progress
<1> QED BY <1>3, <1>4, <1>7, NothingShown

LEMMA ToSealShows ==
    ASSUME Shapes, Stages, Progresses(mem, snap, proc), NEW w \in Refreshers, ToSeal(w)
    PROVE  Progresses(mem', snap', proc') /\ Shows
<1>1. w \in Procs /\ proc[w].copy \in Snapshots /\ Present(proc[w].copy) \in SUBSET Keys /\ Blank \in Snapshots
    BY Had, Blanks, PresentThere DEF Procs
<1>2. /\ Moves(w, "seal", proc[w].copy, Blank, Present(proc[w].copy))
      /\ snap' = snap /\ mem' = mem /\ proc[w].pc = "apply"
    BY DEF ToSeal
<1>3. PICK m \in ProcType : /\ proc' = [proc EXCEPT ![w] = m] /\ m.pc = "seal"
                            /\ m.base = proc[w].copy /\ m.copy = Blank /\ m.todo = Present(proc[w].copy)
    BY <1>1, <1>2, MovesIs
<1>4. \A k \in Keys \ NewsOf[w] : Says(mem, proc[w].copy[k]) = Says(mem, snap[k])
    BY <1>2 DEF Progresses, Progress
<1>5. \A k \in Keys : Says(mem, Seen(m, k)) = Says(mem, proc[w].copy[k])
    BY <1>3, AllToDo
<1>6. Progress(mem', snap, w, m)
    BY <1>2, <1>3, <1>4, <1>5 DEF Progress
<1> QED BY <1>2, <1>3, <1>6, ToSealKind, NothingShown

LEMMA UnlockShows ==
    ASSUME Shapes, Stages, Progresses(mem, snap, proc), NEW w \in Refreshers, Unlock(w)
    PROVE  Progresses(mem', snap', proc') /\ Shows
<1>1. w \in Procs /\ proc[w].base \in Snapshots /\ {} \in SUBSET Keys /\ Blank \in Snapshots
    BY Had, Blanks DEF Procs
<1>2. Moves(w, "idle", proc[w].base, Blank, {}) /\ snap' = snap
    BY DEF Unlock
<1>3. PICK m \in ProcType : proc' = [proc EXCEPT ![w] = m] /\ m.pc = "idle"
    BY <1>1, <1>2, MovesIs
<1>4. Progress(mem', snap, w, m)
    BY <1>3 DEF Progress
<1> QED BY <1>2, <1>3, <1>4, UnlockKind, NothingShown

\* The new snapshot is the old one, but for the entries the refresher has news of.
LEMMA StoreShows ==
    ASSUME Shapes, Stages, Progresses(mem, snap, proc), NEW w \in Refreshers, Store(w)
    PROVE  Progresses(mem', snap', proc') /\ Shows
<1>1. w \in Procs /\ w \notin Readers /\ proc[w].base \in Snapshots /\ {} \in SUBSET Keys /\ Blank \in Snapshots
    BY Had, Blanks, StoreAssumption DEF Procs
<1>2. /\ Moves(w, "unlock", proc[w].base, Blank, {}) /\ snap' = proc[w].copy
      /\ proc[w].pc = "seal" /\ proc[w].todo = {} /\ mu' = mu
    BY DEF Store, Sealed
<1>3. PICK m \in ProcType : proc' = [proc EXCEPT ![w] = m] /\ m.pc = "unlock"
    BY <1>1, <1>2, MovesIs
<1>4. Kind
    BY StoreKind
<1>5. \A u \in Refreshers : proc'[u].pc \in {"idle", "unlock"}
    <2> SUFFICES ASSUME NEW u \in Refreshers PROVE proc'[u].pc \in {"idle", "unlock"}
        OBVIOUS
    <2>1. CASE u = w
        BY <1>1, <1>3, <2>1, Moved DEF Shapes
    <2>2. CASE u # w
        <3>1. mu = w
            BY <1>2 DEF Shapes
        <3>2. proc'[u] = proc[u]
            BY <1>1, <1>3, <2>2, Moved DEF Shapes, Procs
        <3> QED BY <2>2, <3>1, <3>2 DEF Shapes
    <2> QED BY <2>1, <2>2
<1>6. Progresses(mem', snap', proc')
    BY <1>5 DEF Progresses, Progress
<1>7. ASSUME NEW k \in Keys \ NewsOf[w] PROVE Says(mem', snap'[k]) = Says(mem, snap[k])
    <2>1. Says(mem, proc[w].copy[k]) = Says(mem, snap[k])
        BY <1>2 DEF Progresses, Progress, Seen
    <2>2. snap'[k] \in {proc[w].base[k], proc[w].copy[k]} \cap {m.base[k], m.copy[k], snap'[k]}
        BY <1>2
    <2>3. Says(mem', snap'[k]) = Says(mem, snap'[k])
        BY <1>1, <1>3, <1>4, <2>2, KeptSays
    <2> QED BY <1>2, <2>1, <2>3
<1>8. Publishes(w)
    <2> DEFINE news == [k \in Keys |-> Says(mem', snap'[k])]
    <2>1. news \in [Keys -> Values \cup {Absent}]
        BY <1>4, SaysTypeNext DEF Kind
    <2>2. Market' = news
        BY DEF Market
    <2>3. \A k \in Keys : news[k] = IF k \in NewsOf[w] THEN news[k] ELSE Market[k]
        BY <1>7 DEF Market
    <2>4. Market' = [k \in Keys |-> IF k \in NewsOf[w] THEN news[k] ELSE Market[k]]
        BY <2>2, <2>3
    <2>5. View' = View
        BY <1>1, <1>3, <1>4, ViewStays
    <2> QED BY <2>1, <2>4, <2>5 DEF Publishes
<1> QED BY <1>6, <1>8 DEF Shows

\* A copied entry says in its new cell what it said in the old one.
LEMMA CopyEntryShows ==
    ASSUME Shapes, Stages, Progresses(mem, snap, proc), NEW p \in Procs, CopyEntry(p)
    PROVE  Progresses(mem', snap', proc') /\ Shows
<1>1. PICK k, m, c : CopiedInto(p, k, m, c)
    BY CopyEntryIs
<1>2. Kind /\ (c \in Reachable' => mem'[c] = mem[proc[p].base[k].data])
    BY <1>1, CopyEntryKind
<1>3. /\ k \in Keys /\ c # Nil /\ proc[p].base[k].data # Nil /\ m \in ProcType
    BY <1>1, CopiedCells
<1>4. /\ proc' = [proc EXCEPT ![p] = m] /\ snap' = snap /\ k \in proc[p].todo
      /\ proc[p].pc \in {"clone", "seal"} /\ m.pc = proc[p].pc /\ m.base = proc[p].base
      /\ m.copy = [proc[p].copy EXCEPT ![k] = Copied(proc[p].base[k], c)] /\ m.todo = proc[p].todo \ {k}
    BY <1>1 DEF CopiedInto
<1>5. proc[p].copy \in Snapshots
    BY Had
<1>6. ASSUME NEW j \in Keys PROVE Says(mem', Seen(m, j)) = Says(mem, Seen(proc[p], j))
    <2>1. CASE j = k
        <3>1. m.copy[k] = Copied(proc[p].base[k], c) /\ m.copy[k].data = c
            BY <1>3, <1>4, <1>5 DEF Snapshots, Copied
        <3>2. proc'[p] = m /\ Shapes'
            BY <1>2, <1>3, <1>4, Moved DEF Kind, Shapes
        <3>3. c \in Reachable'
            BY <1>3, <3>1, <3>2, InUseNext
        <3>4. Says(mem', m.copy[k]) = Says(mem, proc[p].base[k])
            BY <1>2, <1>3, <3>1, <3>3 DEF Says
        <3>5. Seen(m, j) = m.copy[k] /\ Seen(proc[p], j) = proc[p].base[k]
            BY <1>4, <2>1 DEF Seen
        <3> QED BY <3>4, <3>5
    <2>2. CASE j # k
        <3>1. m.copy[j] = proc[p].copy[j] /\ m.base[j] = proc[p].base[j]
            BY <1>4, <1>5, <2>2 DEF Snapshots
        <3>2. Seen(m, j) = Seen(proc[p], j)
            BY <1>4, <2>2, <3>1 DEF Seen
        <3>3. PICK e : e = Seen(m, j)
            OBVIOUS
        <3>4. e \in {proc[p].base[j], proc[p].copy[j]} \cap {m.base[j], m.copy[j], snap'[j]}
            BY <3>1, <3>3 DEF Seen
        <3>5. \A x \in {proc[p].base[j], proc[p].copy[j]} \cap {m.base[j], m.copy[j], snap'[j]} :
                 Says(mem', x) = Says(mem, x)
            BY <1>2, <1>3, <1>4, KeptSays
        <3>6. Says(mem', e) = Says(mem, e)
            BY <3>4, <3>5
        <3> QED BY <3>2, <3>3, <3>6
    <2> QED BY <2>1, <2>2
<1>7. CASE p \in Refreshers
    <2>1. Progress(mem, snap, p, proc[p])
        BY <1>7 DEF Progresses
    <2>2. \A j \in Keys : Says(mem', snap[j]) = Says(mem, snap[j])
        BY <1>2, <1>3, <1>4, OthersSay
    <2>3. Progress(mem', snap, p, m)
        BY <1>4, <1>6, <2>1, <2>2 DEF Progress
    <2> QED BY <1>2, <1>3, <1>4, <1>7, <2>3, NothingShown
<1>8. CASE p \in Readers
    <2>1. p \notin Refreshers
        BY <1>8, StoreAssumption
    <2>2. Progresses(mem', snap', proc')
        BY <1>2, <1>3, <1>4, <2>1, ProgressMoves
    <2>3. View' = [View EXCEPT ![p] = IF m.pc = "idle" THEN NoView
                                      ELSE [j \in Keys |-> Says(mem', Seen(m, j))]]
        BY <1>2, <1>3, <1>4, <1>8, ViewMoves
    <2>4. View[p] = [j \in Keys |-> Says(mem, Seen(proc[p], j))]
        BY <1>4, <1>8 DEF View
    <2>5. [j \in Keys |-> Says(mem', Seen(m, j))] = View[p]
        BY <1>6, <2>4
    <2>6. View' = View
        BY <1>4, <2>3, <2>5 DEF View
    <2>7. Market' = Market
        BY <1>2, <1>3, <1>4, MarketStays
    <2> QED BY <2>2, <2>6, <2>7 DEF Shows, Stays
<1> QED BY <1>7, <1>8 DEF Procs

\* A reader sees the market as it is when the pointer is loaded.
LEMMA ReadLoadShows ==
    ASSUME Shapes, Stages, Progresses(mem, snap, proc), NEW r \in Readers, ReadLoad(r)
    PROVE  Progresses(mem', snap', proc') /\ Shows
<1>1. /\ r \in Procs /\ r \notin Refreshers
      /\ snap \in Snapshots /\ Present(snap) \in SUBSET Keys /\ Blank \in Snapshots
    BY PresentThere, Blanks, StoreAssumption DEF Shapes, Procs
<1>2. Moves(r, "clone", snap, Blank, Present(snap)) /\ snap' = snap /\ mem' = mem /\ proc[r].pc = "idle"
    BY DEF ReadLoad
<1>3. PICK m \in ProcType : /\ proc' = [proc EXCEPT ![r] = m]
                            /\ m.pc = "clone" /\ m.base = snap /\ m.copy = Blank /\ m.todo = Present(snap)
    BY <1>1, <1>2, MovesIs
<1>4. Kind
    BY ReadLoadKind
<1>5. Progresses(mem', snap', proc') /\ Market' = Market
    BY <1>1, <1>2, <1>3, <1>4, ProgressMoves, MarketStays
<1>6. \A k \in Keys : Says(mem', Seen(m, k)) = Says(mem, snap[k])
    BY <1>2, <1>3, AllToDo
<1>7. View' = [View EXCEPT ![r] = IF m.pc = "idle" THEN NoView
                                  ELSE [k \in Keys |-> Says(mem', Seen(m, k))]]
    BY <1>1, <1>3, <1>4, ViewMoves
<1>8. [k \in Keys |-> Says(mem', Seen(m, k))] = Market
    BY <1>6 DEF Market
<1>9. View' = [View EXCEPT ![r] = Market] /\ View[r] = NoView
    BY <1>2, <1>3, <1>7, <1>8 DEF View
<1> QED BY <1>5, <1>9 DEF Shows, Observes

LEMMA ReadReturnShows ==
    ASSUME Shapes, Stages, Progresses(mem, snap, proc), NEW r \in Readers, ReadReturn(r)
    PROVE  Progresses(mem', snap', proc') /\ Shows
<1>1. r \in Procs /\ r \notin Refreshers /\ proc[r].copy \in Snapshots /\ Blank \in Snapshots /\ {} \in SUBSET Keys
    BY Had, Blanks, StoreAssumption DEF Procs
<1>2. Moves(r, "have", Blank, proc[r].copy, {}) /\ snap' = snap /\ proc[r].pc = "clone" /\ proc[r].todo = {}
    BY DEF ReadReturn
<1>3. PICK m \in ProcType : /\ proc' = [proc EXCEPT ![r] = m]
                            /\ m.pc = "have" /\ m.base = Blank /\ m.copy = proc[r].copy /\ m.todo = {}
    BY <1>1, <1>2, MovesIs
<1>4. Kind
    BY ReadReturnKind
<1>5. Progresses(mem', snap', proc') /\ Market' = Market
    BY <1>1, <1>2, <1>3, <1>4, ProgressMoves, MarketStays
<1>6. ASSUME NEW k \in Keys PROVE Says(mem', Seen(m, k)) = Says(mem, Seen(proc[r], k))
    <2>1. Seen(m, k) = proc[r].copy[k] /\ Seen(proc[r], k) = proc[r].copy[k]
        BY <1>2, <1>3 DEF Seen
    <2>2. proc[r].copy[k] \in {proc[r].base[k], proc[r].copy[k]} \cap {m.base[k], m.copy[k], snap'[k]}
        BY <1>3
    <2>3. Says(mem', proc[r].copy[k]) = Says(mem, proc[r].copy[k])
        BY <1>1, <1>3, <1>4, <2>2, KeptSays
    <2> QED BY <2>1, <2>3
<1>7. View' = [View EXCEPT ![r] = IF m.pc = "idle" THEN NoView
                                  ELSE [k \in Keys |-> Says(mem', Seen(m, k))]]
    BY <1>1, <1>3, <1>4, ViewMoves
<1>8. View[r] = [k \in Keys |-> Says(mem, Seen(proc[r], k))]
    BY <1>2 DEF View
<1>9. [k \in Keys |-> Says(mem', Seen(m, k))] = View[r]
    BY <1>6, <1>8
<1>10. View' = View
    BY <1>3, <1>7, <1>9 DEF View
<1> QED BY <1>5, <1>10 DEF Shows, Stays

\* What a reader sees is a market, so it is not NoView.
LEMMA SeesSomething ==
    ASSUME Shapes, NEW r \in Readers, proc[r].pc # "idle"
    PROVE  View[r] # NoView
<1>1. r \in Procs
    BY DEF Procs
<1>2. View[r] = [k \in Keys |-> Says(mem, Seen(proc[r], k))]
    BY DEF View
<1>3. View[r] \in [Keys -> Values \cup {Absent}]
    BY <1>1, <1>2, SaysType
<1> QED BY <1>3, StoreAssumption

LEMMA DropShows ==
    ASSUME Shapes, Stages, Progresses(mem, snap, proc), NEW r \in Readers, Drop(r)
    PROVE  Progresses(mem', snap', proc') /\ Shows
<1>1. r \in Procs /\ r \notin Refreshers /\ Blank \in Snapshots /\ {} \in SUBSET Keys
    BY Blanks, StoreAssumption DEF Procs
<1>2. Moves(r, "idle", Blank, Blank, {}) /\ snap' = snap /\ proc[r].pc = "have"
    BY DEF Drop
<1>3. PICK m \in ProcType : proc' = [proc EXCEPT ![r] = m] /\ m.pc = "idle"
    BY <1>1, <1>2, MovesIs
<1>4. Kind
    BY DropKind
<1>5. Progresses(mem', snap', proc') /\ Market' = Market
    BY <1>1, <1>2, <1>3, <1>4, ProgressMoves, MarketStays
<1>6. View' = [View EXCEPT ![r] = IF m.pc = "idle" THEN NoView
                                  ELSE [k \in Keys |-> Says(mem', Seen(m, k))]]
    BY <1>1, <1>3, <1>4, ViewMoves
<1>7. View' = [View EXCEPT ![r] = NoView]
    BY <1>3, <1>6
<1> QED BY <1>2, <1>5, <1>7, SeesSomething DEF Shows, Forgets

\* A caller that scribbles changes one entry of its own copy, and nothing that another has.
LEMMA ScribbleShows ==
    ASSUME Shapes, Stages, Apart(snap, proc), Progresses(mem, snap, proc), NEW p \in Procs, Scribble(p)
    PROVE  Progresses(mem', snap', proc') /\ Shows
<1>1. PICK c \in SlicesOf(Owned(p)), v \in Values : mem' = [mem EXCEPT ![c] = v]
    BY ScribbleKeeps
<1>2. snap' = snap /\ proc' = proc /\ mem \in [Reachable -> Values]
    BY ScribbleKeeps DEF Shapes
<1>3. PICK j \in Keys : c = Owned(p)[j].data /\ c # Nil
    BY DEF SlicesOf
<1>4. \/ Owned(p) = proc[p].copy /\ proc[p].pc = "have"
      \/ Owned(p) = proc[p].base /\ proc[p].pc \in {"unlock", "idle"} /\ p \in Refreshers
    BY <1>3, OwnedIs, Blanks
<1>5. \A e : e.data # c => Says(mem', e) = Says(mem, e)
    BY <1>1, <1>2 DEF Says
<1>6. \A k \in Keys : snap[k].data # c
    <2>1. Disjoint(Owned(p), snap)
        BY <1>4, Standing DEF Own
    <2> QED BY <1>3, <2>1 DEF Disjoint
<1>7. ASSUME NEW q \in Procs \ {p}, NEW k \in Keys
      PROVE  proc[q].base[k].data # c /\ proc[q].copy[k].data # c
    <2>1. Separate(proc[p], proc[q])
        BY Standing
    <2>2. Disjoint(Owned(p), proc[q].base) /\ Disjoint(Owned(p), proc[q].copy)
        BY <1>4, <2>1, DisjointFacts DEF Separate
    <2> QED BY <1>3, <2>2 DEF Disjoint
<1>8. Market' = Market
    BY <1>2, <1>5, <1>6 DEF Market
<1>9. \A q \in Procs \ {p}, k \in Keys : /\ Says(mem', Seen(proc[q], k)) = Says(mem, Seen(proc[q], k))
                                         /\ Says(mem', proc[q].copy[k]) = Says(mem, proc[q].copy[k])
    BY <1>5, <1>7 DEF Seen
<1>10. Progresses(mem', snap', proc')
    <2> SUFFICES ASSUME NEW w \in Refreshers PROVE Progress(mem', snap, w, proc[w])
        BY <1>2 DEF Progresses
    <2>1. Progress(mem, snap, w, proc[w])
        BY DEF Progresses
    <2>2. \A k \in Keys : Says(mem', snap[k]) = Says(mem, snap[k])
        BY <1>5, <1>6
    <2>3. CASE w = p
        BY <1>4, <2>3 DEF Progress
    <2>4. CASE w # p
        <3>1. w \in Procs \ {p}
            BY <2>4 DEF Procs
        <3> QED BY <1>9, <2>1, <2>2, <3>1 DEF Progress
    <2> QED BY <2>3, <2>4
<1>11. ASSUME NEW r \in Readers \ {p} PROVE \A k \in Keys : Says(mem', Seen(proc[r], k)) = Says(mem, Seen(proc[r], k))
    BY <1>9 DEF Procs
<1>12. CASE p \in Refreshers
    <2>1. p \notin Readers
        BY <1>12, StoreAssumption
    <2>2. \A r \in Readers, k \in Keys : Says(mem', Seen(proc[r], k)) = Says(mem, Seen(proc[r], k))
        BY <1>11, <2>1
    <2>3. View' = View
        BY <1>2, <2>2 DEF View
    <2> QED BY <1>8, <1>10, <2>3 DEF Shows, Stays
<1>13. CASE p \in Readers
    <2>1. Owned(p) = proc[p].copy /\ proc[p].pc = "have"
        BY <1>4, <1>13, StoreAssumption
    <2>2. proc[p].todo = {} /\ Named(proc[p].copy) /\ proc[p].copy \in Snapshots
        BY <2>1, Had DEF Stage
    <2>3. \A k \in Keys : Seen(proc[p], k) = proc[p].copy[k]
        BY <2>2 DEF Seen
    <2>4. Says(mem', proc[p].copy[j]) = v
        <3>1. c \in Reachable
            BY <1>3, <2>1, InUse
        <3> QED BY <1>1, <1>2, <1>3, <2>1, <3>1 DEF Says
    <2>5. ASSUME NEW k \in Keys \ {j} PROVE proc[p].copy[k].data # c
        BY <1>3, <2>1, <2>2, <2>5, Blanks DEF Named
    <2>6. ASSUME NEW k \in Keys
          PROVE  Says(mem', Seen(proc[p], k)) = IF k = j THEN v ELSE Says(mem, Seen(proc[p], k))
        BY <1>5, <2>3, <2>4, <2>5
    <2>7. View[p] = [k \in Keys |-> Says(mem, Seen(proc[p], k))]
        BY <1>13, <2>1 DEF View
    <2>8. [k \in Keys |-> Says(mem', Seen(proc[p], k))] = [View[p] EXCEPT ![j] = v]
        BY <2>6, <2>7
    <2> DEFINE V(mm, r) == IF proc[r].pc = "idle" THEN NoView ELSE [k \in Keys |-> Says(mm, Seen(proc[r], k))]
    <2>9. View = [r \in Readers |-> V(mem, r)] /\ View' = [r \in Readers |-> V(mem', r)]
        BY <1>2 DEF View
    <2>10. \A r \in Readers \ {p} : V(mem', r) = V(mem, r)
        BY <1>11
    <2>11. V(mem', p) = [View[p] EXCEPT ![j] = v]
        BY <2>1, <2>8
    <2> HIDE DEF V
    <2>12. View' = [View EXCEPT ![p] = [@ EXCEPT ![j] = v]]
        BY <1>13, <2>9, <2>10, <2>11
    <2>13. View[p] # NoView
        BY <1>13, <2>1, SeesSomething
    <2>14. Alters(p)
        BY <1>8, <2>12, <2>13 DEF Alters
    <2> QED BY <1>10, <1>13, <2>14 DEF Shows
<1> QED BY <1>12, <1>13 DEF Procs

LEMMA ShowsStep ==
    Shapes /\ Stages /\ Apart(snap, proc) /\ Progresses(mem, snap, proc) /\ [Next]_vars
        => Progresses(mem', snap', proc') /\ Shows
<1> SUFFICES ASSUME Shapes, Stages, Apart(snap, proc), Progresses(mem, snap, proc), [Next]_vars
             PROVE  Progresses(mem', snap', proc') /\ Shows
    OBVIOUS
<1>1. CASE UNCHANGED vars
    <2>1. mem' = mem /\ snap' = snap /\ proc' = proc
        BY <1>1 DEF vars
    <2> QED BY <2>1 DEF Shows, Stays, Market, View
<1>2. CASE Next
    BY <1>2, NextIs, ReadLoadShows, ReadReturnShows, DropShows, CopyEntryShows, ScribbleShows, LockShows,
       ToApplyShows, ApplyShows, ToSealShows, StoreShows, UnlockShows
<1> QED BY <1>1, <1>2

LEMMA InitShows == Init => Progresses(mem, snap, proc) /\ Promised!Init
<1> SUFFICES ASSUME Init PROVE Progresses(mem, snap, proc) /\ Promised!Init
    OBVIOUS
<1>1. \A p \in Procs : proc[p].pc = "idle"
    BY DEF Init, Resting
<1>2. Progresses(mem, snap, proc)
    BY <1>1 DEF Progresses, Progress, Procs
<1>3. Market = [k \in Keys |-> Absent]
    BY Blanks DEF Init, Market, Says
<1>4. View = [r \in Readers |-> NoView]
    BY <1>1 DEF View, Procs
<1> QED BY <1>2, <1>3, <1>4, Mapped

\* Every update of the market and every read of it is atomic: the market changes in one step
\* and only where there is news, a reader sees it as it was at one moment, and nothing a
\* caller writes into what it got shows anywhere else.
THEOREM StoreIsAtomic == Spec => Atomic
<1> DEFINE IInv == Shapes /\ Stages /\ Apart(snap, proc) /\ Progresses(mem, snap, proc)
<1>1. Init => IInv /\ Promised!Init
    BY InitKind, InitApart, InitShows
<1>2. IInv /\ [Next]_vars => IInv'
    BY ShapesStep, ApartStep, ShowsStep
<1>3. IInv /\ [Next]_vars => [Promised!Next]_(Promised!vars)
    BY ShowsStep, ShownStep
<1> QED BY <1>1, <1>2, <1>3, PTL DEF Spec, Atomic, Promised!Spec
=============================================================================
