---------------------------- MODULE ServiceProofs ----------------------------
(***************************************************************************)
(* Proofs about Service, for any users, workers, migrations and versions,  *)
(* any number of calculations kept and any number of failures and crashes. *)
(* Control says in whose hands the database is; the schema, the history    *)
(* and the readiness each have an invariant that stands on it.             *)
(***************************************************************************)
EXTENDS Service, FiniteSetTheorems, TLAPS

InTx == {"insert", "trim", "commit"}

\* Nothing runs but in a process that is up, no update is in work but in the bot, and the
\* transaction belongs to the one that is inside of it.
Control ==
    /\ pc # "up" => group = AllOff
    /\ pc = "down" => file = 1 /\ ~executed
    /\ executed => pc = "open" /\ file <= version
    /\ pc = "open" => tx # None /\ tx.owner = "init"
    /\ group["bot"] # "on" => \A w \in Workers : work[w] = Idle
    /\ \A w \in Workers : work[w].pc \in InTx => tx # None /\ tx.owner = w

TypeInv == TypeOK /\ Control

\* The values that steps assign have their types.
LEMMA Values ==
    /\ NewDisk \in DiskType /\ Idle \in JobType /\ NoProbe \in ProbeType
    /\ AllOff \in [Goroutines -> {"off", "on", "ended"}] /\ AllOff["bot"] = "off"
    /\ 1 \in 1..(Migrations + 1)
    BY StorageAssumption DEF NewDisk, DiskType, Idle, JobType, NoProbe, ProbeType, AllOff, Goroutines

LEMMA TypeInit == Init => TypeInv
<1> SUFFICES ASSUME Init PROVE TypeInv
    OBVIOUS
<1>1. TypeOK
    <2>1. quotes \in 0..MaxQuotes /\ faults \in 0..MaxFaults
        BY ServiceAssumption DEF Init
    <2>2. work \in [Workers -> JobType]
        BY Values DEF Init
    <2> QED BY <2>1, <2>2, Values DEF Init, TypeOK
<1>2. Control
    BY Values DEF Init, Control, Idle, InTx
<1> QED BY <1>1, <1>2 DEF TypeInv

-----------------------------------------------------------------------------
(* Transactions. *)

\* A transaction that is begun, written to, committed or given up.
LEMMA Transactions ==
    ASSUME TypeOK
    PROVE  /\ \A who \in Workers \cup {"init"} :
                 BeginTx(who) => /\ tx' \in TxType /\ tx' # None /\ tx'.owner = who /\ tx'.data = disk
                                 /\ tx = None /\ disk' = disk
           /\ \A data \in DiskType :
                 tx # None /\ Write(data) => /\ tx' \in TxType /\ tx' # None
                                             /\ tx'.owner = tx.owner /\ tx'.data = data /\ disk' = disk
           /\ tx # None /\ Commit => disk' \in DiskType /\ disk' = tx.data /\ tx' = None
           /\ \A who : Rollback(who) => /\ tx' = None \/ (tx' = tx /\ (tx = None \/ tx.owner # who))
                                        /\ disk' = disk
<1>0. disk \in DiskType /\ (tx # None => tx \in TxType) /\ None \notin TxType
    BY ServiceAssumption DEF TypeOK
<1>1. ASSUME NEW who \in Workers \cup {"init"}, BeginTx(who)
      PROVE  /\ tx' \in TxType /\ tx' # None /\ tx'.owner = who /\ tx'.data = disk
             /\ tx = None /\ disk' = disk
    BY <1>0, <1>1 DEF BeginTx, Connected, TxType
<1>2. ASSUME NEW data \in DiskType, tx # None, Write(data)
      PROVE  /\ tx' \in TxType /\ tx' # None
             /\ tx'.owner = tx.owner /\ tx'.data = data /\ disk' = disk
    BY <1>0, <1>2 DEF Write, TxType
<1>3. tx # None /\ Commit => disk' \in DiskType /\ disk' = tx.data /\ tx' = None
    BY <1>0 DEF Commit, TxType
<1>4. ASSUME NEW who, Rollback(who)
      PROVE  /\ tx' = None \/ (tx' = tx /\ (tx = None \/ tx.owner # who))
             /\ disk' = disk
    BY <1>4 DEF Rollback, AfterError
<1> QED BY <1>1, <1>2, <1>3, <1>4

\* The contents that steps write have the type of contents.
LEMMA Contents ==
    ASSUME NEW d \in DiskType
    PROVE  /\ \A f \in 1..Migrations : [d EXCEPT !.tables = @ \cup {f}] \in DiskType
           /\ \A f \in 1..Migrations : [d EXCEPT !.applied = @ \cup {f}] \in DiskType
           /\ \A rows \in SUBSET RowType : [d EXCEPT !.rows = rows] \in DiskType
           /\ \A row \in RowType, id \in Nat : [d EXCEPT !.rows = @ \cup {row}, !.last = id] \in DiskType
    BY DEF DiskType

\* Between its first and its last statement the transaction of the start or of a worker stands.
LEMMA OwnTx ==
    ASSUME TypeInv
    PROVE  /\ pc = "open" => tx # None /\ tx \in TxType /\ tx.owner = "init" /\ tx.data \in DiskType
           /\ \A w \in Workers : work[w].pc \in InTx =>
                 /\ tx # None /\ tx \in TxType /\ tx.owner = w /\ tx.data \in DiskType
                 /\ pc = "up" /\ group["bot"] = "on"
<1>1. tx # None => tx \in TxType /\ tx.data \in DiskType
    BY DEF TypeInv, TypeOK, TxType
<1>2. ASSUME NEW w \in Workers, work[w].pc \in InTx PROVE pc = "up" /\ group["bot"] = "on"
    BY <1>2, Values DEF TypeInv, Control, Idle, InTx
<1> QED BY <1>1, <1>2 DEF TypeInv, Control

-----------------------------------------------------------------------------
(* Types and control. *)

\* Everything is gone but what was committed, and nobody is left with a transaction.
LEMMA TypeGone ==
    ASSUME TypeInv, Gone, disk' = disk, tx' = None, faults' \in 0..MaxFaults
    PROVE  TypeInv'
<1>1. TypeOK'
    BY Values DEF TypeInv, TypeOK, Gone, history
<1>2. Control'
    BY DEF Gone, Control, Idle, InTx
<1> QED BY <1>1, <1>2 DEF TypeInv

\* A step of the start.
LEMMA TypeOpens ==
    ASSUME TypeInv, Start \/ Opens
    PROVE  TypeInv'
<1>0. /\ tx # None => tx.owner \in Workers \cup {"init"}
      /\ version \in Nat /\ version <= Migrations /\ Versions \subseteq 1..Migrations
    BY ServiceAssumption DEF TypeInv, TypeOK, TxType
<1>1. CASE Start
    <2>1. tx' \in TxType /\ tx' # None /\ tx'.owner = "init" /\ tx = None /\ disk' = disk
        BY <1>1, Transactions DEF Start, TypeInv
    <2>2. TypeOK'
        BY <1>1, <2>1 DEF Start, TypeInv, TypeOK, running, history
    <2>3. Control'
        BY <1>1, <2>1 DEF Start, TypeInv, Control, running, InTx
    <2> QED BY <2>2, <2>3 DEF TypeInv
<1>2. CASE Skip
    <2>1. file \in 1..Migrations /\ file + 1 \in 1..(Migrations + 1)
        BY <1>0, <1>2, StorageAssumption DEF Skip, Opening, TypeInv, TypeOK
    <2>2. TypeOK'
        BY <1>2, <2>1 DEF Skip, Opening, TypeInv, TypeOK, storage, running, history
    <2>3. Control'
        BY <1>2 DEF Skip, Opening, TypeInv, Control, storage, running
    <2> QED BY <2>2, <2>3 DEF TypeInv
<1>3. CASE Migrate
    <2>1. file \in 1..Migrations
        BY <1>0, <1>3, StorageAssumption DEF Migrate, Opening, TypeInv, TypeOK
    <2>2. tx # None /\ tx.data \in DiskType /\ tx.owner = "init"
        BY <1>3, OwnTx DEF Migrate, Opening
    <2>3. tx' \in TxType /\ tx' # None /\ tx'.owner = "init" /\ disk' = disk
        BY <1>3, <2>1, <2>2, Contents, Transactions DEF Migrate, Exec, TypeInv
    <2>4. TypeOK'
        BY <1>3, <2>3 DEF Migrate, Opening, TypeInv, TypeOK, running, history
    <2>5. Control'
        BY <1>3, <2>2, <2>3, ServiceAssumption DEF Migrate, Opening, TypeInv, Control, running
    <2> QED BY <2>4, <2>5 DEF TypeInv
<1>4. CASE RecordVersion
    <2>1. file \in 1..Migrations /\ file + 1 \in 1..(Migrations + 1)
        BY <1>0, <1>4, StorageAssumption DEF RecordVersion, Opening, TypeInv, TypeOK
    <2>2. tx # None /\ tx.data \in DiskType /\ tx.owner = "init"
        BY <1>4, OwnTx DEF RecordVersion, Opening
    <2>3. tx' \in TxType /\ tx' # None /\ tx'.owner = "init" /\ disk' = disk
        BY <1>4, <2>1, <2>2, Contents, Transactions DEF RecordVersion, Record, TypeInv
    <2>4. TypeOK'
        BY <1>4, <2>1, <2>3 DEF RecordVersion, Opening, TypeInv, TypeOK, running, history
    <2>5. Control'
        BY <1>4, <2>2, <2>3, ServiceAssumption DEF RecordVersion, Opening, TypeInv, Control, running
    <2> QED BY <2>4, <2>5 DEF TypeInv
<1>5. CASE CommitSchema
    <2>1. tx # None /\ tx.owner = "init"
        BY <1>5, OwnTx DEF CommitSchema
    <2>2. disk' \in DiskType /\ tx' = None
        BY <1>5, <2>1, Transactions DEF CommitSchema, TypeInv
    <2>3. TypeOK'
        BY <1>5, <2>2 DEF CommitSchema, TypeInv, TypeOK, running, history
    <2>4. Control'
        BY <1>5, <2>1, ServiceAssumption DEF CommitSchema, TypeInv, TypeOK, Control, running
    <2> QED BY <2>3, <2>4 DEF TypeInv
<1>6. CASE Launch
    <2>1. TypeOK'
        BY <1>6 DEF Launch, TypeInv, TypeOK, storage, history
    <2>2. Control'
        BY <1>6 DEF Launch, TypeInv, Control, storage
    <2> QED BY <2>1, <2>2 DEF TypeInv
<1> QED BY <1>1, <1>2, <1>3, <1>4, <1>5, <1>6 DEF Opens

\* A goroutine begins or ends, or the process is told to stop.
LEMMA TypeGroup ==
    ASSUME TypeInv, UNCHANGED <<storage, process, work, probe, history, quotes>>,
           pc = "up", stopping' \in BOOLEAN, started' \in BOOLEAN, telegramReady' \in BOOLEAN,
           faults' \in 0..MaxFaults,
           \/ group' = group
           \/ \E g \in Goroutines, s \in {"on", "ended"} : group' = [group EXCEPT ![g] = s],
           group'["bot"] # "on" => \A w \in Workers : work[w] = Idle
    PROVE  TypeInv'
<1>1. TypeOK'
    BY DEF TypeInv, TypeOK, storage, process, history
<1>2. Control'
    BY DEF TypeInv, Control, storage, process
<1> QED BY <1>1, <1>2 DEF TypeInv

\* The goroutines that run belong to a process that is up.
LEMMA Up == ASSUME TypeInv, NEW g \in Goroutines, group[g] # "off" PROVE pc = "up"
    BY DEF TypeInv, Control, AllOff

LEMMA TypeRuns ==
    ASSUME TypeInv, (\E g \in Goroutines : Runs(g)) \/ Stops \/ ServerFails \/ Signal
    PROVE  TypeInv'
<1>0. /\ group \in [Goroutines -> {"off", "on", "ended"}]
      /\ stopping \in BOOLEAN /\ started \in BOOLEAN /\ telegramReady \in BOOLEAN
      /\ faults \in 0..MaxFaults /\ MaxFaults \in Nat
      /\ {"bot", "market", "server", "stopper"} = Goroutines
    BY ServiceAssumption DEF TypeInv, TypeOK, Goroutines
<1>1. Fault => faults' \in 0..MaxFaults
    BY <1>0 DEF Fault
<1>2. ASSUME NEW g \in Goroutines, NEW s \in {"on", "ended"}, group' = [group EXCEPT ![g] = s],
             g = "bot" => s = "on" \/ \A w \in Workers : work[w] = Idle
      PROVE  group'["bot"] # "on" => \A w \in Workers : work[w] = Idle
    BY <1>0, <1>2 DEF TypeInv, Control
<1>3. ASSUME NEW g \in Goroutines, Runs(g) PROVE TypeInv'
    BY <1>0, <1>2, <1>3, TypeGroup DEF Runs, Goroutines
<1>4. CASE BotEnds
    BY <1>0, <1>2, <1>4, Up, TypeGroup DEF BotEnds, Ends
<1>5. CASE MarketEnds
    BY <1>0, <1>2, <1>5, Up, TypeGroup DEF MarketEnds, Ends, AfterMarket
<1>6. CASE ServerEnds
    BY <1>0, <1>2, <1>6, Up, TypeGroup DEF ServerEnds, Ends
<1>7. CASE ShutdownEnds
    BY <1>0, <1>2, <1>7, Up, TypeGroup DEF ShutdownEnds, Ends
<1>8. CASE ServerFails
    BY <1>0, <1>1, <1>2, <1>8, Up, TypeGroup DEF ServerFails, Ends, WithItsError
<1>9. CASE Signal
    BY <1>0, <1>1, <1>9, TypeGroup DEF Signal, TypeInv, Control
<1>10. CASE Exit
    <2>1. \A w \in Workers : work[w] = Idle
        BY <1>0, <1>10 DEF Exit, TypeInv, Control
    <2>2. tx = None
        BY <1>10, <2>1 DEF Exit, TypeInv, TypeOK, Idle
    <2> QED BY <1>0, <1>10, <2>2, TypeGone DEF Exit, storage
<1> QED BY <1>3, <1>4, <1>5, <1>6, <1>7, <1>8, <1>9, <1>10 DEF Stops

\* What takes the process down.
LEMMA TypeFalls == ASSUME TypeInv, StartFails \/ Crash PROVE TypeInv'
<1>0. faults \in 0..MaxFaults /\ MaxFaults \in Nat
    BY ServiceAssumption DEF TypeInv, TypeOK
<1>1. CASE StartFails
    <2>1. faults' \in 0..MaxFaults
        BY <1>0, <1>1 DEF StartFails, Fault
    <2>2. disk' = disk /\ (tx' = None \/ (tx' = tx /\ (tx = None \/ tx.owner # "init")))
        BY <1>1, Transactions DEF StartFails, TypeInv
    <2>3. \A w \in Workers : work[w] = Idle
        BY <1>1, Values DEF StartFails, TypeInv, Control
    <2>4. tx = None \/ tx.owner = "init"
        BY <2>3 DEF TypeInv, TypeOK, Idle
    <2>5. tx' = None
        BY <2>2, <2>4
    <2> QED BY <1>1, <2>1, <2>2, <2>5, TypeGone DEF StartFails
<1>2. CASE Crash
    <2>1. faults' \in 0..MaxFaults
        BY <1>0, <1>2 DEF Crash, Fault
    <2> QED BY <1>2, <2>1, TypeGone DEF Crash
<1> QED BY <1>1, <1>2

\* A worker takes a step with its job while the bot runs.
LEMMA TypeWorks ==
    ASSUME TypeInv, NEW w \in Workers, NEW j \in JobType, work' = [work EXCEPT ![w] = j],
           UNCHANGED <<process, running, probe>>, group["bot"] = "on",
           disk' \in DiskType, tx' \in TxType \cup {None},
           tx' # None => tx'.owner = w \/ tx' = tx,
           tx # None /\ tx.owner # w => tx' = tx,
           j.pc \in InTx <=> (tx' # None /\ tx'.owner = w),
           buttons' \subseteq RowType, saved' \subseteq RowType,
           quotes' \in 0..MaxQuotes, faults' \in 0..MaxFaults
    PROVE  TypeInv'
<1>1. /\ work' \in [Workers -> JobType] /\ work'[w] = j
      /\ \A v \in Workers \ {w} : work'[v] = work[v]
    BY DEF TypeInv, TypeOK
<1>2. pc = "up"
    BY Values DEF TypeInv, Control
<1>3. tx' # None => tx'.owner \in Workers /\ work'[tx'.owner].pc \in InTx
    <2>1. CASE tx' # None /\ tx'.owner = w
        BY <1>1, <2>1
    <2>2. CASE tx' # None /\ tx'.owner # w
        BY <1>1, <1>2, <2>2 DEF TypeInv, TypeOK, InTx
    <2> QED BY <2>1, <2>2
<1>4. TypeOK'
    BY <1>1, <1>3 DEF TypeInv, TypeOK, process, running, InTx
<1>5. Control'
    <2>1. ASSUME NEW v \in Workers, work'[v].pc \in InTx PROVE tx' # None /\ tx'.owner = v
        <3>1. CASE v = w
            BY <1>1, <2>1, <3>1
        <3>2. CASE v # w
            <4>1. tx # None /\ tx.owner = v
                BY <1>1, <2>1, <3>2 DEF TypeInv, Control
            <4> QED BY <3>2, <4>1
        <3> QED BY <3>1, <3>2
    <2> QED BY <1>2, <2>1 DEF TypeInv, Control, process, running
<1> QED BY <1>4, <1>5 DEF TypeInv

\* The fields of a job that is not idle.
LEMMA Jobs ==
    ASSUME NEW j \in JobType
    PROVE  /\ j.pc = "idle" \/ j.pc \in Saving \cup {"send"}
           /\ j.pc # "idle" => /\ j.user \in Users /\ j.calc \in 1..MaxQuotes /\ j.id \in Nat
                               /\ \A to \in Saving \cup {"send"} :
                                     /\ [j EXCEPT !.pc = to] \in JobType /\ [j EXCEPT !.pc = to].pc = to
                                     /\ \A id \in Nat :
                                           /\ [j EXCEPT !.pc = to, !.id = id] \in JobType
                                           /\ [j EXCEPT !.pc = to, !.id = id].pc = to
                               /\ [id |-> j.id, user |-> j.user, calc |-> j.calc] \in RowType
<1>1. CASE j \in [pc : {"idle"}]
    BY <1>1 DEF Saving
<1>2. CASE j \in [pc : Saving \cup {"send"}, user : Users, calc : 1..MaxQuotes, id : Nat]
    <2>1. j.pc \in Saving \cup {"send"} /\ j.user \in Users /\ j.calc \in 1..MaxQuotes /\ j.id \in Nat
        BY <1>2
    <2>2. [id |-> j.id, user |-> j.user, calc |-> j.calc] \in RowType
        BY <2>1, ServiceAssumption DEF RowType
    <2>3. ASSUME NEW to \in Saving \cup {"send"}
          PROVE  /\ [j EXCEPT !.pc = to] \in JobType /\ [j EXCEPT !.pc = to].pc = to
                 /\ \A id \in Nat : /\ [j EXCEPT !.pc = to, !.id = id] \in JobType
                                    /\ [j EXCEPT !.pc = to, !.id = id].pc = to
        BY <1>2 DEF JobType
    <2> QED BY <2>1, <2>2, <2>3
<1> QED BY <1>1, <1>2 DEF JobType

Row(j) == [id |-> j.id, user |-> j.user, calc |-> j.calc]

\* The steps of a calculation, seen from the database.
LEMMA SaveSteps ==
    ASSUME TypeInv, NEW w \in Workers, Save(w)
    PROVE  LET j == work[w] IN
           /\ j \in JobType /\ j.user \in Users /\ j.calc \in 1..MaxQuotes /\ j.id \in Nat /\ Row(j) \in RowType
           /\ group["bot"] = "on" /\ pc = "up"
           /\ UNCHANGED <<process, running, probe, buttons, quotes, faults>>
           /\ \/ /\ j.pc = "begin" /\ work' = [work EXCEPT ![w] = [j EXCEPT !.pc = "insert"]]
                 /\ tx = None /\ tx' \in TxType /\ tx' # None /\ tx'.owner = w /\ tx'.data = disk
                 /\ disk' = disk /\ saved' = saved
              \/ /\ j.pc = "insert"
                 /\ work' = [work EXCEPT ![w] = [j EXCEPT !.pc = "trim", !.id = tx.data.last + 1]]
                 /\ tx # None /\ tx.owner = w /\ tx \in TxType /\ tx.data \in DiskType
                 /\ tx' \in TxType /\ tx' # None /\ tx'.owner = w
                 /\ tx'.data = [tx.data EXCEPT
                        !.rows = @ \cup {[id |-> tx.data.last + 1, user |-> j.user, calc |-> j.calc]},
                        !.last = tx.data.last + 1]
                 /\ disk' = disk /\ saved' = saved
              \/ /\ j.pc = "trim" /\ work' = [work EXCEPT ![w] = [j EXCEPT !.pc = "commit"]]
                 /\ tx # None /\ tx.owner = w /\ tx \in TxType /\ tx.data \in DiskType
                 /\ tx' \in TxType /\ tx' # None /\ tx'.owner = w
                 /\ tx'.data = [tx.data EXCEPT !.rows = Kept(j.user, tx.data.rows)]
                 /\ disk' = disk /\ saved' = saved
              \/ /\ j.pc = "commit" /\ work' = [work EXCEPT ![w] = [j EXCEPT !.pc = "send"]]
                 /\ tx # None /\ tx.owner = w /\ tx \in TxType /\ tx.data \in DiskType
                 /\ tx' = None /\ disk' = tx.data /\ disk' \in DiskType
                 /\ saved' = saved \cup {Row(j)}
<1> DEFINE j == work[w]
<1>1. j \in JobType /\ j.pc \in Saving
    BY DEF TypeInv, TypeOK, Save, Saving
<1>2. /\ j.user \in Users /\ j.calc \in 1..MaxQuotes /\ j.id \in Nat /\ Row(j) \in RowType
    BY <1>1, Jobs DEF Saving, Row
<1>3. group["bot"] = "on" /\ pc = "up"
    <2>1. work[w] # Idle
        BY <1>1 DEF Idle, Saving
    <2> QED BY <2>1, Values DEF TypeInv, Control
<1>4. UNCHANGED <<process, running, probe, buttons, quotes, faults>>
    BY DEF Save, Goes, Does
<1>5. j.pc \in InTx => tx # None /\ tx \in TxType /\ tx.owner = w /\ tx.data \in DiskType
    BY OwnTx
<1>6. TypeOK
    BY DEF TypeInv
<1>7. CASE j.pc = "begin"
    <2>1. BeginTx(w) /\ Goes(w, "insert") /\ saved' = saved
        BY <1>7 DEF Save
    <2>2. /\ tx' \in TxType /\ tx' # None /\ tx'.owner = w /\ tx'.data = disk
          /\ tx = None /\ disk' = disk
        BY <1>6, <2>1, Transactions
    <2>3. work' = [work EXCEPT ![w] = [j EXCEPT !.pc = "insert"]]
        BY <2>1 DEF Goes, Does
    <2> QED BY <1>1, <1>2, <1>3, <1>4, <1>7, <2>1, <2>2, <2>3
<1>8. CASE j.pc = "insert"
    <2> DEFINE id   == tx.data.last + 1
               data == [tx.data EXCEPT !.rows = @ \cup {[id |-> id, user |-> j.user, calc |-> j.calc]},
                                       !.last = id]
    <2>1. /\ Write(data) /\ saved' = saved
          /\ work' = [work EXCEPT ![w] = [j EXCEPT !.pc = "trim", !.id = id]]
        BY <1>8 DEF Save, Insert, Does
    <2>2. tx # None /\ tx \in TxType /\ tx.owner = w /\ tx.data \in DiskType
        BY <1>5, <1>8 DEF InTx
    <2>3. id \in Nat
        BY <2>2 DEF DiskType
    <2>4. [id |-> id, user |-> j.user, calc |-> j.calc] \in RowType
        BY <1>2, <2>3, ServiceAssumption DEF RowType
    <2>5. data \in DiskType
        BY <2>2, <2>3, <2>4 DEF DiskType
    <2> HIDE DEF data, id
    <2>6. tx' \in TxType /\ tx' # None /\ tx'.owner = w /\ tx'.data = data /\ disk' = disk
        BY <1>6, <2>1, <2>2, <2>5, Transactions
    <2> QED BY <1>1, <1>2, <1>3, <1>4, <1>8, <2>1, <2>2, <2>6 DEF data, id
<1>9. CASE j.pc = "trim"
    <2> DEFINE data == [tx.data EXCEPT !.rows = Kept(j.user, tx.data.rows)]
    <2>1. tx # None /\ tx \in TxType /\ tx.owner = w /\ tx.data \in DiskType
        BY <1>5, <1>9 DEF InTx
    <2>2. data = [tx.data EXCEPT !.rows = Kept(j.user, @)]
        BY <2>1 DEF DiskType
    <2>3. /\ Write(data) /\ saved' = saved
          /\ work' = [work EXCEPT ![w] = [j EXCEPT !.pc = "commit"]]
        BY <1>9, <2>2 DEF Save, Trim, Goes, Does
    <2>4. data \in DiskType
        BY <2>1 DEF DiskType, Kept
    <2> HIDE DEF data
    <2>5. tx' \in TxType /\ tx' # None /\ tx'.owner = w /\ tx'.data = data /\ disk' = disk
        BY <1>6, <2>1, <2>3, <2>4, Transactions
    <2> QED BY <1>1, <1>2, <1>3, <1>4, <1>9, <2>1, <2>3, <2>5 DEF data
<1>10. CASE j.pc = "commit"
    <2>1. /\ Commit /\ saved' = saved \cup {Row(j)}
          /\ work' = [work EXCEPT ![w] = [j EXCEPT !.pc = "send"]]
        BY <1>10 DEF Save, Goes, Does, Row
    <2>2. tx # None /\ tx \in TxType /\ tx.owner = w /\ tx.data \in DiskType
        BY <1>5, <1>10 DEF InTx
    <2>3. tx' = None /\ disk' = tx.data /\ disk' \in DiskType
        BY <1>6, <2>1, <2>2, Transactions
    <2> QED BY <1>1, <1>2, <1>3, <1>4, <1>10, <2>1, <2>2, <2>3
<1> QED BY <1>1, <1>7, <1>8, <1>9, <1>10 DEF Saving

LEMMA TypeSave == ASSUME TypeInv, NEW w \in Workers, Save(w) PROVE TypeInv'
<1> DEFINE j == work[w]
<1>1. /\ disk \in DiskType /\ saved \subseteq RowType /\ buttons \subseteq RowType
      /\ quotes \in 0..MaxQuotes /\ faults \in 0..MaxFaults
    BY DEF TypeInv, TypeOK
<1>2. /\ j \in JobType /\ Row(j) \in RowType /\ group["bot"] = "on"
      /\ UNCHANGED <<process, running, probe, buttons, quotes, faults>>
    BY SaveSteps
<1>3. j.pc # "idle" =>
         \A to \in Saving \cup {"send"} :
            /\ [j EXCEPT !.pc = to] \in JobType /\ [j EXCEPT !.pc = to].pc = to
            /\ \A id \in Nat : /\ [j EXCEPT !.pc = to, !.id = id] \in JobType
                               /\ [j EXCEPT !.pc = to, !.id = id].pc = to
    BY <1>2, Jobs
<1> HIDE DEF j
<1>4. CASE /\ j.pc = "begin" /\ work' = [work EXCEPT ![w] = [j EXCEPT !.pc = "insert"]]
           /\ tx = None /\ tx' \in TxType /\ tx' # None /\ tx'.owner = w
           /\ disk' = disk /\ saved' = saved
    <2>1. [j EXCEPT !.pc = "insert"] \in JobType /\ [j EXCEPT !.pc = "insert"].pc \in InTx
        BY <1>3, <1>4 DEF Saving, InTx
    <2> QED BY <1>1, <1>2, <1>4, <2>1, TypeWorks
<1>5. CASE /\ j.pc = "insert"
           /\ work' = [work EXCEPT ![w] = [j EXCEPT !.pc = "trim", !.id = tx.data.last + 1]]
           /\ tx # None /\ tx.owner = w /\ tx.data \in DiskType
           /\ tx' \in TxType /\ tx' # None /\ tx'.owner = w
           /\ disk' = disk /\ saved' = saved
    <2>1. tx.data.last + 1 \in Nat
        BY <1>5 DEF DiskType
    <2>2. /\ [j EXCEPT !.pc = "trim", !.id = tx.data.last + 1] \in JobType
          /\ [j EXCEPT !.pc = "trim", !.id = tx.data.last + 1].pc \in InTx
        BY <1>3, <1>5, <2>1 DEF Saving, InTx
    <2> QED BY <1>1, <1>2, <1>5, <2>2, TypeWorks
<1>6. CASE /\ j.pc = "trim" /\ work' = [work EXCEPT ![w] = [j EXCEPT !.pc = "commit"]]
           /\ tx # None /\ tx.owner = w /\ tx' \in TxType /\ tx' # None /\ tx'.owner = w
           /\ disk' = disk /\ saved' = saved
    <2>1. [j EXCEPT !.pc = "commit"] \in JobType /\ [j EXCEPT !.pc = "commit"].pc \in InTx
        BY <1>3, <1>6 DEF Saving, InTx
    <2> QED BY <1>1, <1>2, <1>6, <2>1, TypeWorks
<1>7. CASE /\ j.pc = "commit" /\ work' = [work EXCEPT ![w] = [j EXCEPT !.pc = "send"]]
           /\ tx # None /\ tx.owner = w /\ tx' = None /\ disk' \in DiskType
           /\ saved' = saved \cup {Row(j)}
    <2>1. [j EXCEPT !.pc = "send"] \in JobType /\ [j EXCEPT !.pc = "send"].pc = "send"
        BY <1>3, <1>7
    <2>2. "send" \notin InTx
        BY DEF InTx
    <2>3. [j EXCEPT !.pc = "send"].pc \notin InTx
        BY <2>1, <2>2
    <2> QED BY <1>1, <1>2, <1>7, <2>1, <2>3, TypeWorks
<1> QED BY <1>4, <1>5, <1>6, <1>7, SaveSteps DEF j

\* The steps of a worker that are not Save.
LEMMA WorkSteps ==
    ASSUME TypeInv, NEW w \in Workers, Ask(w) \/ SaveFails(w) \/ Reply(w)
    PROVE  /\ UNCHANGED <<process, running, probe, saved>> /\ disk' = disk
           /\ group["bot"] = "on" /\ quotes' \in 0..MaxQuotes /\ faults' \in 0..MaxFaults
           /\ \/ /\ work[w] = Idle /\ tx' = tx /\ buttons' = buttons
                 /\ \E j \in JobType : work' = [work EXCEPT ![w] = j] /\ j.pc = "begin"
              \/ /\ work' = [work EXCEPT ![w] = Idle] /\ work[w].pc \in Saving /\ buttons' = buttons
                 /\ tx' = None \/ (tx' = tx /\ (tx = None \/ tx.owner # w))
                 /\ tx # None /\ tx.owner # w => tx' = tx
              \/ /\ work' = [work EXCEPT ![w] = Idle] /\ work[w].pc = "send" /\ tx' = tx
                 /\ Row(work[w]) \in RowType
                 /\ buttons' = buttons \/ buttons' = buttons \cup {Row(work[w])}
<1>1. /\ work[w] \in JobType /\ quotes \in 0..MaxQuotes /\ faults \in 0..MaxFaults
      /\ MaxQuotes \in Nat /\ MaxFaults \in Nat
    BY ServiceAssumption DEF TypeInv, TypeOK
<1>2. work[w] # Idle => group["bot"] = "on"
    BY DEF TypeInv, Control
<1>3. CASE Ask(w)
    <2>1. PICK u \in Users : Does(w, [pc |-> "begin", user |-> u, calc |-> quotes', id |-> 0])
        BY <1>3 DEF Ask
    <2>2. quotes' \in 1..MaxQuotes
        BY <1>1, <1>3 DEF Ask
    <2>3. [pc |-> "begin", user |-> u, calc |-> quotes', id |-> 0] \in JobType
        BY <2>2 DEF JobType, Saving
    <2>4. /\ work' = [work EXCEPT ![w] = [pc |-> "begin", user |-> u, calc |-> quotes', id |-> 0]]
          /\ UNCHANGED <<process, running, probe>>
        BY <2>1 DEF Does
    <2>5. /\ UNCHANGED <<storage, history, faults>> /\ group["bot"] = "on" /\ work[w] = Idle
        BY <1>3 DEF Ask
    <2>6. \E j \in JobType : work' = [work EXCEPT ![w] = j] /\ j.pc = "begin"
        BY <2>3, <2>4
    <2>7. quotes' \in 0..MaxQuotes
        BY <1>1, <2>2
    <2> QED BY <1>1, <2>4, <2>5, <2>6, <2>7 DEF storage, history
<1>4. CASE SaveFails(w)
    <2>1. work[w].pc \in Saving /\ work[w] # Idle
        BY <1>4 DEF SaveFails, Idle, Saving
    <2>2. /\ disk' = disk /\ UNCHANGED <<history, quotes>>
          /\ tx' = IF tx # None /\ tx.owner = w THEN None ELSE tx
        BY <1>4 DEF SaveFails, Rollback, AfterError
    <2>3. work' = [work EXCEPT ![w] = Idle] /\ UNCHANGED <<process, running, probe>>
        BY <1>4 DEF SaveFails, Does, AfterLostSave
    <2>4. faults' \in 0..MaxFaults
        BY <1>1, <1>4 DEF SaveFails, Fault
    <2> QED BY <1>1, <1>2, <2>1, <2>2, <2>3, <2>4 DEF history
<1>5. CASE Reply(w)
    <2>1. work[w].pc = "send" /\ work[w] # Idle
        BY <1>5 DEF Reply, Idle
    <2>2. Row(work[w]) \in RowType
        BY <1>1, <2>1, Jobs DEF Row
    <2>3. /\ UNCHANGED <<storage, saved, quotes, faults>>
          /\ buttons' = buttons \/ buttons' = buttons \cup {Row(work[w])}
        BY <1>5 DEF Reply, Row
    <2>4. work' = [work EXCEPT ![w] = Idle] /\ UNCHANGED <<process, running, probe>>
        BY <1>5 DEF Reply, Does
    <2> QED BY <1>1, <1>2, <2>1, <2>2, <2>3, <2>4 DEF storage
<1> QED BY <1>3, <1>4, <1>5

LEMMA TypeWork ==
    ASSUME TypeInv, NEW w \in Workers, Ask(w) \/ SaveFails(w) \/ Reply(w)
    PROVE  TypeInv'
<1>1. /\ disk \in DiskType /\ tx \in TxType \cup {None} /\ None \notin TxType
      /\ saved \subseteq RowType /\ buttons \subseteq RowType
      /\ Idle \in JobType /\ Idle.pc \notin InTx
    BY ServiceAssumption, Values DEF TypeInv, TypeOK, Idle, InTx
<1>2. work[w].pc \notin InTx => ~(tx # None /\ tx.owner = w)
    BY ServiceAssumption DEF TypeInv, TypeOK, InTx
<1>3. /\ UNCHANGED <<process, running, probe, saved>> /\ disk' = disk
      /\ group["bot"] = "on" /\ quotes' \in 0..MaxQuotes /\ faults' \in 0..MaxFaults
    BY WorkSteps
<1>4. CASE /\ work[w] = Idle /\ tx' = tx /\ buttons' = buttons
           /\ \E j \in JobType : work' = [work EXCEPT ![w] = j] /\ j.pc = "begin"
    <2>1. PICK j \in JobType : work' = [work EXCEPT ![w] = j] /\ j.pc = "begin"
        BY <1>4
    <2>2. j.pc \notin InTx /\ ~(tx' # None /\ tx'.owner = w)
        BY <1>1, <1>2, <1>4, <2>1 DEF InTx
    <2> QED BY <1>1, <1>3, <1>4, <2>1, <2>2, TypeWorks
<1>5. CASE /\ work' = [work EXCEPT ![w] = Idle] /\ work[w].pc \in Saving /\ buttons' = buttons
           /\ tx' = None \/ (tx' = tx /\ (tx = None \/ tx.owner # w))
           /\ tx # None /\ tx.owner # w => tx' = tx
    BY <1>1, <1>3, <1>5, TypeWorks
<1>6. CASE /\ work' = [work EXCEPT ![w] = Idle] /\ work[w].pc = "send" /\ tx' = tx
           /\ Row(work[w]) \in RowType
           /\ buttons' = buttons \/ buttons' = buttons \cup {Row(work[w])}
    <2>1. ~(tx' # None /\ tx'.owner = w)
        BY <1>2, <1>6 DEF InTx
    <2> QED BY <1>1, <1>3, <1>6, <2>1, TypeWorks
<1> QED BY <1>4, <1>5, <1>6, WorkSteps

\* A request for /ready changes nothing but itself.
LEMMA TypeProbe == ASSUME TypeInv, Request \/ Check PROVE TypeInv'
<1>1. UNCHANGED <<storage, process, running, work, history, quotes, faults>>
    BY DEF Request, Check, Passed, Refuse, Checked
<1>2. probe \in ProbeType /\ NoProbe \in ProbeType
    BY Values DEF TypeInv, TypeOK
<1>3. \A to \in {"telegram", "ping", "route", "ready"} :
         probe.pc # "none" => [probe EXCEPT !.pc = to] \in ProbeType
    BY <1>2 DEF ProbeType
<1>4. probe' \in ProbeType
    <2>1. CASE Request
        BY <2>1 DEF Request, Checked, ProbeType
    <2>2. CASE Check
        BY <1>2, <1>3, <2>2 DEF Check, Passed, Refuse, Checked
    <2> QED BY <2>1, <2>2
<1>5. TypeOK'
    BY <1>1, <1>4 DEF TypeInv, TypeOK, storage, process, running, history
<1>6. Control'
    BY <1>1 DEF TypeInv, Control, storage, process, running
<1> QED BY <1>5, <1>6 DEF TypeInv

LEMMA TypeNext == ASSUME TypeInv, [Next]_vars PROVE TypeInv'
<1>1. CASE UNCHANGED vars
    <2>1. TypeOK'
        BY <1>1 DEF TypeInv, TypeOK, vars, storage, process, running, history
    <2>2. Control'
        BY <1>1 DEF TypeInv, Control, vars, storage, process, running
    <2> QED BY <2>1, <2>2 DEF TypeInv
<1> QED BY <1>1, TypeOpens, TypeRuns, TypeFalls, TypeSave, TypeWork, TypeProbe DEF Next, Process

LEMMA Typed == Spec => []TypeInv
    BY TypeInit, TypeNext, PTL DEF Spec

\* The only connection is in the hands of the start or of a worker that is saving; no failure,
\* no crash and no stop leaves a transaction behind.
THEOREM TypeCorrect == Spec => []TypeOK
<1>1. TypeInv => TypeOK
    BY DEF TypeInv
<1> QED BY Typed, <1>1, PTL

-----------------------------------------------------------------------------
(* SchemaWhole: what the open transaction has of the schema. *)

\* A start is between two migrations, or has executed one and not yet recorded it; a worker
\* leaves the schema as it is.
Schema ==
    /\ SchemaWhole
    /\ pc = "open" => /\ tx.data.tables = tx.data.applied \cup (IF executed THEN {file} ELSE {})
                      /\ 1..(file - 1) \subseteq tx.data.applied
    /\ tx # None /\ tx.owner \in Workers =>
           tx.data.tables = disk.tables /\ tx.data.applied = disk.applied

LEMMA SchemaInit == Init => Schema
    BY DEF Init, Schema, SchemaWhole, NewDisk

\* Steps that leave the database and the start alone.
LEMMA SchemaSame ==
    ASSUME Schema, UNCHANGED <<storage, process>>
    PROVE  Schema'
    BY DEF Schema, SchemaWhole, storage, process

LEMMA SchemaOpens == ASSUME TypeInv, Schema, Start \/ Opens PROVE Schema'
<1>0. /\ TypeOK /\ version \in Nat /\ file \in Nat \ {0} /\ executed \in BOOLEAN
      /\ "init" \notin Workers /\ disk \in DiskType
    BY ServiceAssumption DEF TypeInv, TypeOK
<1>1. CASE Start
    <2>1. /\ tx' # None /\ tx'.owner = "init" /\ tx'.data = disk /\ disk' = disk /\ pc' = "open"
          /\ file' = file /\ executed' = executed
        BY <1>0, <1>1, Transactions DEF Start
    <2>2. file = 1 /\ executed = FALSE
        BY <1>0, <1>1 DEF Start, TypeInv, Control
    <2>3. 1..(file - 1) = {}
        BY <2>2
    <2> QED BY <1>0, <2>1, <2>2, <2>3 DEF Schema, SchemaWhole
<1>2. CASE Skip
    <2>1. /\ pc = "open" /\ executed = FALSE /\ file' = file + 1 /\ file \in tx.data.applied
          /\ UNCHANGED <<disk, tx, pc, version, executed>>
        BY <1>0, <1>2 DEF Skip, Skips, Opening, storage
    <2>2. 1..(file' - 1) \subseteq tx.data.applied
        BY <1>0, <2>1 DEF Schema
    <2> QED BY <2>1, <2>2 DEF Schema, SchemaWhole
<1>3. CASE Migrate
    <2>1. /\ pc = "open" /\ executed = FALSE /\ executed' = TRUE
          /\ UNCHANGED <<pc, version, file>>
        BY <1>0, <1>3 DEF Migrate, Opening
    <2>2. tx # None /\ tx.data \in DiskType /\ tx.owner = "init"
        BY <2>1, OwnTx
    <2>3. file \in 1..Migrations
        BY <1>0, <1>3, ServiceAssumption, StorageAssumption DEF Migrate, Opening, TypeOK
    <2>4. /\ tx'.data = [tx.data EXCEPT !.tables = @ \cup {file}] /\ disk' = disk
          /\ tx'.owner = "init"
        BY <1>0, <1>3, <2>2, <2>3, Contents, Transactions DEF Migrate, Exec
    <2>5. tx'.data.tables = tx.data.tables \cup {file} /\ tx'.data.applied = tx.data.applied
        BY <2>2, <2>4 DEF DiskType
    <2> QED BY <1>0, <2>1, <2>4, <2>5 DEF Schema, SchemaWhole
<1>4. CASE RecordVersion
    <2>1. /\ pc = "open" /\ executed = TRUE /\ executed' = FALSE /\ file' = file + 1
          /\ UNCHANGED <<pc, version>>
        BY <1>0, <1>4 DEF RecordVersion, Opening
    <2>2. tx # None /\ tx.data \in DiskType /\ tx.owner = "init"
        BY <2>1, OwnTx
    <2>3. file \in 1..Migrations
        BY <1>0, <1>4, ServiceAssumption, StorageAssumption DEF RecordVersion, Opening, TypeOK
    <2>4. /\ tx'.data = [tx.data EXCEPT !.applied = @ \cup {file}] /\ disk' = disk
          /\ tx'.owner = "init"
        BY <1>0, <1>4, <2>2, <2>3, Contents, Transactions DEF RecordVersion, Record
    <2>5. tx'.data.tables = tx.data.tables /\ tx'.data.applied = tx.data.applied \cup {file}
        BY <2>2, <2>4 DEF DiskType
    <2>6. 1..(file' - 1) \subseteq tx'.data.applied
        BY <1>0, <2>1, <2>5 DEF Schema
    <2> QED BY <1>0, <2>1, <2>4, <2>5, <2>6 DEF Schema, SchemaWhole
<1>5. CASE CommitSchema
    <2>1. /\ pc = "open" /\ pc' = "telegram" /\ file > version /\ executed = FALSE
          /\ UNCHANGED <<version, file, executed>>
        BY <1>0, <1>5 DEF CommitSchema, TypeInv, Control
    <2>2. tx # None /\ disk' = tx.data /\ tx' = None
        BY <1>0, <1>5, <2>1, OwnTx, Transactions DEF CommitSchema
    <2>3. 1..version \subseteq tx.data.applied
        BY <1>0, <2>1 DEF Schema
    <2> QED BY <2>1, <2>2, <2>3 DEF Schema, SchemaWhole
<1>6. CASE Launch
    BY <1>6 DEF Launch, storage, Schema, SchemaWhole
<1> QED BY <1>1, <1>2, <1>3, <1>4, <1>5, <1>6 DEF Opens

\* A transaction that is given up leaves the schema.
LEMMA SchemaGone == ASSUME TypeInv, Schema, Gone, disk' = disk, tx' = None PROVE Schema'
    BY DEF Gone, Schema, SchemaWhole

LEMMA SchemaSave == ASSUME TypeInv, Schema, NEW w \in Workers, Save(w) PROVE Schema'
<1>1. pc = "up" /\ UNCHANGED process /\ disk \in DiskType
    BY SaveSteps DEF TypeInv, TypeOK
<1>2. CASE disk' = disk /\ tx'.data.tables = disk.tables /\ tx'.data.applied = disk.applied
    BY <1>1, <1>2 DEF Schema, SchemaWhole, process
<1>3. CASE work[w].pc = "begin"
    BY <1>2, <1>3, SaveSteps
<1>4. CASE work[w].pc \in {"insert", "trim"}
    <2>1. /\ tx # None /\ tx.owner = w /\ tx.data \in DiskType /\ disk' = disk
          /\ \/ tx'.data = [tx.data EXCEPT !.rows = Kept(work[w].user, tx.data.rows)]
             \/ tx'.data = [tx.data EXCEPT
                    !.rows = @ \cup {[id |-> tx.data.last + 1, user |-> work[w].user, calc |-> work[w].calc]},
                    !.last = tx.data.last + 1]
        BY <1>4, SaveSteps
    <2>2. tx'.data.tables = tx.data.tables /\ tx'.data.applied = tx.data.applied
        BY <2>1 DEF DiskType
    <2> QED BY <1>2, <2>1, <2>2 DEF Schema
<1>5. CASE work[w].pc = "commit"
    <2>1. tx # None /\ tx.owner = w /\ tx' = None /\ disk' = tx.data
        BY <1>5, SaveSteps
    <2> QED BY <1>1, <2>1 DEF Schema, SchemaWhole, process
<1> QED BY <1>3, <1>4, <1>5, SaveSteps

LEMMA SchemaNext == ASSUME TypeInv, Schema, [Next]_vars PROVE Schema'
<1>1. CASE Start \/ Opens
    BY <1>1, SchemaOpens
<1>2. CASE (\E g \in Goroutines : Runs(g)) \/ BotEnds \/ MarketEnds \/ ServerEnds \/ ShutdownEnds
           \/ ServerFails \/ Signal
    BY <1>2, SchemaSame DEF Runs, BotEnds, MarketEnds, ServerEnds, ShutdownEnds, ServerFails, Signal, Ends
<1>3. CASE Exit \/ StartFails \/ Crash
    <2>1. pc' = "down" /\ disk' = disk
        BY <1>3, Transactions DEF Exit, StartFails, Crash, Gone, storage, TypeInv
    <2>2. tx' = tx \/ tx' = None
        BY <1>3, Transactions DEF Exit, StartFails, Crash, storage, TypeInv
    <2> QED BY <2>1, <2>2 DEF Schema, SchemaWhole
<1>4. CASE \E w \in Workers : Save(w)
    BY <1>4, SchemaSave
<1>5. CASE \E w \in Workers : Ask(w) \/ SaveFails(w) \/ Reply(w)
    <2>1. PICK w \in Workers : Ask(w) \/ SaveFails(w) \/ Reply(w)
        BY <1>5
    <2>2. /\ UNCHANGED process /\ disk' = disk /\ (tx' = tx \/ tx' = None)
          /\ group["bot"] = "on"
        BY <2>1, WorkSteps
    <2>3. pc # "open"
        BY <2>2, Values DEF TypeInv, Control
    <2> QED BY <2>2, <2>3 DEF Schema, SchemaWhole, process
<1>6. CASE Request \/ Check \/ UNCHANGED vars
    BY <1>6, SchemaSame DEF Request, Check, Passed, Refuse, Checked, vars
<1> QED BY <1>1, <1>2, <1>3, <1>4, <1>5, <1>6 DEF Next, Process, Stops

\* No crash, failure or other version leaves a migration in the file that is not recorded, or
\* the other way round, and no binary runs on a schema that lacks one of its migrations.
THEOREM SchemaIsWhole == Spec => []SchemaWhole
<1>1. Schema => SchemaWhole
    BY DEF Schema
<1> QED BY SchemaInit, SchemaNext, Typed, <1>1, PTL DEF Spec

-----------------------------------------------------------------------------
(* ReadyIsEarned: the flags are down for good when their goroutines have ended. *)

Earned ==
    /\ group["market"] = "ended" => ~started
    /\ group["bot"] = "ended" => ~telegramReady
    /\ probe.pc = "started" /\ ~probe.alive => "ended" \in {group["bot"], group["market"]}
    /\ probe.pc = "telegram" /\ ~probe.alive => group["bot"] = "ended"
    /\ probe.pc \in {"ping", "route", "ready"} => probe.alive

LEMMA EarnedInit == Init => Earned
    BY DEF Init, Earned, AllOff, Goroutines, NoProbe

LEMMA EarnedNext == ASSUME TypeInv, Earned, [Next]_vars PROVE Earned'
<1>0. /\ group \in [Goroutines -> {"off", "on", "ended"}] /\ probe \in ProbeType
      /\ Goroutines = {"bot", "market", "server", "stopper"}
    BY DEF TypeInv, TypeOK, Goroutines
<1>1. ASSUME UNCHANGED <<running, probe>> PROVE Earned'
    BY <1>1 DEF Earned, running
<1>2. CASE Start \/ Skip \/ Migrate \/ RecordVersion \/ CommitSchema
    BY <1>1, <1>2 DEF Start, Skip, Migrate, RecordVersion, CommitSchema
<1>3. CASE Launch
    <2>1. group = AllOff /\ UNCHANGED <<group, started, probe>>
        BY <1>3 DEF Launch, TypeInv, Control
    <2>2. group["bot"] = "off" /\ group["market"] = "off"
        BY <2>1 DEF AllOff, Goroutines
    <2> QED BY <2>1, <2>2 DEF Earned
<1>4. CASE \E g \in Goroutines : Runs(g)
    <2>1. PICK g \in Goroutines : Runs(g)
        BY <1>4
    <2>2. /\ group[g] = "off" /\ group' = [group EXCEPT ![g] = "on"]
          /\ started' = (started \/ g = "market") /\ UNCHANGED <<telegramReady, probe>>
        BY <2>1 DEF Runs
    <2>3. /\ group'["market"] = "ended" => group["market"] = "ended" /\ g # "market"
          /\ group'["bot"] = "ended" => group["bot"] = "ended"
          /\ group["market"] = "ended" => group'["market"] = "ended"
          /\ group["bot"] = "ended" => group'["bot"] = "ended"
        BY <1>0, <2>2
    <2> QED BY <2>2, <2>3 DEF Earned
<1>5. ASSUME NEW g \in Goroutines, group' = [group EXCEPT ![g] = "ended"], probe' = probe,
             started' = IF g = "market" THEN FALSE ELSE started,
             telegramReady' = IF g = "bot" THEN FALSE ELSE telegramReady
      PROVE  Earned'
    <2>1. /\ group["market"] = "ended" => group'["market"] = "ended"
          /\ group["bot"] = "ended" => group'["bot"] = "ended"
          /\ group'["market"] = "ended" => group["market"] = "ended" \/ g = "market"
          /\ group'["bot"] = "ended" => group["bot"] = "ended" \/ g = "bot"
        BY <1>0, <1>5
    <2> QED BY <1>5, <2>1 DEF Earned
<1>6. CASE BotEnds
    BY <1>0, <1>5, <1>6 DEF BotEnds, Ends
<1>7. CASE MarketEnds
    BY <1>0, <1>5, <1>7 DEF MarketEnds, Ends, AfterMarket
<1>8. CASE ServerEnds \/ ServerFails
    BY <1>0, <1>5, <1>8 DEF ServerEnds, ServerFails, Ends
<1>9. CASE ShutdownEnds
    BY <1>0, <1>5, <1>9 DEF ShutdownEnds, Ends
<1>10. CASE Exit \/ StartFails \/ Crash
    <2>1. group' = AllOff /\ probe' = NoProbe
        BY <1>10 DEF Exit, StartFails, Crash, Gone
    <2> QED BY <2>1 DEF Earned, AllOff, Goroutines, NoProbe
<1>11. CASE Signal
    BY <1>11 DEF Signal, Earned
<1>12. CASE \E w \in Workers : Ask(w) \/ Save(w) \/ SaveFails(w) \/ Reply(w)
    BY <1>1, <1>12, SaveSteps, WorkSteps
<1>13. CASE Request
    BY <1>13 DEF Request, Checked, running, Earned
<1>14. CASE Check
    <2>1. UNCHANGED running
        BY <1>14 DEF Check, Passed, Refuse, Checked
    <2>2. CASE probe' = NoProbe
        BY <2>1, <2>2 DEF Earned, running, NoProbe
    <2>3. CASE probe' # NoProbe
        <3>1. \/ probe.pc = "started" /\ started /\ probe' = [probe EXCEPT !.pc = "telegram"]
              \/ probe.pc = "telegram" /\ telegramReady /\ probe' = [probe EXCEPT !.pc = "ping"]
              \/ probe.pc = "ping" /\ probe' = [probe EXCEPT !.pc = "route"]
              \/ probe.pc = "route" /\ probe' = [probe EXCEPT !.pc = "ready"]
            BY <1>14, <2>3 DEF Check, Passed, Refuse, Checked
        <3>2. /\ probe'.alive = probe.alive
              /\ \/ probe.pc = "started" /\ started /\ probe'.pc = "telegram"
                 \/ probe.pc = "telegram" /\ telegramReady /\ probe'.pc = "ping"
                 \/ probe.pc = "ping" /\ probe'.pc = "route"
                 \/ probe.pc = "route" /\ probe'.pc = "ready"
            BY <1>0, <3>1 DEF ProbeType
        <3> QED BY <2>1, <3>2 DEF Earned, running
    <2> QED BY <2>2, <2>3
<1>15. CASE UNCHANGED vars
    BY <1>1, <1>15 DEF vars
<1> QED BY <1>2, <1>3, <1>4, <1>6, <1>7, <1>8, <1>9, <1>10, <1>11, <1>12, <1>13, <1>14, <1>15
        DEF Next, Process, Opens, Stops

\* A request is answered with "ready" only if neither the bot nor the refreshers had ended when
\* it came, although the flags are read one after another while the process stops.
THEOREM ReadinessIsEarned == Spec => []ReadyIsEarned
<1>1. Earned => ReadyIsEarned
    BY DEF Earned, ReadyIsEarned
<1> QED BY EarnedInit, EarnedNext, Typed, <1>1, PTL DEF Spec

-----------------------------------------------------------------------------
(* LastOnesKept and ShowsWhatWasAsked: what is committed against what was ever committed. *)

Newer(S, r) == {s \in S : s.user = r.user /\ s.id > r.id}
Lasting(S)  == {r \in S : Cardinality(Newer(S, r)) < Keep}

\* Trimming one user's kept rows and a new one is the same as keeping the last of all rows.
LEMMA TrimKeepsLast ==
    ASSUME NEW S, S \subseteq RowType, IsFiniteSet(S),
           NEW n \in RowType, \A s \in S : s.id < n.id
    PROVE  Kept(n.user, Lasting(S) \cup {n}) = Lasting(S \cup {n})
<1> DEFINE R == Lasting(S)
           N(r) == {s \in R \cup {n} : s.user = n.user /\ s.id > r.id}
<1>0. /\ Keep \in Nat \ {0} /\ n.id \in Nat /\ n \notin S
      /\ \A s \in S : s.id \in Nat /\ s.id < n.id
    BY StorageAssumption DEF RowType
<1>1. ASSUME NEW r \in S
      PROVE  /\ IsFiniteSet(Newer(S, r)) /\ Cardinality(Newer(S, r)) \in Nat
             /\ r \in R <=> Cardinality(Newer(S, r)) < Keep
    <2>1. IsFiniteSet(Newer(S, r))
        BY FS_Subset DEF Newer
    <2> QED BY <2>1, FS_CardinalityType DEF Lasting
<1>2. n \in Kept(n.user, R \cup {n}) /\ n \in Lasting(S \cup {n})
    <2>1. {s \in R \cup {n} : s.user = n.user /\ s.id > n.id} = {}
        BY <1>0 DEF Lasting
    <2>2. Newer(S \cup {n}, n) = {}
        BY <1>0 DEF Newer
    <2>3. Cardinality({}) < Keep
        BY <1>0, FS_EmptySet
    <2> QED BY <2>1, <2>2, <2>3 DEF Kept, Lasting
<1>3. ASSUME NEW r \in S, r.user # n.user
      PROVE  r \in Kept(n.user, R \cup {n}) <=> r \in Lasting(S \cup {n})
    <2>1. Newer(S \cup {n}, r) = Newer(S, r)
        BY <1>3 DEF Newer
    <2>2. r \in Lasting(S \cup {n}) <=> r \in R
        BY <2>1 DEF Lasting
    <2>3. r \in Kept(n.user, R \cup {n}) <=> r \in R
        BY <1>0, <1>3 DEF Kept
    <2> QED BY <2>2, <2>3
<1>4. ASSUME NEW r \in S, r.user = n.user
      PROVE  r \in Kept(n.user, R \cup {n}) <=> r \in Lasting(S \cup {n})
    <2>1. Newer(S \cup {n}, r) = Newer(S, r) \cup {n}
        BY <1>0, <1>4 DEF Newer
    <2>2. n \notin Newer(S, r)
        BY <1>0 DEF Newer
    <2>3. Cardinality(Newer(S \cup {n}, r)) = Cardinality(Newer(S, r)) + 1
        BY <1>1, <2>1, <2>2, FS_AddElement
    <2>4. CASE r \in R
        <3>1. ASSUME NEW s \in Newer(S, r) PROVE s \in R
            <4>1. s \in S /\ s.user = r.user /\ s.id > r.id
                BY DEF Newer
            <4>2. Newer(S, s) \subseteq Newer(S, r)
                BY <1>0, <4>1 DEF Newer
            <4>3. Cardinality(Newer(S, s)) <= Cardinality(Newer(S, r))
                BY <1>1, <4>2, FS_Subset
            <4> QED BY <1>0, <1>1, <2>4, <4>1, <4>3
        <3>2. N(r) = Newer(S, r) \cup {n}
            <4>1. N(r) \subseteq Newer(S, r) \cup {n}
                BY <1>4 DEF Newer, Lasting
            <4>2. Newer(S, r) \subseteq N(r)
                BY <1>4, <3>1 DEF Newer
            <4>3. n \in N(r)
                BY <1>0
            <4> QED BY <4>1, <4>2, <4>3
        <3>3. r \in Kept(n.user, R \cup {n}) <=> Cardinality(N(r)) < Keep
            BY <1>4, <2>4 DEF Kept
        <3>4. r \in Lasting(S \cup {n}) <=> Cardinality(Newer(S \cup {n}, r)) < Keep
            BY DEF Lasting
        <3> QED BY <2>1, <3>2, <3>3, <3>4
    <2>5. CASE r \notin R
        <3>1. r \notin Kept(n.user, R \cup {n})
            BY <1>0, <2>5 DEF Kept
        <3>2. ~(Cardinality(Newer(S \cup {n}, r)) < Keep)
            BY <1>0, <1>1, <2>3, <2>5
        <3> QED BY <3>1, <3>2 DEF Lasting
    <2> QED BY <2>4, <2>5
<1>5. /\ Kept(n.user, R \cup {n}) \subseteq S \cup {n}
      /\ Lasting(S \cup {n}) \subseteq S \cup {n}
    BY DEF Kept, Lasting
<1>6. \A r \in S \cup {n} : r \in Kept(n.user, R \cup {n}) <=> r \in Lasting(S \cup {n})
    BY <1>2, <1>3, <1>4
<1> HIDE DEF R
<1>7. Kept(n.user, R \cup {n}) = Lasting(S \cup {n})
    BY <1>5, <1>6
<1> QED BY <1>7 DEF R

\* What the transaction of a worker has of the history.
Written(j, data, committed, rows) ==
    /\ j.pc = "insert" => data.rows = committed.rows /\ data.last = committed.last
    /\ j.pc \in {"trim", "commit"} => data.last = j.id /\ j.id = committed.last + 1
    /\ j.pc = "trim" => data.rows = committed.rows \cup {Row(j)}
    /\ j.pc = "commit" => data.rows = Kept(j.user, committed.rows \cup {Row(j)})
    /\ j.pc = "send" => Row(j) \in rows

Past ==
    /\ IsFiniteSet(saved) /\ buttons \subseteq saved
    /\ \A r \in saved : r.id <= disk.last
    /\ \A r, s \in saved : r.id = s.id => r = s
    /\ disk.rows = Lasting(saved)

HistoryInv ==
    /\ Past
    /\ pc = "open" => tx.data.rows = disk.rows /\ tx.data.last = disk.last
    /\ \A w \in Workers : Written(work[w], tx.data, disk, saved)

LEMMA HistoryInit == Init => HistoryInv
<1> SUFFICES ASSUME Init PROVE HistoryInv
    OBVIOUS
<1>1. saved = {} /\ buttons = {} /\ disk.rows = {} /\ pc = "down"
    BY DEF Init, NewDisk
<1>2. Past
    BY <1>1, FS_EmptySet DEF Past, Lasting
<1>3. \A w \in Workers : Written(work[w], tx.data, disk, saved)
    BY DEF Init, Written, Idle
<1> QED BY <1>1, <1>2, <1>3 DEF HistoryInv

\* Steps that leave the database, the work and the history.
LEMMA HistorySame ==
    ASSUME HistoryInv, UNCHANGED <<storage, work, history>>, pc' = "open" => pc = "open"
    PROVE  HistoryInv'
<1>1. UNCHANGED <<disk, tx, work, buttons, saved>>
    BY DEF storage, history
<1>2. Past'
    BY <1>1 DEF HistoryInv, Past, Lasting, Newer
<1>3. \A w \in Workers : Written(work'[w], tx'.data, disk', saved')
    BY <1>1 DEF HistoryInv
<1> QED BY <1>1, <1>2, <1>3 DEF HistoryInv

\* Nobody is at work with the database, whose contents stay.
LEMMA HistoryAtRest ==
    ASSUME HistoryInv, disk'.rows = disk.rows, disk'.last = disk.last,
           UNCHANGED history, \A w \in Workers : work'[w] = Idle,
           pc' = "open" => tx'.data.rows = disk.rows /\ tx'.data.last = disk.last
    PROVE  HistoryInv'
<1>1. Past'
    BY DEF HistoryInv, Past, Lasting, Newer, history
<1>2. \A w \in Workers : Written(work'[w], tx'.data, disk', saved')
    BY DEF Written, Idle
<1> QED BY <1>1, <1>2 DEF HistoryInv

LEMMA HistoryOpens == ASSUME TypeInv, HistoryInv, Start \/ Opens PROVE HistoryInv'
<1>0. TypeOK /\ UNCHANGED <<work, history>>
    BY DEF TypeInv, Start, Opens, Skip, Migrate, RecordVersion, CommitSchema, Launch
<1>1. pc # "up" /\ \A w \in Workers : work'[w] = Idle
    <2>1. pc # "up"
        BY DEF Start, Opens, Skip, Migrate, RecordVersion, CommitSchema, Launch, Opening
    <2> QED BY <1>0, <2>1, Values DEF TypeInv, Control
<1>2. CASE Start
    <2>1. tx'.data = disk /\ disk' = disk
        BY <1>0, <1>2, Transactions DEF Start
    <2> QED BY <1>0, <1>1, <2>1, HistoryAtRest
<1>3. CASE Skip \/ Launch
    <2>1. UNCHANGED storage /\ (pc' = "open" => pc = "open")
        BY <1>3 DEF Skip, Launch
    <2> QED BY <1>0, <2>1, HistorySame
<1>4. CASE Migrate \/ RecordVersion
    <2>1. pc = "open" /\ tx # None /\ tx.data \in DiskType
        BY <1>4, OwnTx DEF Migrate, RecordVersion, Opening
    <2>2. /\ disk' = disk
          /\ \/ tx'.data = [tx.data EXCEPT !.tables = @ \cup {file}]
             \/ tx'.data = [tx.data EXCEPT !.applied = @ \cup {file}]
        <3>1. file \in 1..Migrations
            BY <1>0, <1>4, ServiceAssumption, StorageAssumption DEF Migrate, RecordVersion, Opening, TypeOK
        <3> QED BY <1>0, <1>4, <2>1, <3>1, Contents, Transactions DEF Migrate, RecordVersion, Exec, Record
    <2>3. tx'.data.rows = tx.data.rows /\ tx'.data.last = tx.data.last
        BY <2>1, <2>2 DEF DiskType
    <2> QED BY <1>0, <1>1, <2>1, <2>2, <2>3, HistoryAtRest DEF HistoryInv
<1>5. CASE CommitSchema
    <2>1. pc = "open" /\ tx # None /\ disk' = tx.data /\ pc' # "open"
        BY <1>0, <1>5, OwnTx, Transactions DEF CommitSchema
    <2> QED BY <1>0, <1>1, <2>1, HistoryAtRest DEF HistoryInv
<1> QED BY <1>2, <1>3, <1>4, <1>5 DEF Opens

\* While a worker is at work with the database the others are not.
LEMMA OthersWait ==
    ASSUME TypeInv, HistoryInv, NEW w \in Workers, NEW v \in Workers \ {w},
           \/ tx = None
           \/ tx # None /\ tx.owner = w
    PROVE  work[v].pc \notin InTx /\ (work[v].pc = "send" => Row(work[v]) \in saved)
    BY DEF TypeInv, Control, HistoryInv, Written

LEMMA HistorySave == ASSUME TypeInv, HistoryInv, NEW w \in Workers, Save(w) PROVE HistoryInv'
<1> DEFINE j == work[w]
<1>0. /\ work \in [Workers -> JobType] /\ disk \in DiskType /\ disk.last \in Nat
      /\ saved \subseteq RowType
    BY DEF TypeInv, TypeOK, DiskType
<1>1. /\ j \in JobType /\ j.user \in Users /\ j.calc \in 1..MaxQuotes /\ j.id \in Nat /\ Row(j) \in RowType
      /\ pc' = "up" /\ buttons' = buttons
    BY SaveSteps DEF process
<1>2. Written(j, tx.data, disk, saved) /\ Past
    BY DEF HistoryInv
<1>3. j.pc \in Saving
    BY SaveSteps DEF Saving
<1>4. tx = None \/ (tx # None /\ tx.owner = w)
    BY SaveSteps
<1>5. ASSUME NEW k, work' = [work EXCEPT ![w] = k], saved \subseteq saved', Past',
             Written(k, tx'.data, disk', saved')
      PROVE  HistoryInv'
    <2>1. ASSUME NEW v \in Workers PROVE Written(work'[v], tx'.data, disk', saved')
        <3>1. CASE v = w
            BY <1>0, <1>5, <3>1 DEF Written, Row, Kept
        <3>2. CASE v # w
            <4>1. work'[v] = work[v]
                BY <1>0, <1>5, <3>2
            <4>2. work[v].pc \notin InTx /\ (work[v].pc = "send" => Row(work[v]) \in saved)
                BY <1>4, <3>2, OthersWait
            <4> QED BY <1>5, <4>1, <4>2 DEF Written, Row, InTx
        <3> QED BY <3>1, <3>2
    <2> QED BY <1>1, <1>5, <2>1 DEF HistoryInv
<1>6. ASSUME disk' = disk, saved' = saved PROVE Past'
    BY <1>1, <1>2, <1>6 DEF Past, Lasting, Newer
<1>7. CASE j.pc = "begin"
    <2> DEFINE k == [j EXCEPT !.pc = "insert"]
    <2>1. /\ work' = [work EXCEPT ![w] = k] /\ tx'.data = disk /\ disk' = disk /\ saved' = saved
        BY <1>7, SaveSteps
    <2>2. k.pc = "insert"
        BY <1>1, <1>7 DEF JobType
    <2> HIDE DEF k
    <2>3. Written(k, tx'.data, disk', saved')
        BY <2>1, <2>2 DEF Written
    <2> QED BY <1>5, <1>6, <2>1, <2>3
<1>8. CASE j.pc = "insert"
    <2> DEFINE id  == tx.data.last + 1
               row == [id |-> id, user |-> j.user, calc |-> j.calc]
               k   == [j EXCEPT !.pc = "trim", !.id = id]
    <2>1. /\ work' = [work EXCEPT ![w] = k] /\ tx.data \in DiskType /\ disk' = disk /\ saved' = saved
          /\ tx'.data = [tx.data EXCEPT !.rows = @ \cup {row}, !.last = id]
        BY <1>8, SaveSteps
    <2>2. tx.data.rows = disk.rows /\ tx.data.last = disk.last
        BY <1>2, <1>8 DEF Written
    <2>3. tx'.data.rows = disk.rows \cup {row} /\ tx'.data.last = id
        BY <2>1, <2>2 DEF DiskType
    <2>4. k.pc = "trim" /\ k.id = id /\ k.user = j.user /\ k.calc = j.calc
        BY <1>1, <1>8 DEF JobType
    <2>5. Row(k) = row /\ id = disk.last + 1
        BY <2>2, <2>4 DEF Row
    <2> HIDE DEF k, row, id
    <2>6. Written(k, tx'.data, disk', saved')
        BY <2>1, <2>3, <2>4, <2>5 DEF Written, Row
    <2> QED BY <1>5, <1>6, <2>1, <2>6
<1>9. CASE j.pc = "trim"
    <2> DEFINE k == [j EXCEPT !.pc = "commit"]
    <2>1. /\ work' = [work EXCEPT ![w] = k] /\ tx.data \in DiskType /\ disk' = disk /\ saved' = saved
          /\ tx'.data = [tx.data EXCEPT !.rows = Kept(j.user, tx.data.rows)]
        BY <1>9, SaveSteps
    <2>2. /\ tx.data.rows = disk.rows \cup {Row(j)} /\ tx.data.last = j.id /\ j.id = disk.last + 1
        BY <1>2, <1>9 DEF Written
    <2>3. tx'.data.rows = Kept(j.user, disk.rows \cup {Row(j)}) /\ tx'.data.last = j.id
        BY <2>1, <2>2 DEF DiskType
    <2>4. k.pc = "commit" /\ k.id = j.id /\ k.user = j.user /\ k.calc = j.calc
        BY <1>1, <1>9 DEF JobType
    <2>5. Row(k) = Row(j)
        BY <2>4 DEF Row
    <2> HIDE DEF k, j
    <2>6. Written(k, tx'.data, disk', saved')
        BY <2>1, <2>2, <2>3, <2>4, <2>5 DEF Written, Row, Kept
    <2> QED BY <1>5, <1>6, <2>1, <2>6
<1>10. CASE j.pc = "commit"
    <2> DEFINE k == [j EXCEPT !.pc = "send"]
               n == Row(j)
    <2>1. /\ work' = [work EXCEPT ![w] = k] /\ disk' = tx.data /\ saved' = saved \cup {n}
        BY <1>10, SaveSteps
    <2>2. /\ tx.data.rows = Kept(j.user, disk.rows \cup {n}) /\ tx.data.last = j.id /\ j.id = disk.last + 1
        BY <1>2, <1>10 DEF Written
    <2>3. k.pc = "send" /\ Row(k) = n
        BY <1>1, <1>10 DEF JobType, Row
    <2>4. n \in RowType /\ n.id = j.id /\ n.user = j.user
        BY <1>1 DEF Row
    <2> HIDE DEF k, n, j
    <2>5. \A s \in saved : s.id \in Nat /\ s.id < n.id
        BY <1>0, <1>2, <2>2, <2>4 DEF Past, RowType
    <2>6. disk'.rows = Lasting(saved')
        <3>1. Kept(n.user, Lasting(saved) \cup {n}) = Lasting(saved \cup {n})
            BY <1>0, <1>2, <2>4, <2>5, TrimKeepsLast DEF Past
        <3> QED BY <1>2, <2>1, <2>2, <2>4, <3>1 DEF Past
    <2>7. IsFiniteSet(saved') /\ buttons' \subseteq saved'
        BY <1>1, <1>2, <2>1, FS_AddElement DEF Past
    <2>8. \A r \in saved' : r.id <= disk'.last
        BY <1>0, <1>2, <2>1, <2>2, <2>4, <2>5 DEF Past
    <2>9. \A r, s \in saved' : r.id = s.id => r = s
        BY <1>2, <2>1, <2>4, <2>5 DEF Past
    <2>10. Past'
        BY <2>6, <2>7, <2>8, <2>9 DEF Past, Lasting, Newer
    <2>11. Written(k, tx'.data, disk', saved')
        BY <2>1, <2>3 DEF Written, Row
    <2> QED BY <1>5, <2>1, <2>10, <2>11
<1> QED BY <1>3, <1>7, <1>8, <1>9, <1>10 DEF Saving

LEMMA HistoryWork ==
    ASSUME TypeInv, HistoryInv, NEW w \in Workers, Ask(w) \/ SaveFails(w) \/ Reply(w)
    PROVE  HistoryInv'
<1>0. work \in [Workers -> JobType] /\ tx \in TxType \cup {None}
    BY DEF TypeInv, TypeOK
<1>1. /\ pc' = pc /\ pc # "open" /\ saved' = saved /\ disk' = disk
    <2>1. /\ UNCHANGED <<process, saved>> /\ disk' = disk /\ group["bot"] = "on"
        BY WorkSteps
    <2> QED BY <2>1, Values DEF TypeInv, Control, process
<1>2. buttons' \subseteq saved
    <2>1. work[w].pc = "send" => Row(work[w]) \in saved
        BY DEF HistoryInv, Written
    <2>2. buttons \subseteq saved
        BY DEF HistoryInv, Past
    <2> QED BY <2>1, <2>2, WorkSteps
<1>3. \E k : work' = [work EXCEPT ![w] = k] /\ (k.pc = "begin" \/ k = Idle)
    BY WorkSteps
<1>4. \A v \in Workers \ {w} : work[v].pc \in InTx => tx' = tx
    <2>1. ASSUME NEW v \in Workers \ {w}, work[v].pc \in InTx PROVE tx' = tx
        <3>1. tx # None /\ tx.owner # w
            BY <2>1 DEF TypeInv, Control
        <3> QED BY <3>1, WorkSteps
    <2> QED BY <2>1
<1>5. Past'
    BY <1>1, <1>2 DEF HistoryInv, Past, Lasting, Newer
<1>6. ASSUME NEW v \in Workers PROVE Written(work'[v], tx'.data, disk', saved')
    <2>1. CASE v = w
        <3>1. work'[v].pc \in {"begin", "idle"}
            BY <1>0, <1>3, <2>1 DEF Idle
        <3> QED BY <3>1 DEF Written
    <2>2. CASE v # w
        <3>1. work'[v] = work[v] /\ Written(work[v], tx.data, disk, saved)
            BY <1>0, <1>3, <2>2 DEF HistoryInv
        <3> QED BY <1>1, <1>4, <2>2, <3>1 DEF Written, InTx, Row, Kept
    <2> QED BY <2>1, <2>2
<1> QED BY <1>1, <1>5, <1>6 DEF HistoryInv

LEMMA HistoryNext == ASSUME TypeInv, HistoryInv, [Next]_vars PROVE HistoryInv'
<1>1. CASE Start \/ Opens
    BY <1>1, HistoryOpens
<1>2. CASE (\E g \in Goroutines : Runs(g)) \/ BotEnds \/ MarketEnds \/ ServerEnds \/ ShutdownEnds
           \/ ServerFails \/ Signal
    <2>1. UNCHANGED <<storage, work, history, pc>>
        BY <1>2 DEF Runs, BotEnds, MarketEnds, ServerEnds, ShutdownEnds, ServerFails, Signal, Ends, process
    <2> QED BY <2>1, HistorySame
<1>3. CASE Exit \/ StartFails \/ Crash
    <2>1. Gone /\ disk' = disk
        BY <1>3, Transactions DEF Exit, StartFails, Crash, storage, TypeInv
    <2>2. UNCHANGED history /\ pc' # "open" /\ \A w \in Workers : work'[w] = Idle
        BY <2>1 DEF Gone
    <2> QED BY <2>1, <2>2, HistoryAtRest
<1>4. CASE \E w \in Workers : Ask(w) \/ Save(w) \/ SaveFails(w) \/ Reply(w)
    BY <1>4, HistorySave, HistoryWork
<1>5. CASE Request \/ Check \/ UNCHANGED vars
    <2>1. UNCHANGED <<storage, work, history, pc>>
        BY <1>5 DEF Request, Check, Passed, Refuse, Checked, vars, process
    <2> QED BY <2>1, HistorySame
<1> QED BY <1>1, <1>2, <1>3, <1>4, <1>5 DEF Next, Process, Stops

LEMMA HistoryAlways == Spec => []HistoryInv
    BY HistoryInit, HistoryNext, Typed, PTL DEF Spec

\* The file has the last calculations of every user that were ever committed, neither more nor
\* less, at every moment: also after a crash between the insertion and the deletion.
THEOREM HistoryIsKept == Spec => []LastOnesKept
<1>1. TypeInv /\ HistoryInv => LastOnesKept
    <2> SUFFICES ASSUME TypeInv, HistoryInv, NEW u \in Users
                 PROVE  LET own == {r \in saved : r.user = u} IN
                        {r \in disk.rows : r.user = u} =
                            {r \in own : Cardinality({s \in own : s.id > r.id}) < Keep}
        BY DEF LastOnesKept
    <2> DEFINE own == {r \in saved : r.user = u}
    <2>1. ASSUME NEW r \in own PROVE {s \in own : s.id > r.id} = Newer(saved, r)
        BY DEF Newer
    <2>2. disk.rows = {r \in saved : Cardinality(Newer(saved, r)) < Keep}
        BY DEF HistoryInv, Past, Lasting
    <2>3. {r \in disk.rows : r.user = u} = {r \in own : Cardinality(Newer(saved, r)) < Keep}
        BY <2>2
    <2> QED BY <2>1, <2>3
<1> QED BY HistoryAlways, Typed, <1>1, PTL

\* A button shows the calculation that it was sent with, to its owner, or none: although the id
\* of a transaction that failed is given out again.
THEOREM ButtonsShowTheirOwn == Spec => []ShowsWhatWasAsked
<1>1. TypeInv /\ HistoryInv => ShowsWhatWasAsked
    <2> SUFFICES ASSUME TypeInv, HistoryInv, NEW b \in buttons, NEW u \in Users, NEW r \in Load(u, b.id)
                 PROVE  u = b.user /\ r.calc = b.calc
        BY DEF ShowsWhatWasAsked
    <2>1. r \in saved /\ b \in saved /\ r.id = b.id /\ r.user = u
        BY DEF Load, HistoryInv, Past, Lasting
    <2>2. r = b
        BY <2>1 DEF HistoryInv, Past
    <2> QED BY <2>1, <2>2
<1> QED BY HistoryAlways, Typed, <1>1, PTL
=============================================================================
