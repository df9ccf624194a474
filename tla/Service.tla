------------------------------ MODULE Service ------------------------------
(***************************************************************************)
(* The process: it opens and migrates the database, reaches Telegram, and  *)
(* runs the bot, the refreshers and the HTTP server in one errgroup until  *)
(* one of them fails or a signal comes.  Binaries of several versions take *)
(* turns on one database file.  Inside the bot workers save calculations   *)
(* and put their ids on buttons; the server answers /ready.                *)
(***************************************************************************)
EXTENDS Storage

CONSTANTS
    Versions,    \* binary v brings the migrations 1..v
    Workers,
    MaxQuotes,   \* bound: calculations
    MaxFaults    \* bound: failing calls, signals, crashes

VARIABLES
    pc, version,      \* of the process
    file, executed,   \* init: the current migration; it was executed, but not yet recorded
    group,            \* the goroutines of the errgroup: "off" (yet), "on", "ended"
    stopping,         \* gctx is done
    started, telegramReady,   \* flags of app.Health
    work,             \* what each worker is doing
    probe,            \* a request for /ready
    buttons,          \* history: buttons that were sent to users
    saved,            \* history: rows that were committed
    quotes, faults    \* counters

process == <<pc, version, file, executed>>
running == <<group, stopping, started, telegramReady>>
history == <<buttons, saved>>
vars == <<storage, process, running, work, probe, history, quotes, faults>>

TxType == [owner : Workers \cup {"init"}, data : DiskType]

ASSUME ServiceAssumption ==
    /\ Versions \subseteq 1..Migrations /\ MaxQuotes \in Nat /\ MaxFaults \in Nat
    /\ "init" \notin Workers /\ None \notin TxType

Goroutines == {"bot", "market", "server", "stopper"}
AllOff == [g \in Goroutines |-> "off"]

Idle    == [pc |-> "idle"]
NoProbe == [pc |-> "none"]
Saving  == {"begin", "insert", "trim", "commit"}

Init ==
    /\ disk = NewDisk /\ tx = None
    /\ pc = "down" /\ version \in Versions /\ file = 1 /\ executed = FALSE
    /\ group = AllOff /\ stopping = FALSE /\ started = FALSE /\ telegramReady = FALSE
    /\ work = [w \in Workers |-> Idle] /\ probe = NoProbe
    /\ buttons = {} /\ saved = {}
    /\ quotes = 0 /\ faults = 0

Fault == faults < MaxFaults /\ faults' = faults + 1

\* Nothing of the process remains but what it has committed.
Gone ==
    /\ pc' = "down" /\ file' = 1 /\ executed' = FALSE
    /\ group' = AllOff /\ stopping' = FALSE /\ started' = FALSE /\ telegramReady' = FALSE
    /\ work' = [w \in Workers |-> Idle] /\ probe' = NoProbe
    /\ UNCHANGED <<version, history, quotes>>

-----------------------------------------------------------------------------
(* storage.Open and init. *)

\* By the restart policy of the container, or by a deployment of this or another version.
Start ==
    /\ pc = "down" /\ pc' = "open" /\ version' \in Versions
    /\ BeginTx("init")
    /\ UNCHANGED <<file, executed, running, work, probe, history, quotes, faults>>

Opening == pc = "open" /\ file <= version

Skip ==
    /\ Opening /\ ~executed /\ Skips(file)
    /\ file' = file + 1
    /\ UNCHANGED <<storage, pc, version, executed, running, work, probe, history, quotes, faults>>

Migrate ==
    /\ Opening /\ ~executed /\ ~Skips(file)
    /\ Exec(file) /\ executed' = TRUE
    /\ UNCHANGED <<pc, version, file, running, work, probe, history, quotes, faults>>

RecordVersion ==
    /\ Opening /\ executed
    /\ Record(file) /\ executed' = FALSE /\ file' = file + 1
    /\ UNCHANGED <<pc, version, running, work, probe, history, quotes, faults>>

CommitSchema ==
    /\ pc = "open" /\ file > version
    /\ Commit /\ pc' = "telegram"
    /\ UNCHANGED <<version, file, executed, running, work, probe, history, quotes, faults>>

\* A migration that would be applied again although it must not.
Stuck == Opening /\ ~executed /\ ~Skips(file) /\ ~Applies(file)

\* A statement, the context, or the first call to Telegram fails: run returns the error.
StartFails ==
    /\ pc \in {"open", "telegram"} /\ Rollback("init") /\ Gone
    /\ IF Stuck THEN UNCHANGED faults ELSE Fault

-----------------------------------------------------------------------------
(* The errgroup. *)

Launch ==
    /\ pc = "telegram" /\ pc' = "up"
    /\ telegramReady' = TRUE
    /\ UNCHANGED <<storage, version, file, executed, group, stopping, started, work, probe, history,
                   quotes, faults>>

\* The goroutines begin in any order.  A server that was shut down does not listen any more.
Runs(g) ==
    /\ pc = "up" /\ group[g] = "off"
    /\ g = "stopper" => stopping
    /\ g = "server" => group["stopper"] = "off"
    /\ group' = [group EXCEPT ![g] = "on"]
    /\ started' = (started \/ g = "market")
    /\ UNCHANGED <<storage, process, stopping, telegramReady, work, probe, history, quotes, faults>>

Ends(g, isStarted, isReady) ==
    /\ group' = [group EXCEPT ![g] = "ended"]
    /\ started' = isStarted /\ telegramReady' = isReady
    /\ UNCHANGED <<storage, process, work, probe, history, quotes>>

\* The worker that has an update finishes it first.
BotEnds ==
    /\ group["bot"] = "on" /\ stopping /\ \A w \in Workers : work[w] = Idle
    /\ Ends("bot", started, FALSE) /\ UNCHANGED <<stopping, faults>>

\* Mutant: the flag is not lowered.
StaysStarted == TRUE
AfterMarket  == FALSE

MarketEnds ==
    /\ group["market"] = "on" /\ stopping
    /\ Ends("market", AfterMarket, telegramReady) /\ UNCHANGED <<stopping, faults>>

\* Mutant: the error of the server is not returned.
Swallowed     == stopping
WithItsError  == TRUE

\* The port is taken, or accepting connections fails.
ServerFails ==
    /\ group["server"] = "on" /\ group["stopper"] = "off" /\ Fault
    /\ Ends("server", started, telegramReady) /\ stopping' = WithItsError

ServerEnds ==
    /\ group["server"] # "ended" /\ group["stopper"] # "off"
    /\ Ends("server", started, telegramReady) /\ UNCHANGED <<stopping, faults>>

\* Shutdown waits for requests, which end within its ten seconds.
ShutdownEnds ==
    /\ group["stopper"] = "on" /\ probe = NoProbe
    /\ Ends("stopper", started, telegramReady) /\ UNCHANGED <<stopping, faults>>

Signal ==
    /\ pc = "up" /\ ~stopping /\ Fault
    /\ stopping' = TRUE
    /\ UNCHANGED <<storage, process, group, started, telegramReady, work, probe, history, quotes>>

\* group.Wait has returned, the database is closed.
Exit ==
    /\ pc = "up" /\ \A g \in Goroutines : group[g] = "ended"
    /\ Gone /\ UNCHANGED <<storage, faults>>

Crash ==
    /\ pc # "down" /\ Fault
    /\ tx' = None /\ UNCHANGED disk
    /\ Gone

-----------------------------------------------------------------------------
(* UI.quote and UI.usdQuote: a calculation is saved, then sent with its id on the buttons. *)

Does(w, job) == work' = [work EXCEPT ![w] = job] /\ UNCHANGED <<process, running, probe>>
Goes(w, to)  == Does(w, [work[w] EXCEPT !.pc = to])

\* An update that is taken when the context is done fails at its first call.
Ask(w) ==
    /\ group["bot"] = "on" /\ ~stopping /\ work[w] = Idle /\ quotes < MaxQuotes
    /\ quotes' = quotes + 1
    /\ \E u \in Users :
         /\ \A v \in Workers : work[v] # Idle => work[v].user # u
         /\ Does(w, [pc |-> "begin", user |-> u, calc |-> quotes', id |-> 0])
    /\ UNCHANGED <<storage, history, faults>>

\* Save is the only one at work with the database, but its steps may be cut off anywhere.
Save(w) ==
    /\ ~stopping /\ UNCHANGED <<buttons, quotes, faults>>
    /\ LET j == work[w] IN
       \/ j.pc = "begin"  /\ BeginTx(w) /\ Goes(w, "insert") /\ UNCHANGED saved
       \/ j.pc = "insert" /\ Insert(j.user, j.calc)
                          /\ Does(w, [j EXCEPT !.pc = "trim", !.id = tx.data.last + 1])
                          /\ UNCHANGED saved
       \/ j.pc = "trim"   /\ Trim(j.user) /\ Goes(w, "commit") /\ UNCHANGED saved
       \/ j.pc = "commit" /\ Commit /\ Goes(w, "send")
                          /\ saved' = saved \cup {[id |-> j.id, user |-> j.user, calc |-> j.calc]}

\* Mutant: the error of Save is overlooked.
SendsAnyway(j)   == [j EXCEPT !.pc = "send"]
AfterLostSave(j) == Idle

\* A call fails; when the context is done every call does.
SaveFails(w) ==
    /\ work[w].pc \in Saving
    /\ IF stopping THEN UNCHANGED faults ELSE Fault
    /\ Rollback(w) /\ Does(w, AfterLostSave(work[w]))
    /\ UNCHANGED <<history, quotes>>

Reply(w) ==
    LET j == work[w] IN
    /\ j.pc = "send" /\ Does(w, Idle)
    /\ buttons' = IF stopping THEN buttons
                  ELSE buttons \cup {[id |-> j.id, user |-> j.user, calc |-> j.calc]}
    /\ UNCHANGED <<storage, saved, quotes, faults>>

-----------------------------------------------------------------------------
(* GET /ready. *)

Checked(p) == probe' = p /\ UNCHANGED <<storage, process, running, work, history, quotes, faults>>

\* alive is history: neither the bot nor the refreshers had ended when the request came.
Request ==
    /\ probe = NoProbe /\ group["server"] = "on" /\ group["stopper"] = "off"
    /\ Checked([pc |-> "started", alive |-> "ended" \notin {group["bot"], group["market"]}])

Passed(to) == Checked([probe EXCEPT !.pc = to])
Refuse    == Checked(NoProbe)

\* The ping needs the connection; the route is calculated from the market, which may not do.
Check ==
    \/ probe.pc = "started"  /\ IF started THEN Passed("telegram") ELSE Refuse
    \/ probe.pc = "telegram" /\ IF telegramReady THEN Passed("ping") ELSE Refuse
    \/ probe.pc = "ping"     /\ ((Connected /\ Passed("route")) \/ Refuse)
    \/ probe.pc = "route"    /\ (Passed("ready") \/ Refuse)
    \/ probe.pc = "ready"    /\ Refuse

-----------------------------------------------------------------------------
Opens == Skip \/ Migrate \/ RecordVersion \/ CommitSchema \/ Launch
Work(w) == Save(w) \/ (stopping /\ SaveFails(w)) \/ Reply(w)
Stops == BotEnds \/ MarketEnds \/ ServerEnds \/ ShutdownEnds \/ Exit

Process == Start \/ Opens \/ (\E g \in Goroutines : Runs(g)) \/ Stops

Next ==
    \/ Process
    \/ StartFails \/ ServerFails \/ Signal \/ Crash
    \/ \E w \in Workers : Ask(w) \/ Save(w) \/ SaveFails(w) \/ Reply(w)
    \/ Request \/ Check

\* The container is restarted, the goroutines are scheduled, calls end.
Spec == Init /\ [][Next]_vars
             /\ WF_vars(Process) /\ WF_vars(Check) /\ \A w \in Workers : WF_vars(Work(w))

-----------------------------------------------------------------------------
(* Properties *)

JobType == [pc : {"idle"}] \cup
           [pc : Saving \cup {"send"}, user : Users, calc : 1..MaxQuotes, id : Nat]

ProbeType == [pc : {"none"}] \cup
             [pc : {"started", "telegram", "ping", "route", "ready"}, alive : BOOLEAN]

\* The shape of the state; a transaction, and with it the only connection, is in the hands of
\* the start or of a worker that is saving, on every error path too.
TypeOK ==
    /\ disk \in DiskType /\ tx \in TxType \cup {None}
    /\ pc \in {"down", "open", "telegram", "up"} /\ version \in Versions
    /\ file \in 1..(Migrations + 1) /\ executed \in BOOLEAN
    /\ group \in [Goroutines -> {"off", "on", "ended"}]
    /\ stopping \in BOOLEAN /\ started \in BOOLEAN /\ telegramReady \in BOOLEAN
    /\ work \in [Workers -> JobType]
    /\ probe \in ProbeType
    /\ buttons \subseteq RowType /\ saved \subseteq RowType
    /\ quotes \in 0..MaxQuotes /\ faults \in 0..MaxFaults
    /\ tx # None => \/ tx.owner = "init" /\ pc = "open"
                    \/ tx.owner \in Workers /\ work[tx.owner].pc \in {"insert", "trim", "commit"}

\* README: embedded migrations are applied in a transaction at startup, a version is recorded
\* once.  The file never holds a migration that is not recorded or the other way round, and a
\* binary that went past its start finds all of its own, whatever version ran before it.
SchemaWhole ==
    /\ disk.tables = disk.applied
    /\ pc \in {"telegram", "up"} => 1..version \subseteq disk.applied

\* README: the history has the last hundred calculations of a user; neither the others nor a
\* crash between the insertion and the deletion take one away or leave one too many.
LastOnesKept ==
    \A u \in Users :
        LET own == {r \in saved : r.user = u} IN
        {r \in disk.rows : r.user = u} = {r \in own : Cardinality({s \in own : s.id > r.id}) < Keep}

\* README: the details of a calculation are shown to its owner; a button shows the one it was
\* sent with or none, although ids of transactions that failed are given out again.
ShowsWhatWasAsked ==
    \A b \in buttons, u \in Users : \A r \in Load(u, b.id) : u = b.user /\ r.calc = b.calc

\* README: ready means that the refreshers run and Telegram is initialised.  The flags are read
\* one after another while the process stops; they had not ended when the request came.
ReadyIsEarned == probe.pc = "ready" => probe.alive

\* Whatever failed before, a process that is restarted comes up: no crash between two
\* migrations leaves a file that a start cannot cope with.
StartsAgain == pc = "down" ~> pc = "up"

\* When one of the bot, the refreshers and the server has ended, the process ends, so that the
\* restart policy of the container applies; it does not stay half alive.
NeverHalfAlive == (\E g \in Goroutines : group[g] = "ended") ~> pc = "down"
=============================================================================
