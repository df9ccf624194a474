------------------------------ MODULE Panels ------------------------------
(***************************************************************************)
(* The Telegram front end (internal/telegram): two workers take updates    *)
(* off one queue, serialise them per user with a striped lock, and keep    *)
(* one menu panel per user.  The user's row of table user_ui names the     *)
(* screen the panel shows, the message that carries it, a revision and     *)
(* the time of the last save.  Every button of a panel carries the         *)
(* revision under which the panel was drawn.                               *)
(*                                                                         *)
(* A handler is a short script of steps.  "todo" is the step a worker is   *)
(* in and "then" the one after it; storage calls and Telegram calls are    *)
(* separate actions, so that another worker, a failure, the handler's      *)
(* deadline or a crash of the process may fall between any two of them.    *)
(***************************************************************************)
EXTENDS Integers, Sequences, FiniteSets

CONSTANTS
    Users, Workers, Slots,
    SlotOf,        \* the stripe of userLocks a user hashes to
    Nobody,        \* the holder of a free lock, the author of no update
    Kinds,         \* settings with an input screen: rate, orders, success, country
    Providers,     \* P2P platforms with a bank of their own: bybit, wallet
    Values,        \* values a setting can take
    Commands,      \* what commands may be sent, a subset of AllCommands
    Starts,        \* what a chat may start from
    Texts,         \* what kinds of plain text may be sent, a subset of AllTexts
    Patience,      \* how long an input stays open (1800 s in the code)
    \* bounds of a finite instance
    QueueCap, MaxUpdates, MaxNow, MaxFaults, MaxCrashes

VARIABLES
    ui,        \* user_ui: the row of each user
    settings,  \* user_preferences, users, provider_payments: what the user chose
    chat,      \* the messages of each private chat, the last one at the end
    queue,     \* updates received and not yet taken by a worker
    lock,      \* userLocks
    job,       \* what each worker is doing
    now, sent, faults, crashes,
    wrote      \* history: at which revision each setting was last stored

vars == <<ui, settings, chat, queue, lock, job, now, sent, faults, crashes, wrote>>

Unset   == "unset" \* no value stored
AnyBank == "any"   \* the stored choice of any bank

(***************************************************************************)
(* Screens.  The state column holds the screen's name, except that the     *)
(* keyboard shown after a failed USD quote belongs to state amount:usd.    *)
(***************************************************************************)
Blank      == <<"", "">>
Home       == <<"home", "">>
Settings   == <<"settings", "">>
Fallback   == <<"fallback", "">>
Banks      == <<"banks", "">>
Bank(p)    == <<"banks", p>>
Input(k)   == <<"input", k>>
Amount(m)  == <<"amount", m>>
Retry      == <<"retry", "">>
Plain      == <<"plain", "">>
Typed      == <<"typed", "">>
Result(m)  == <<"result", m>>
Detail(m)  == <<"detail", m>>
Legacy     == <<"legacy", "">>

Modes   == {"btc", "usd"}
Panels  == {Home, Settings, Fallback, Banks, Retry} \cup {Bank(p) : p \in Providers}
             \cup {Input(k) : k \in Kinds} \cup {Amount(m) : m \in Modes}
Others  == {Plain, Typed, Legacy} \cup {Result(m) : m \in Modes} \cup {Detail(m) : m \in Modes}
StateOf(s) == IF s = Retry THEN Amount("usd") ELSE s
States  == {Blank} \cup (Panels \ {Retry})
AwaitsInput(s) == s[1] \in {"input", "amount"}

Keys == Kinds \cup Providers \cup {"fallback", "payment"}

(***************************************************************************)
(* Steps of a handler; a step is also what a button or a command asks for. *)
(***************************************************************************)
Step(op, scr, key, val) == [op |-> op, scr |-> scr, key |-> key, val |-> val]
Do(op)      == Step(op, Blank, "", Unset)
Show(s)     == Step("panel", s, "", Unset)
Set(k, v)   == Step("set", Blank, k, v)
Pay(v)      == Step("pay", Blank, "", v)
Quote(m)    == Step("quote", Blank, m, Unset)
Load(m)     == Step("load", Blank, m, Unset)
Details(m)  == Step("details", Blank, m, Unset)
Reply(s)    == Step("reply", s, "", Unset)
Pending(c)  == Step("pending", Blank, c, Unset)
Stop        == Do("stop")

StepSet(ops, scrs, keys, vals) == [op : ops, scr : scrs, key : keys, val : vals]
AllCommands == StepSet({"panel"}, {Home, Settings, Banks, Input("rate")}, {""}, {Unset})
                 \cup StepSet({"set"}, {Blank}, {"rate"}, Values)
                 \cup StepSet({"pay"}, {Blank}, {""}, Values)
                 \cup StepSet({"reply"}, {Plain}, {""}, {Unset})
AllTexts    == {"number", "word", "usd", "btc"}

ButtonSteps == StepSet({"panel"}, Panels, {""}, {Unset})
                 \cup StepSet({"set"}, {Blank}, Keys, Values \cup {AnyBank})
                 \cup StepSet({"load", "details"}, {Blank}, Modes, {Unset})
Steps       == ButtonSteps
                 \cup StepSet({"stop", "new", "press", "finish", "clear"}, {Blank}, {""}, {Unset})
                 \cup StepSet({"pay"}, {Blank}, {""}, Values)
                 \cup StepSet({"quote"}, {Blank}, Modes, {Unset})
                 \cup StepSet({"reply"}, Others, {""}, {Unset})
                 \cup StepSet({"pending"}, {Blank}, AllTexts, {Unset})

\* The buttons under a message of a chat.
Buttons(s) == {b \in ButtonSteps :
    \/ s = Home     /\ b \in {Show(Amount("btc")), Show(Amount("usd")), Show(Settings)}
    \/ s = Settings /\ b \in {Show(Input(k)) : k \in Kinds}
                               \cup {Show(Banks), Show(Fallback), Show(Home)}
    \/ s = Fallback /\ b \in {Set("fallback", v) : v \in Values} \cup {Show(Settings)}
    \/ s = Banks    /\ b \in {Show(Bank(p)) : p \in Providers} \cup {Show(Settings)}
    \/ \E p \in Providers :
         s = Bank(p) /\ b \in {Set(p, v) : v \in Values \cup {AnyBank}} \cup {Show(s), Show(Banks)}
    \/ \E k \in Kinds :
         s = Input(k) /\ b \in {Set(k, v) : v \in {x \in Values : k # "rate"}} \cup {Show(Settings)}
    \/ s = Amount("btc") /\ b \in {Show(Input("rate")), Show(Home)}
    \/ s = Amount("usd") /\ b = Show(Home)
    \/ s = Retry    /\ b \in {Show(Amount("usd")), Show(Settings), Show(Home)}
    \/ \E m \in Modes :
         \/ s = Result(m) /\ b \in {Load(m), Details(m), Show(Home)}
         \/ s = Detail(m) /\ b \in {Load(m), Show(Home)}
    \/ s = Result("btc") /\ b = Show(Settings)
    \/ s = Legacy   /\ b \in {Set(p, v) : p \in Providers, v \in Values}
                               \cup {Show(Input("rate")), Show(Banks)}}

\* The names of kinds and platforms are told apart from each other and from no name.
ASSUME PanelsAssumption ==
    /\ SlotOf \in [Users -> Slots]
    /\ Nobody \notin Workers \cup Users
    /\ "rate" \in Kinds /\ "" \notin Providers
    /\ Commands \subseteq AllCommands /\ Texts \subseteq AllTexts
    /\ Starts \subseteq {Blank, Legacy} \cup Panels
    /\ {Patience, QueueCap, MaxUpdates, MaxNow, MaxFaults, MaxCrashes} \subseteq Nat

RowOf(state, panel, rev, at) == [state |-> state, panel |-> panel, rev |-> rev, at |-> at]
NoRow    == RowOf(Blank, 0, 0, 0)
NoUpdate == [user |-> Nobody, src |-> "none", rev |-> 0, act |-> Stop, at |-> 0]
Idle     == [pc |-> "idle", upd |-> NoUpdate, todo |-> Stop, then |-> Stop,
             row |-> NoRow, late |-> FALSE]

-----------------------------------------------------------------------------
(***************************************************************************)
(* A chat starts empty, or with a message an older version left in it      *)
(* (its buttons carry no revision), or in the middle of a conversation: a  *)
(* panel drawn at the fourth revision, by when any screen can be open.     *)
(***************************************************************************)
Init ==
    /\ \E start \in [Users -> Starts] :
         /\ ui = [u \in Users |->
                    IF start[u] \in Panels
                    THEN RowOf(StateOf(start[u]), 1, 4, 0)
                    ELSE NoRow]
         /\ chat = [u \in Users |->
                      IF start[u] = Blank THEN <<>>
                      ELSE << [scr |-> start[u], rev |-> ui[u].rev] >>]
    /\ settings = [u \in Users |-> [k \in Keys |-> Unset]]
    /\ queue = <<>>
    /\ lock = [s \in Slots |-> Nobody]
    /\ job = [w \in Workers |-> Idle]
    /\ now = 0 /\ sent = 0 /\ faults = 0 /\ crashes = 0
    /\ wrote = [u \in Users |-> [k \in Keys |-> 0]]

-----------------------------------------------------------------------------
(* The user and Telegram's side of the queue. *)

MayPost == Len(queue) < QueueCap /\ sent < MaxUpdates

Post(u, msg, upd) ==
    /\ MayPost
    /\ sent' = sent + 1
    /\ queue' = Append(queue, upd)
    /\ chat' = [chat EXCEPT ![u] = @ \o msg]
    /\ UNCHANGED <<ui, settings, lock, job, now, faults, crashes, wrote>>

Type(u, src, act) ==
    Post(u, << [scr |-> Typed, rev |-> 0] >>,
         [user |-> u, src |-> src, rev |-> 0, act |-> act, at |-> Len(chat[u]) + 1])

SendCommand(u) == \E c \in Commands : Type(u, "command", c)
SendCancel(u)  == Type(u, "cancel", Show(Home))
SendText(u)    == \E c \in Texts : Type(u, "text", Pending(c))

\* A press of a button still to be seen in the chat, under the newest or an old message.
Press(u) ==
    MayPost /\ \E i \in 1..Len(chat[u]) : \E act \in Buttons(chat[u][i].scr) :
        Post(u, <<>>, [user |-> u, src |-> IF chat[u][i].rev > 0 THEN "panel" ELSE "outside",
                       rev |-> chat[u][i].rev, act |-> act, at |-> Len(chat[u])])

Tick ==
    /\ now < MaxNow /\ now' = now + 1
    /\ UNCHANGED <<ui, settings, chat, queue, lock, job, sent, faults, crashes, wrote>>

-----------------------------------------------------------------------------
(* Helpers of the handler's steps. *)

Shared  == <<queue, lock, now, sent, crashes>>
At(w, op) == job[w].pc = "run" /\ job[w].todo.op = op
User(w) == job[w].upd.user
Row(w)  == ui[User(w)]

Turn(w, pc, todo, then, row) ==
    job' = [job EXCEPT ![w] = [pc |-> pc, upd |-> job[w].upd, todo |-> todo, then |-> then,
                               row |-> row, late |-> job[w].late]]
Goto(w, step)   == Turn(w, "run", step, job[w].then, job[w].row)
Advance(w)      == Turn(w, "run", job[w].then, Stop, job[w].row)
Phase(w, pc)    == Turn(w, pc, job[w].todo, job[w].then, job[w].row)
\* The read of the row and the change to be saved by the next step.
Prepare(w, row) == Turn(w, "save", job[w].todo, job[w].then, row)

\* A storage or Telegram call answers, or it fails: once the handler's 15 seconds
\* are over every call does.
Answers(w) == ~job[w].late /\ UNCHANGED faults
Fails(w) ==
    \/ job[w].late /\ UNCHANGED faults
    \/ ~job[w].late /\ faults < MaxFaults /\ faults' = faults + 1

Expire(w) ==
    /\ job[w].pc \notin {"idle", "lock"} /\ ~job[w].late /\ faults < MaxFaults
    /\ faults' = faults + 1
    /\ job' = [job EXCEPT ![w].late = TRUE]
    /\ UNCHANGED <<ui, settings, chat, wrote, Shared>>

-----------------------------------------------------------------------------
(* Handle: a worker takes an update, waits for its user's lock and starts. *)

Take(w) ==
    /\ job[w].pc = "idle" /\ queue # <<>>
    /\ job' = [job EXCEPT ![w] = [Idle EXCEPT !.pc = "lock", !.upd = Head(queue)]]
    /\ queue' = Tail(queue)
    /\ UNCHANGED <<ui, settings, chat, lock, now, sent, faults, crashes, wrote>>

\* Mutant: the handler does not lock.
EntersUnlocked(w) == TRUE
MayEnter(w) == lock[SlotOf[User(w)]] = Nobody

\* The lock is taken, then EnsureUser, then the dispatch on the kind of update.  A command
\* other than /cancel, and a button that is not of a panel, begin with newPanel.
Begin(w) ==
    LET upd == job[w].upd
        fresh == upd.src \in {"command", "outside"}
        first == IF fresh THEN Do("new") ELSE IF upd.src = "panel" THEN Do("press") ELSE upd.act
    IN
    /\ job[w].pc = "lock" /\ MayEnter(w)
    /\ lock' = [lock EXCEPT ![SlotOf[upd.user]] = w]
    /\ \/ /\ Answers(w)
          /\ Turn(w, "run", first, IF fresh THEN upd.act ELSE Stop, job[w].row)
       \/ /\ Fails(w)
          /\ Goto(w, IF upd.src \in {"panel", "outside"} THEN Stop ELSE Reply(Plain))
    /\ UNCHANGED <<ui, settings, chat, queue, now, sent, crashes, wrote>>

\* Mutant: a return path without the deferred unlock.
StaysLocked(w) == lock
Unlocked(w) == [lock EXCEPT ![SlotOf[User(w)]] = Nobody]

Finish(w) ==
    /\ At(w, "stop")
    /\ lock' = Unlocked(w)
    /\ job' = [job EXCEPT ![w] = Idle]
    /\ UNCHANGED <<ui, settings, chat, queue, now, sent, faults, crashes, wrote>>

-----------------------------------------------------------------------------
(* newPanel, panel and clearInput: read the row, change it, save it, show it. *)

\* Mutants: the old panel stays; the row starts over.
SamePanel(w)    == Row(w)
ForgottenRow(w) == RowOf(Row(w).state, 0, 0, 0)
NoPanel(w)      == RowOf(Row(w).state, 0, Row(w).rev, Row(w).at)

NewPanel(w) ==
    /\ At(w, "new")
    /\ \/ Answers(w) /\ Prepare(w, NoPanel(w))
       \/ Fails(w) /\ Advance(w)
    /\ UNCHANGED <<ui, settings, chat, wrote, Shared>>

\* Mutant: settings that cannot be read are opened again.
OpensAgain(w) == {Show(job[w].todo.scr)}
\* A row that cannot be read ends in a notice; the settings screen reads the settings
\* first and falls back to the home screen; a bank button looks the user up once more.
Instead(w) ==
    {s \in {Reply(Plain), Show(Home), Stop} :
        \/ s = Reply(Plain)
        \/ s = Show(Home) /\ job[w].todo.scr = Settings
        \/ s = Stop /\ job[w].todo.scr[1] = "banks" /\ job[w].upd.src # "command"}

OpenPanel(w) ==
    LET scr == job[w].todo.scr IN
    /\ At(w, "panel")
    /\ \/ /\ Answers(w)
          /\ Prepare(w, RowOf(StateOf(scr), Row(w).panel, Row(w).rev + 1, Row(w).at))
       \/ /\ Fails(w)
          /\ \E next \in Instead(w) : Goto(w, next)
    /\ UNCHANGED <<ui, settings, chat, wrote, Shared>>

ClearInput(w) ==
    /\ At(w, "clear")
    /\ \/ Answers(w) /\ Prepare(w, RowOf(Home, Row(w).panel, Row(w).rev, Row(w).at))
       \/ Fails(w) /\ Advance(w)
    /\ UNCHANGED <<ui, settings, chat, wrote, Shared>>

\* Mutant: the panel is shown all the same.
ShowsUnsaved(w) == Phase(w, "send")
AfterLostSave(w) == Advance(w)

Stamped(row) == RowOf(row.state, row.panel, row.rev, now)

\* SaveUI stamps the row.  A panel whose row was not saved is not shown.
SaveUI(w) ==
    LET row == job[w].row
        saved == [ui EXCEPT ![User(w)] = Stamped(row)]
    IN
    /\ job[w].pc = "save"
    /\ \/ /\ Answers(w) /\ job[w].todo.op = "panel"
          /\ ui' = saved
          /\ Phase(w, IF row.panel # 0 THEN "edit" ELSE "send")
       \/ /\ Answers(w) /\ job[w].todo.op # "panel"
          /\ ui' = saved /\ Advance(w)
       \/ Fails(w) /\ AfterLostSave(w) /\ UNCHANGED ui
    /\ UNCHANGED <<settings, chat, wrote, Shared>>

Drawn(w) == [scr |-> job[w].todo.scr, rev |-> job[w].row.rev]

\* A failed call may have reached Telegram all the same.
EditPanel(w) ==
    LET edited == [chat EXCEPT ![User(w)][job[w].row.panel] = Drawn(w)] IN
    /\ job[w].pc = "edit"
    /\ \/ Answers(w) /\ chat' = edited /\ Advance(w)
       \/ Fails(w) /\ chat' \in {chat, edited} /\ Phase(w, "send")
    /\ UNCHANGED <<ui, settings, wrote, Shared>>

Carried(w, id) == RowOf(job[w].row.state, id, job[w].row.rev, job[w].row.at)

\* Mutant: the panel of a failed send is remembered.
RemembersLostPanel(w) ==
    Turn(w, "keep", job[w].todo, job[w].then, Carried(w, Len(chat[User(w)]) + 1))
AfterLostPanel(w) == Advance(w)

SendPanel(w) ==
    LET longer == [chat EXCEPT ![User(w)] = Append(@, Drawn(w))] IN
    /\ job[w].pc = "send"
    /\ \/ /\ Answers(w) /\ chat' = longer
          /\ Turn(w, "keep", job[w].todo, job[w].then,
                  Carried(w, Len(chat[User(w)]) + 1))
       \/ Fails(w) /\ chat' \in {chat, longer} /\ AfterLostPanel(w)
    /\ UNCHANGED <<ui, settings, wrote, Shared>>

KeepPanel(w) ==
    /\ job[w].pc = "keep"
    /\ \/ Answers(w) /\ ui' = [ui EXCEPT ![User(w)] = Stamped(job[w].row)]
       \/ Fails(w) /\ UNCHANGED ui
    /\ Advance(w)
    /\ UNCHANGED <<settings, chat, wrote, Shared>>

\* Messages outside the panel: results, saved details, plain notices.
SendReply(w) ==
    /\ At(w, "reply")
    /\ LET longer == [chat EXCEPT ![User(w)] = Append(@, [scr |-> job[w].todo.scr, rev |-> 0])]
       IN \/ Answers(w) /\ chat' = longer
          \/ Fails(w) /\ chat' \in {chat, longer}
    /\ Advance(w)
    /\ UNCHANGED <<ui, settings, wrote, Shared>>

-----------------------------------------------------------------------------
(* uiCallback: a button of another revision redraws the open screen. *)

\* Mutant: the revision is not compared.
AcceptsAny(w) == TRUE
IsCurrent(w) == job[w].upd.rev = Row(w).rev

UiCallback(w) ==
    LET state == Row(w).state
        redraw == IF AwaitsInput(state) THEN Show(state) ELSE Show(Settings)
    IN
    /\ At(w, "press")
    /\ \/ /\ Answers(w)
          /\ Goto(w, IF IsCurrent(w) THEN job[w].upd.act ELSE redraw)
       \/ Fails(w) /\ Goto(w, Stop)
    /\ UNCHANGED <<ui, settings, chat, wrote, Shared>>

Writes(w, keys) ==
    wrote' = [wrote EXCEPT ![User(w)] = [k \in Keys |-> IF k \in keys THEN Row(w).rev ELSE @[k]]]

\* A bank chosen from an older list may be offered no longer.
MayBeGone(k, v) == k \in Providers /\ v # AnyBank

\* saveSetting, fallback:0/1 and bankset.  A bank that is gone is not stored.
SaveSetting(w) ==
    LET k == job[w].todo.key
        v == job[w].todo.val
    IN
    /\ At(w, "set")
    /\ \/ /\ Answers(w) /\ Goto(w, Show(Settings))
          /\ settings' = [settings EXCEPT ![User(w)][k] = v]
          /\ Writes(w, {k})
       \/ /\ Answers(w) /\ MayBeGone(k, v) /\ Goto(w, Show(Bank(k)))
          /\ UNCHANGED <<settings, wrote>>
       \/ /\ Fails(w)
          /\ \/ k \in Kinds /\ Goto(w, Show(Input(k)))
             \/ k = "fallback" /\ Goto(w, Show(Settings))
             \/ k \in Providers /\ (Goto(w, Reply(Plain)) \/ Goto(w, Stop))
          /\ UNCHANGED <<settings, wrote>>
    /\ UNCHANGED <<ui, chat, Shared>>

\* /settings <payment>: the general payment method replaces the choice for each platform.
SetPayment(w) ==
    /\ At(w, "pay")
    /\ \/ /\ Answers(w)
          /\ settings' = [settings EXCEPT ![User(w)] =
                            [k \in Keys |-> IF k \in Providers THEN Unset
                                            ELSE IF k = "payment" THEN job[w].todo.val
                                            ELSE @[k]]]
          /\ Writes(w, Providers \cup {"payment"})
       \/ Fails(w) /\ UNCHANGED <<settings, wrote>>
    /\ Goto(w, Reply(Plain))
    /\ UNCHANGED <<ui, chat, Shared>>

\* What plain text means when no input is open, or when it names its currency.
QuoteFor(c) == IF c = "usd" THEN Quote("usd") ELSE Quote("btc")
Fits(k, c)  == (c = "word") <=> (k = "country")

PendingInput(w) ==
    LET c == job[w].todo.key
        state == Row(w).state
        patient == now - Row(w).at <= Patience
        answer == AwaitsInput(state) /\ patient /\ c \notin {"usd", "btc"}
    IN
    /\ At(w, "pending")
    /\ \/ Fails(w) /\ Goto(w, QuoteFor(c))
       \/ /\ Answers(w)
          /\ \/ ~AwaitsInput(state) /\ Goto(w, QuoteFor(c))
             \/ AwaitsInput(state) /\ ~patient /\ Goto(w, Show(Home))
             \/ AwaitsInput(state) /\ patient /\ c \in {"usd", "btc"} /\ Goto(w, QuoteFor(c))
             \/ answer /\ state[1] = "amount" /\ Goto(w, Quote(state[2]))
             \/ answer /\ state[1] = "input" /\ Goto(w, Show(state))
             \/ /\ answer /\ state[1] = "input" /\ Fits(state[2], c)
                /\ \E v \in Values : Goto(w, Set(state[2], v))
    /\ UNCHANGED <<ui, settings, chat, wrote, Shared>>

-----------------------------------------------------------------------------
(* Calculations.  The text may be no amount, and the market may offer no   *)
(* route; the stored calculation may be gone.                              *)
Calculate(w) ==
    LET m == job[w].todo.key IN
    /\ At(w, "quote")
    /\ \/ /\ Answers(w)
          /\ \/ Turn(w, "run", Do("finish"), Reply(Result(m)), job[w].row)
             \/ Goto(w, Show(Amount(m)))
             \/ m = "usd" /\ Goto(w, Show(Retry))
       \/ /\ Fails(w)
          /\ \E step \in {Show(Amount(m)), Show(Settings)}
                           \cup {Reply(Plain) : x \in {m} \cap {"btc"}} : Goto(w, step)
    /\ UNCHANGED <<ui, settings, chat, wrote, Shared>>

LoadResult(w) ==
    LET m == job[w].todo.key IN
    /\ At(w, "load") \/ At(w, "details")
    /\ \/ /\ Answers(w)
          /\ Goto(w, IF At(w, "load") THEN Quote(m) ELSE Reply(Detail(m)))
       \/ Answers(w) /\ Goto(w, Show(Home))
       \/ Fails(w) /\ Goto(w, Show(Home))
    /\ UNCHANGED <<ui, settings, chat, wrote, Shared>>

FinishInput(w) ==
    /\ At(w, "finish")
    /\ \/ /\ Answers(w)
          /\ Goto(w, IF Row(w).panel # 0 /\ AwaitsInput(Row(w).state)
                     THEN Show(Home) ELSE Do("clear"))
       \/ Fails(w) /\ Goto(w, Do("clear"))
    /\ UNCHANGED <<ui, settings, chat, wrote, Shared>>

-----------------------------------------------------------------------------
\* The updates of handlers cut short; the bot has two workers.
Busy == {w \in Workers : job[w].pc # "idle"}
CutShort == {<<>>} \cup {<<job[w].upd>> : w \in Busy}
              \cup {<<job[p[1]].upd, job[p[2]].upd>> : p \in {x \in Busy \X Busy : x[1] # x[2]}}

\* The process dies and its handlers with it.  Telegram delivers again what comes after the
\* last update whose receipt was confirmed; what came before is lost.
Crash ==
    /\ crashes < MaxCrashes /\ crashes' = crashes + 1
    /\ \/ \E again \in CutShort : queue' = again \o queue
       \/ \E i \in 1..Len(queue) : queue' = SubSeq(queue, i + 1, Len(queue))
    /\ lock' = [s \in Slots |-> Nobody]
    /\ job' = [w \in Workers |-> Idle]
    /\ UNCHANGED <<ui, settings, chat, now, sent, faults, wrote>>

Work(w) ==
    \/ Take(w) \/ Begin(w) \/ Finish(w)
    \/ NewPanel(w) \/ OpenPanel(w) \/ ClearInput(w) \/ SaveUI(w)
    \/ EditPanel(w) \/ SendPanel(w) \/ KeepPanel(w) \/ SendReply(w)
    \/ UiCallback(w) \/ SaveSetting(w) \/ SetPayment(w) \/ PendingInput(w)
    \/ Calculate(w) \/ LoadResult(w) \/ FinishInput(w)

Next ==
    \/ \E u \in Users : SendCommand(u) \/ SendCancel(u) \/ SendText(u) \/ Press(u)
    \/ \E w \in Workers : Work(w) \/ Expire(w)
    \/ Tick \/ Crash

Spec == Init /\ [][Next]_vars

\* A worker keeps working: every storage and Telegram call returns within the handler's
\* 15 seconds, and a sync.Mutex hands itself to a waiter that has waited for long.
Fairness == \A w \in Workers : WF_vars(Work(w)) /\ SF_vars(Begin(w))
FairSpec == Spec /\ Fairness

-----------------------------------------------------------------------------
(* Properties *)

RowType    == [state : States, panel : Nat, rev : Nat, at : Nat]
UpdateType == [user : Users, src : {"command", "cancel", "text", "panel", "outside"},
               rev : Nat, act : Steps, at : Nat]
Phases     == {"idle", "lock", "run", "save", "edit", "send", "keep"}
JobType    == [pc : Phases, upd : UpdateType \cup {NoUpdate}, todo : Steps, then : Steps,
               row : RowType, late : BOOLEAN]

\* The shape of the state: rows, messages, handlers and locks.
TypeOK ==
    /\ ui \in [Users -> RowType]
    /\ settings \in [Users -> [Keys -> Values \cup {Unset, AnyBank}]]
    /\ chat \in [Users -> Seq([scr : Panels \cup Others, rev : Nat])]
    /\ queue \in Seq(UpdateType)
    /\ lock \in [Slots -> Workers \cup {Nobody}]
    /\ job \in [Workers -> JobType]
    /\ \A w \in Workers : job[w].pc # "idle" => job[w].upd \in UpdateType
    /\ now \in Nat /\ sent \in Nat /\ faults \in Nat /\ crashes \in Nat
    /\ wrote \in [Users -> [Keys -> Nat]]
    /\ \A u \in Users : ui[u].panel <= Len(chat[u])

Handling(w) == job[w].pc \notin {"idle", "lock"}

\* No button in a chat is newer than the stored revision, whatever failed or crashed: the
\* row is saved before its panel is shown.  A newer one could be accepted twice.
ButtonsNeverAhead ==
    \A u \in Users : \A i \in 1..Len(chat[u]) : chat[u][i].rev <= ui[u].rev

\* Two panels of a chat with one revision are the same screen, so that a button the
\* revision check lets through was drawn by the screen the row speaks of.
OneScreenPerRevision ==
    \A u \in Users : \A i, j \in 1..Len(chat[u]) :
        (chat[u][i].rev > 0 /\ chat[u][i].rev = chat[u][j].rev)
          => chat[u][i].scr = chat[u][j].scr

\* A panel's button writes a setting only while its revision is still the stored one:
\* the check of uiCallback holds until the write, the other worker notwithstanding.
PressIsCurrent ==
    \A w \in Workers :
        (At(w, "set") /\ job[w].upd.src = "panel") => job[w].upd.rev = Row(w).rev

\* A typed value goes to the setting whose input screen the row still shows.
TypedIntoOpenInput ==
    \A w \in Workers :
        (At(w, "set") /\ job[w].upd.src = "text") => Row(w).state = Input(job[w].todo.key)

\* A command or an outside button that leads to a menu, undisturbed, leaves the menu in a
\* message below it, and that message shows the stored revision.
MenuBelowCommand ==
    \A w \in Workers :
        (/\ At(w, "stop") /\ faults = 0
         /\ job[w].upd.src \in {"command", "outside"}
         /\ job[w].upd.act.op \in {"panel", "set"})
        => /\ Row(w).panel > job[w].upd.at
           /\ chat[User(w)][Row(w).panel].rev = Row(w).rev

\* What the invariants rest on.  The lock is held by the one handler of its users; a
\* handler's copy of the row is the stored row or the one revision after it; a panel being
\* shown is of the stored revision, which no other screen has.
HoldsLock == \A w \in Workers : Handling(w) => lock[SlotOf[User(w)]] = w

CopyIsFresh ==
    \A w \in Workers :
        /\ job[w].pc = "save" =>
             job[w].row.rev = Row(w).rev + (IF job[w].todo.op = "panel" THEN 1 ELSE 0)
        /\ job[w].pc \in {"edit", "send", "keep"} => job[w].row.rev = Row(w).rev
        /\ job[w].pc \in {"save", "edit", "send", "keep"} =>
             job[w].row.panel <= Len(chat[User(w)])
        /\ job[w].pc = "edit" => job[w].row.panel > 0

DrawnAlone ==
    \A w \in Workers : job[w].pc \in {"edit", "send"} =>
        /\ Row(w).rev > 0 /\ job[w].todo.op = "panel"
        /\ \A i \in 1..Len(chat[User(w)]) :
             chat[User(w)][i].rev = Row(w).rev => chat[User(w)][i].scr = job[w].todo.scr

ButtonOps == {"panel", "set", "load", "details"}
PressesAreButtons ==
    /\ \A i \in 1..Len(queue) : queue[i].src = "panel" => queue[i].act.op \in ButtonOps
    /\ \A w \in Workers : job[w].upd.src = "panel" =>
         /\ job[w].upd.act.op \in ButtonOps
         /\ job[w].todo.op # "pending" /\ job[w].then.op \in {"stop", "reply"}

PanelsInv ==
    /\ TypeOK /\ HoldsLock /\ CopyIsFresh /\ DrawnAlone /\ PressesAreButtons
    /\ ButtonsNeverAhead /\ OneScreenPerRevision /\ PressIsCurrent

\* Revisions never go back, across failures and restarts.
RevisionsGrow == [][\A u \in Users : ui'[u].rev >= ui[u].rev]_vars

\* README: outdated buttons do not overwrite newer values.
StaleButtonsKeepNewerValues ==
    \A w \in Workers :
        (At(w, "set") /\ job[w].upd.src = "panel")
          => wrote[User(w)][job[w].todo.key] < job[w].upd.rev

\* Every handler ends, whatever fails: no path of screens and fallbacks goes in circles,
\* and no handler waits for a lock for ever.
HandlersEnd == \A w \in Workers : job[w].pc # "idle" ~> job[w].pc = "idle"

\* Once the users fall silent, every update has been handled.
EverythingHandled == <>[](queue = <<>> /\ \A w \in Workers : job[w].pc = "idle")
=============================================================================
