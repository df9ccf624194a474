--------------------------- MODULE PanelsProofs ---------------------------
(***************************************************************************)
(* Theorems about Panels, for any users, workers, settings and bounds: the *)
(* type invariant, the revision discipline of the menu panels, the         *)
(* check-then-act safety of their buttons, where a typed value goes, where *)
(* a command leaves its menu and what an outdated button may overwrite.    *)
(***************************************************************************)
EXTENDS Panels, TLAPS

-----------------------------------------------------------------------------
(* Steps, screens and buttons. *)

\* What a button asks for is a step, and one that uiCallback may dispatch.
LEMMA ButtonsAreSteps ==
    \A s \in Panels \cup Others : \A b \in Buttons(s) : b \in ButtonSteps /\ b.op \in ButtonOps
<1>1. \A x \in ButtonSteps : x.op \in ButtonOps
    BY DEF ButtonSteps, ButtonOps, StepSet
<1> QED BY <1>1 DEF Buttons

\* The screens an input state names.
LEMMA StatesByName ==
    ASSUME NEW s \in States
    PROVE  /\ s[1] = "input" => s[2] \in Kinds /\ s = Input(s[2])
           /\ s[1] = "amount" => s[2] \in Modes /\ s = Amount(s[2])
<1>1. CASE s \in {Blank, Home, Settings, Fallback, Banks}
    <2>1. CASE s = Blank BY <2>1 DEF Blank
    <2>2. CASE s = Home BY <2>2 DEF Home
    <2>3. CASE s = Settings BY <2>3 DEF Settings
    <2>4. CASE s = Fallback BY <2>4 DEF Fallback
    <2>5. CASE s = Banks BY <2>5 DEF Banks
    <2> QED BY <1>1, <2>1, <2>2, <2>3, <2>4, <2>5
<1>2. CASE \E p \in Providers : s = <<"banks", p>>
    BY <1>2
<1>3. CASE \E k \in Kinds : s = <<"input", k>>
    BY <1>3 DEF Input
<1>4. CASE \E m \in Modes : s = <<"amount", m>>
    BY <1>4 DEF Amount
<1> QED BY <1>1, <1>2, <1>3, <1>4 DEF States, Panels, Bank, Input, Amount

\* The state a screen is stored under.
LEMMA StateOfType == \A s \in Panels : StateOf(s) \in States
    BY DEF States, StateOf, Panels, Retry, Amount, Modes

\* The steps the handlers name are steps.
LEMMA NamedSteps ==
    /\ \A s \in Panels : Show(s) \in Steps
    /\ \A s \in Others : Reply(s) \in Steps
    /\ \A k \in Keys, v \in Values \cup {AnyBank} : Set(k, v) \in Steps
    /\ \A v \in Values : Pay(v) \in Steps
    /\ \A m \in Modes : Quote(m) \in Steps /\ Load(m) \in Steps /\ Details(m) \in Steps
    /\ \A c \in AllTexts : Pending(c) \in Steps
    /\ Stop \in Steps /\ Do("new") \in Steps /\ Do("press") \in Steps
    /\ Do("finish") \in Steps /\ Do("clear") \in Steps
    BY DEF Steps, ButtonSteps, StepSet, Show, Reply, Set, Pay, Quote, Load, Details, Pending,
       Stop, Do, Step

\* The screens the handlers name are screens.
LEMMA NamedScreens ==
    /\ {Home, Settings, Fallback, Banks, Retry} \subseteq Panels
    /\ \A p \in Providers : Bank(p) \in Panels
    /\ \A k \in Kinds : Input(k) \in Panels
    /\ \A m \in Modes : Amount(m) \in Panels /\ Result(m) \in Others /\ Detail(m) \in Others
    /\ {Plain, Typed, Legacy} \subseteq Others
    BY DEF Panels, Others

\* What a command asks for is a step.
LEMMA CommandsAreSteps == \A c \in Commands : c \in Steps
<1>1. {Home, Settings, Banks, Input("rate")} \subseteq Panels /\ "rate" \in Keys /\ Plain \in Others
    BY PanelsAssumption, NamedScreens DEF Keys
<1>2. \A c \in AllCommands : c \in Steps
    BY <1>1 DEF AllCommands, Steps, ButtonSteps, StepSet
<1> QED BY <1>2, PanelsAssumption

\* What a typed text asks for is a step.
LEMMA TextsAreSteps == \A c \in Texts : Pending(c) \in Steps
    BY PanelsAssumption, NamedSteps

\* What a step's fields are, by its operation.
LEMMA StepFields ==
    ASSUME NEW s \in Steps
    PROVE  /\ s.op = "panel" => s.scr \in Panels
           /\ s.op = "reply" => s.scr \in Others
           /\ s.op = "set" => s.key \in Keys /\ s.val \in Values \cup {AnyBank}
           /\ s.op = "pay" => s.val \in Values
           /\ s.op \in {"quote", "load", "details"} => s.key \in Modes
           /\ s.op = "pending" => s.key \in AllTexts
    BY DEF Steps, ButtonSteps, StepSet

-----------------------------------------------------------------------------
(* Type correctness. *)

\* A handler that turns to another step stays well typed.
LEMMA JobMoves ==
    ASSUME TypeOK, NEW w \in Workers, job[w].pc # "idle",
           NEW pc \in Phases, NEW todo \in Steps, NEW then \in Steps, NEW row \in RowType,
           Turn(w, pc, todo, then, row)
    PROVE  /\ job' \in [Workers -> JobType]
           /\ \A x \in Workers : job'[x].pc # "idle" => job'[x].upd \in UpdateType
<1>1. job \in [Workers -> JobType] /\ job[w] \in JobType
    BY DEF TypeOK
<1>2. \A x \in Workers : job[x].pc # "idle" => job[x].upd \in UpdateType
    BY DEF TypeOK
<1>3. [pc |-> pc, upd |-> job[w].upd, todo |-> todo, then |-> then,
       row |-> row, late |-> job[w].late] \in JobType
    BY <1>1 DEF JobType
<1> QED BY <1>1, <1>2, <1>3 DEF Turn

\* A worker wrote the lock works for a user whose row and chat are well typed.
LEMMA RowsTyped ==
    ASSUME TypeOK, NEW w \in Workers, job[w].pc # "idle"
    PROVE  /\ User(w) \in Users /\ Row(w) \in RowType
           /\ job[w] \in JobType /\ job[w].upd \in UpdateType
           /\ chat[User(w)] \in Seq([scr : Panels \cup Others, rev : Nat])
    BY DEF TypeOK, User, Row, UpdateType

\* A worker at rest is well typed.
LEMMA IdleTyped == Idle \in JobType /\ NoRow \in RowType
    BY NamedSteps DEF Idle, JobType, NoRow, RowOf, RowType, Phases, States

\* A sequence of one element.
LEMMA Singleton == \A R, r : r \in R => <<r>> \in Seq(R) /\ Len(<<r>>) = 1
    OBVIOUS

\* The initial states are well typed.
LEMMA TypeInit == Init => TypeOK
<1> SUFFICES ASSUME Init PROVE TypeOK
    OBVIOUS
<1> PICK start \in [Users -> Starts] :
         /\ ui = [u \in Users |->
                    IF start[u] \in Panels
                    THEN RowOf(StateOf(start[u]), 1, 4, 0)
                    ELSE NoRow]
         /\ chat = [u \in Users |->
                      IF start[u] = Blank THEN <<>>
                      ELSE << [scr |-> start[u], rev |-> ui[u].rev] >>]
    BY DEF Init
<1>1. \A u \in Users : start[u] \in {Blank, Legacy} \cup Panels
    BY PanelsAssumption
<1>2. \A u \in Users : ui[u] \in RowType
    BY <1>1, IdleTyped, StateOfType DEF RowType, RowOf
<1>3. Blank \notin Panels
    BY DEF Panels, Blank, Home, Settings, Fallback, Banks, Retry, Bank, Input, Amount
<1>4. \A u \in Users : /\ chat[u] \in Seq([scr : Panels \cup Others, rev : Nat])
                       /\ ui[u].panel <= Len(chat[u])
    <2> TAKE u \in Users
    <2>1. CASE start[u] = Blank
        <3>1. chat[u] = <<>> /\ ui[u].panel = 0
            BY <2>1, <1>3 DEF NoRow, RowOf
        <3> QED BY <3>1
    <2>2. CASE start[u] # Blank
        <3>1. [scr |-> start[u], rev |-> ui[u].rev] \in [scr : Panels \cup Others, rev : Nat]
            BY <2>2, <1>1, <1>2, NamedScreens DEF RowType
        <3>2. chat[u] = << [scr |-> start[u], rev |-> ui[u].rev] >> /\ ui[u].panel \in {0, 1}
            BY <2>2 DEF NoRow, RowOf
        <3>3. chat[u] \in Seq([scr : Panels \cup Others, rev : Nat]) /\ Len(chat[u]) = 1
            BY <3>1, <3>2, Singleton
        <3> QED BY <3>2, <3>3
    <2> QED BY <2>1, <2>2
<1>5. ui \in [Users -> RowType] /\ chat \in [Users -> Seq([scr : Panels \cup Others, rev : Nat])]
    BY <1>2, <1>4
<1>6. job \in [Workers -> JobType] /\ \A w \in Workers : job[w].pc = "idle"
    BY IdleTyped DEF Init, Idle
<1>7. queue \in Seq(UpdateType) /\ lock \in [Slots -> Workers \cup {Nobody}]
    BY DEF Init
<1> QED BY <1>4, <1>5, <1>6, <1>7 DEF Init, TypeOK

\* Messages of the chats.
Msg == [scr : Panels \cup Others, rev : Nat]

\* A message sent makes the chat longer by one and leaves the rest as it was.
LEMMA ChatGrows ==
    ASSUME TypeOK, NEW u \in Users, NEW m \in Msg, chat' = [chat EXCEPT ![u] = Append(@, m)]
    PROVE  /\ chat' \in [Users -> Seq(Msg)]
           /\ \A x \in Users : Len(chat[x]) <= Len(chat'[x])
           /\ Len(chat'[u]) = Len(chat[u]) + 1
           /\ \A x \in Users : \A i \in 1..Len(chat'[x]) :
                chat'[x][i] = IF x = u /\ i = Len(chat[u]) + 1 THEN m ELSE chat[x][i]
<1>1. chat \in [Users -> Seq(Msg)]
    BY DEF TypeOK, Msg
<1> QED BY <1>1

\* An edited message stays in its place.
LEMMA ChatEdited ==
    ASSUME TypeOK, NEW u \in Users, NEW m \in Msg, NEW p \in 1..Len(chat[u]),
           chat' = [chat EXCEPT ![u][p] = m]
    PROVE  /\ chat' \in [Users -> Seq(Msg)]
           /\ \A x \in Users : Len(chat[x]) = Len(chat'[x])
           /\ \A x \in Users : \A i \in 1..Len(chat'[x]) :
                chat'[x][i] = IF x = u /\ i = p THEN m ELSE chat[x][i]
<1>1. chat \in [Users -> Seq(Msg)]
    BY DEF TypeOK, Msg
<1> QED BY <1>1

\* What is left of the queue once its head is taken.
LEMMA QueueShrinks ==
    ASSUME TypeOK, queue # <<>>
    PROVE  Head(queue) \in UpdateType /\ Tail(queue) \in Seq(UpdateType)
    BY DEF TypeOK

\* An update received keeps the types.
LEMMA TypePost ==
    ASSUME TypeOK, NEW u \in Users, NEW upd \in UpdateType,
           NEW msg \in Seq(Msg), Len(msg) <= 1, Post(u, msg, upd)
    PROVE  TypeOK'
<1>1. chat \in [Users -> Seq(Msg)]
    BY DEF TypeOK, Msg
<1>2. chat' \in [Users -> Seq(Msg)] /\ \A x \in Users : Len(chat[x]) <= Len(chat'[x])
    <2>1. chat[u] \o msg \in Seq(Msg) /\ Len(chat[u] \o msg) >= Len(chat[u])
        BY <1>1
    <2>2. chat' = [chat EXCEPT ![u] = chat[u] \o msg]
        BY <1>1 DEF Post
    <2>3. \A x \in Users : Len(chat[x]) \in Nat
        BY <1>1
    <2> QED BY <1>1, <2>1, <2>2, <2>3
<1>3. queue' \in Seq(UpdateType)
    BY DEF TypeOK, Post
<1>4. \A x \in Users : ui[x].panel <= Len(chat'[x])
    BY <1>1, <1>2 DEF TypeOK, RowType
<1>5. /\ ui' = ui /\ settings' = settings /\ lock' = lock /\ job' = job /\ now' = now
      /\ faults' = faults /\ crashes' = crashes /\ wrote' = wrote /\ sent' \in Nat
    BY DEF Post, TypeOK
<1> QED BY <1>2, <1>3, <1>4, <1>5 DEF TypeOK, Msg

-----------------------------------------------------------------------------
(* The inductive invariant, taken apart by worker and by user. *)

WorkerInv(w) ==
    /\ Handling(w) => lock[SlotOf[User(w)]] = w
    /\ job[w].pc = "save" =>
         job[w].row.rev = Row(w).rev + (IF job[w].todo.op = "panel" THEN 1 ELSE 0)
    /\ job[w].pc \in {"edit", "send", "keep"} => job[w].row.rev = Row(w).rev
    /\ job[w].pc \in {"save", "edit", "send", "keep"} => job[w].row.panel <= Len(chat[User(w)])
    /\ job[w].pc = "edit" => job[w].row.panel > 0
    /\ job[w].pc \in {"edit", "send"} =>
         /\ Row(w).rev > 0 /\ job[w].todo.op = "panel"
         /\ \A i \in 1..Len(chat[User(w)]) :
              chat[User(w)][i].rev = Row(w).rev => chat[User(w)][i].scr = job[w].todo.scr
    /\ job[w].upd.src = "panel" =>
         /\ job[w].upd.act.op \in ButtonOps
         /\ job[w].todo.op # "pending" /\ job[w].then.op \in {"stop", "reply"}
    /\ (At(w, "set") /\ job[w].upd.src = "panel") => job[w].upd.rev = Row(w).rev

ChatInv(u) ==
    /\ \A i \in 1..Len(chat[u]) : chat[u][i].rev <= ui[u].rev
    /\ \A i, j \in 1..Len(chat[u]) :
         (chat[u][i].rev > 0 /\ chat[u][i].rev = chat[u][j].rev)
           => chat[u][i].scr = chat[u][j].scr

QueueInv == \A i \in 1..Len(queue) : queue[i].src = "panel" => queue[i].act.op \in ButtonOps

\* PanelsInv, one worker and one chat at a time.
LEMMA Parts ==
    PanelsInv <=> /\ TypeOK /\ QueueInv
                  /\ \A w \in Workers : WorkerInv(w)
                  /\ \A u \in Users : ChatInv(u)
    BY DEF PanelsInv, QueueInv, WorkerInv, ChatInv, HoldsLock, CopyIsFresh, DrawnAlone,
       PressesAreButtons, ButtonsNeverAhead, OneScreenPerRevision, PressIsCurrent

\* No two handlers work for one user.
LEMMA Exclusive ==
    ASSUME PanelsInv, NEW w \in Workers, NEW x \in Workers, Handling(w), Handling(x),
           User(w) = User(x)
    PROVE  w = x
    BY DEF PanelsInv, HoldsLock

\* What a handler does to its own user leaves the other workers' part alone.
LEMMA OthersKeep ==
    ASSUME PanelsInv, NEW w \in Workers, Handling(w), NEW x \in Workers, x # w,
           job'[x] = job[x], lock' = lock,
           \A u \in Users : u # User(w) => ui'[u] = ui[u] /\ chat'[u] = chat[u]
    PROVE  WorkerInv(x)'
<1>1. WorkerInv(x)
    BY Parts
<1>2. CASE Handling(x)
    <2>1. User(x) # User(w)
        BY <1>2, Exclusive
    <2>2. User(x) \in Users
        BY <1>2 DEF PanelsInv, TypeOK, Handling, User, UpdateType
    <2>3. ui'[User(x)] = ui[User(x)] /\ chat'[User(x)] = chat[User(x)]
        BY <2>1, <2>2
    <2> QED BY <1>1, <2>3 DEF WorkerInv, Handling, User, Row, At
<1>3. CASE ~Handling(x)
    BY <1>1, <1>3 DEF WorkerInv, Handling, At
<1> QED BY <1>2, <1>3

\* So a handler's step keeps the invariant when it keeps its own part of it.
LEMMA HandlerStep ==
    ASSUME PanelsInv, NEW w \in Workers, Handling(w), TypeOK', lock' = lock, queue' = queue,
           \A x \in Workers : x # w => job'[x] = job[x],
           \A u \in Users : u # User(w) => ui'[u] = ui[u] /\ chat'[u] = chat[u],
           WorkerInv(w)', \A u \in Users : u = User(w) => ChatInv(u)'
    PROVE  PanelsInv'
<1>1. \A x \in Workers : WorkerInv(x)'
    BY OthersKeep
<1>2. \A u \in Users : u # User(w) => ChatInv(u)'
    BY Parts DEF ChatInv
<1>3. QueueInv'
    BY Parts DEF QueueInv
<1>4. \A u \in Users : ChatInv(u)'
    BY <1>2
<1> QED BY <1>1, <1>3, <1>4, Parts DEF PanelsInv, QueueInv, WorkerInv, ChatInv, HoldsLock,
       CopyIsFresh, DrawnAlone, PressesAreButtons, ButtonsNeverAhead, OneScreenPerRevision,
       PressIsCurrent

-----------------------------------------------------------------------------
(* The steps that touch nothing but the handler that takes them. *)

\* The count of faults stays a number.
LEMMA FaultsCounted ==
    ASSUME TypeOK, NEW w \in Workers, Answers(w) \/ Fails(w)
    PROVE  faults' \in Nat
    BY DEF TypeOK, Answers, Fails

\* A turn that keeps the handler's part of the invariant.
Turns(w) ==
    \E pc \in {"run", "save"} : \E todo, then \in Steps : \E row \in RowType :
        /\ Turn(w, pc, todo, then, row)
        /\ then = job[w].then \/ then.op \in {"stop", "reply"}
        /\ job[w].upd.src = "panel" =>
             \/ todo = job[w].then \/ todo.op \notin {"pending", "set"}
             \/ todo.op = "set" /\ IsCurrent(w)
        /\ pc = "save" =>
             /\ row.panel <= Len(chat[User(w)])
             /\ row.rev = Row(w).rev + (IF todo.op = "panel" THEN 1 ELSE 0)

\* A handler that takes a turn and leaves rows, chats and settings alone keeps the types.
LEMMA TurnsTyped ==
    ASSUME TypeOK, NEW w \in Workers, job[w].pc # "idle", Turns(w), faults' \in Nat,
           UNCHANGED <<ui, settings, chat, wrote, Shared>>
    PROVE  TypeOK'
<1> PICK pc \in {"run", "save"}, todo \in Steps, then \in Steps, row \in RowType :
        Turn(w, pc, todo, then, row)
    BY DEF Turns
<1>1. /\ job' \in [Workers -> JobType]
      /\ \A x \in Workers : job'[x].pc # "idle" => job'[x].upd \in UpdateType
    BY JobMoves DEF Phases
<1>2. /\ ui' = ui /\ settings' = settings /\ chat' = chat /\ wrote' = wrote /\ queue' = queue
      /\ lock' = lock /\ now' = now /\ sent' = sent /\ crashes' = crashes
    BY DEF Shared
<1> QED BY <1>1, <1>2 DEF TypeOK

\* What a turn leaves of the worker's record, and of the others.
LEMMA Turned ==
    ASSUME TypeOK, NEW w \in Workers, NEW pc, NEW todo, NEW then, NEW row,
           Turn(w, pc, todo, then, row)
    PROVE  /\ job'[w].pc = pc /\ job'[w].upd = job[w].upd /\ job'[w].todo = todo
           /\ job'[w].then = then /\ job'[w].row = row /\ job'[w].late = job[w].late
           /\ \A x \in Workers : x # w => job'[x] = job[x]
<1>1. /\ job'[w] = [pc |-> pc, upd |-> job[w].upd, todo |-> todo, then |-> then,
                    row |-> row, late |-> job[w].late]
      /\ \A x \in Workers : x # w => job'[x] = job[x]
    BY DEF Turn, TypeOK
<1> QED BY <1>1

\* A turn that touches no row and no chat keeps the invariant if the worker keeps its part.
LEMMA TurnsKeep ==
    ASSUME PanelsInv, NEW w \in Workers, Handling(w), job[w].pc \in {"run", "save"},
           Turns(w), faults' \in Nat,
           UNCHANGED <<ui, settings, chat, wrote, Shared>>
    PROVE  PanelsInv'
<1>1. TypeOK /\ WorkerInv(w) /\ job[w].pc # "idle"
    BY Parts DEF Handling
<1>2. TypeOK'
    BY <1>1, TurnsTyped
<1> PICK pc \in {"run", "save"}, todo \in Steps, then \in Steps, row \in RowType :
        /\ Turn(w, pc, todo, then, row)
        /\ then = job[w].then \/ then.op \in {"stop", "reply"}
        /\ job[w].upd.src = "panel" =>
             \/ todo = job[w].then \/ todo.op \notin {"pending", "set"}
             \/ todo.op = "set" /\ IsCurrent(w)
        /\ pc = "save" =>
             /\ row.panel <= Len(chat[User(w)])
             /\ row.rev = Row(w).rev + (IF todo.op = "panel" THEN 1 ELSE 0)
    BY DEF Turns
<1>7. Turn(w, pc, todo, then, row)
    OBVIOUS
<1>3. /\ job'[w].pc = pc /\ job'[w].upd = job[w].upd /\ job'[w].todo = todo
      /\ job'[w].then = then /\ job'[w].row = row
      /\ \A x \in Workers : x # w => job'[x] = job[x]
    BY ONLY <1>1, <1>7, Turned
<1>4. ui' = ui /\ chat' = chat /\ lock' = lock /\ queue' = queue
    BY DEF Shared
<1>5. WorkerInv(w)'
    <2>1. (Handling(w) => lock[SlotOf[User(w)]] = w)'
        BY <1>1, <1>3, <1>4 DEF WorkerInv, Handling, User
    <2>2. (job[w].upd.src = "panel" =>
            /\ job[w].upd.act.op \in ButtonOps
            /\ job[w].todo.op # "pending" /\ job[w].then.op \in {"stop", "reply"})'
        BY <1>1, <1>3 DEF WorkerInv
    <2>3. ((At(w, "set") /\ job[w].upd.src = "panel") => job[w].upd.rev = Row(w).rev)'
        BY <1>1, <1>3, <1>4 DEF WorkerInv, At, User, Row, IsCurrent
    <2>4. (/\ job[w].pc = "save" =>
               job[w].row.rev = Row(w).rev + (IF job[w].todo.op = "panel" THEN 1 ELSE 0)
           /\ job[w].pc = "save" => job[w].row.panel <= Len(chat[User(w)]))'
        BY <1>3, <1>4 DEF User, Row
    <2> QED BY <1>3, <2>1, <2>2, <2>3, <2>4 DEF WorkerInv
<1>6. \A u \in Users : ChatInv(u)'
    BY <1>4, Parts DEF ChatInv
<1> QED BY <1>2, <1>3, <1>4, <1>5, <1>6, HandlerStep

\* The steps that only decide what to do next keep the invariant.
LEMMA QuietSteps ==
    ASSUME PanelsInv, NEW w \in Workers,
           \/ NewPanel(w) \/ OpenPanel(w) \/ ClearInput(w) \/ UiCallback(w) \/ PendingInput(w)
           \/ Calculate(w) \/ LoadResult(w) \/ FinishInput(w)
    PROVE  PanelsInv'
<1>1. /\ job[w].pc = "run" /\ (Answers(w) \/ Fails(w))
      /\ UNCHANGED <<ui, settings, chat, wrote, Shared>>
    BY DEF NewPanel, OpenPanel, ClearInput, UiCallback, PendingInput, Calculate, LoadResult,
       FinishInput, At
<1>2. /\ TypeOK /\ Row(w) \in RowType /\ job[w] \in JobType /\ job[w].upd \in UpdateType
      /\ User(w) \in Users
    BY <1>1, RowsTyped DEF PanelsInv
<1>3. /\ job[w].row \in RowType /\ job[w].todo \in Steps /\ job[w].then \in Steps
      /\ job[w].upd.act \in Steps /\ Row(w).state \in States /\ Stop \in Steps /\ Stop.op = "stop"
      /\ Row(w).panel <= Len(chat[User(w)]) /\ Row(w).rev \in Nat
    BY <1>2, NamedSteps DEF JobType, UpdateType, RowType, TypeOK, Row, Stop, Do, Step
<1>4. ASSUME NEW step \in Steps, Goto(w, step), step.op \notin {"pending", "set"} PROVE Turns(w)
    BY <1>3, <1>4 DEF Goto, Turns
<1>5. ASSUME Advance(w) PROVE Turns(w)
    BY <1>3, <1>5 DEF Advance, Turns
<1>6. ASSUME NEW row \in RowType, Prepare(w, row), job[w].todo.op \in {"new", "panel", "clear"},
             row.panel <= Len(chat[User(w)]),
             row.rev = Row(w).rev + (IF job[w].todo.op = "panel" THEN 1 ELSE 0)
      PROVE  Turns(w)
    BY <1>3, <1>6 DEF Prepare, Turns
<1>7. /\ \A s : Show(s).op = "panel" /\ Reply(s).op = "reply"
      /\ \A m : Quote(m).op = "quote"
      /\ Do("clear").op = "clear" /\ Do("finish").op = "finish"
    BY DEF Show, Reply, Quote, Do, Step
<1>8. ASSUME NewPanel(w) PROVE Turns(w)
    <2>1. NoPanel(w) \in RowType /\ NoPanel(w).panel = 0 /\ NoPanel(w).rev = Row(w).rev
        BY <1>2 DEF NoPanel, RowOf, RowType
    <2>2. job[w].todo.op = "new" /\ 0 <= Len(chat[User(w)])
        BY <1>2, <1>8 DEF NewPanel, At, TypeOK
    <2> QED BY <1>3, <1>5, <1>6, <1>8, <2>1, <2>2 DEF NewPanel
<1>9. ASSUME OpenPanel(w) PROVE Turns(w)
    <2>1. job[w].todo.scr \in Panels /\ job[w].todo.op = "panel"
        BY <1>3, <1>9, StepFields DEF OpenPanel, At
    <2> DEFINE row == RowOf(StateOf(job[w].todo.scr), Row(w).panel, Row(w).rev + 1, Row(w).at)
    <2>2. row \in RowType /\ row.panel = Row(w).panel /\ row.rev = Row(w).rev + 1
        BY <1>2, <2>1, StateOfType DEF RowType, RowOf
    <2>3. \A next \in Instead(w) : next \in Steps /\ next.op \in {"panel", "reply", "stop"}
        BY <1>3, <1>7, NamedSteps, NamedScreens DEF Instead
    <2>4. Prepare(w, row) \/ \E next \in Instead(w) : Goto(w, next)
        BY <1>9 DEF OpenPanel
    <2> HIDE DEF row
    <2> QED BY <1>3, <1>4, <1>6, <2>1, <2>2, <2>3, <2>4
<1>10. ASSUME ClearInput(w) PROVE Turns(w)
    <2> DEFINE row == RowOf(Home, Row(w).panel, Row(w).rev, Row(w).at)
    <2>1. Home \in States
        BY NamedScreens DEF States, Home, Retry
    <2>2. row \in RowType /\ row.panel = Row(w).panel /\ row.rev = Row(w).rev
        BY <1>2, <2>1 DEF RowType, RowOf
    <2>3. job[w].todo.op = "clear" /\ (Prepare(w, row) \/ Advance(w))
        BY <1>10 DEF ClearInput, At
    <2> HIDE DEF row
    <2> QED BY <1>3, <1>5, <1>6, <2>2, <2>3
<1>11. ASSUME UiCallback(w) PROVE Turns(w)
    <2>1. AwaitsInput(Row(w).state) => Show(Row(w).state) \in Steps
        BY <1>3, StatesByName, NamedSteps, NamedScreens DEF AwaitsInput
    <2>2. CASE IsCurrent(w) /\ Goto(w, job[w].upd.act)
        <3>1. job[w].upd.src = "panel" => job[w].upd.act.op \in {"panel", "set", "load", "details"}
            BY Parts DEF WorkerInv, ButtonOps
        <3> QED BY <1>3, <2>2, <3>1 DEF Goto, Turns
    <2>3. Show(Settings) \in Steps
        BY NamedSteps, NamedScreens
    <2> QED BY <1>3, <1>4, <1>7, <1>11, <2>1, <2>2, <2>3 DEF UiCallback
<1>12. ASSUME PendingInput(w) PROVE Turns(w)
    <2>1. \A c \in AllTexts : QuoteFor(c) \in Steps /\ QuoteFor(c).op = "quote"
        BY <1>7, NamedSteps DEF QuoteFor, Modes
    <2>2. job[w].todo.key \in AllTexts /\ job[w].todo.op = "pending"
        BY <1>3, <1>12, StepFields DEF PendingInput, At
    <2>3. /\ Row(w).state[1] = "input" => Show(Row(w).state) \in Steps
          /\ Row(w).state[1] = "amount" => Quote(Row(w).state[2]) \in Steps
          /\ Row(w).state[1] = "input" => \A v \in Values : Set(Row(w).state[2], v) \in Steps
        BY <1>3, StatesByName, NamedSteps, NamedScreens DEF Keys
    <2>4. job[w].upd.src # "panel"
        BY <2>2, Parts DEF WorkerInv
    <2>5. ASSUME NEW step \in Steps, Goto(w, step) PROVE Turns(w)
        BY <1>3, <2>4, <2>5 DEF Goto, Turns
    <2> QED BY <1>12, <2>1, <2>2, <2>3, <2>5, NamedSteps, NamedScreens DEF PendingInput
<1>13. ASSUME Calculate(w) PROVE Turns(w)
    <2>1. job[w].todo.key \in Modes
        BY <1>3, <1>13, StepFields DEF Calculate, At
    <2>2. \A m \in Modes : Turn(w, "run", Do("finish"), Reply(Result(m)), job[w].row) => Turns(w)
        BY <1>3, <1>7, NamedSteps, NamedScreens DEF Turns
    <2>3. \A s \in Panels : Goto(w, Show(s)) => Turns(w)
        BY <1>4, <1>7, NamedSteps
    <2>4. Goto(w, Reply(Plain)) => Turns(w)
        BY <1>4, <1>7, NamedSteps, NamedScreens
    <2> QED BY <1>13, <2>1, <2>2, <2>3, <2>4, NamedScreens DEF Calculate
<1>14. ASSUME LoadResult(w) PROVE Turns(w)
    <2>1. job[w].todo.key \in Modes
        BY <1>3, <1>14, StepFields DEF LoadResult, At
    <2>2. \A m \in Modes : /\ Goto(w, Quote(m)) => Turns(w)
                           /\ Goto(w, Reply(Detail(m))) => Turns(w)
        BY <1>4, <1>7, NamedSteps, NamedScreens
    <2>3. Goto(w, Show(Home)) => Turns(w)
        BY <1>4, <1>7, NamedSteps, NamedScreens
    <2> QED BY <1>14, <2>1, <2>2, <2>3 DEF LoadResult
<1>15. ASSUME FinishInput(w) PROVE Turns(w)
    <2>1. Goto(w, Show(Home)) => Turns(w)
        BY <1>4, <1>7, NamedSteps, NamedScreens
    <2>2. Goto(w, Do("clear")) => Turns(w)
        BY <1>4, <1>7, NamedSteps
    <2> QED BY <1>15, <2>1, <2>2 DEF FinishInput
<1>16. Turns(w)
    BY <1>8, <1>9, <1>10, <1>11, <1>12, <1>13, <1>14, <1>15
<1> QED BY <1>1, <1>2, <1>16, FaultsCounted, TurnsKeep DEF Handling

-----------------------------------------------------------------------------
(* The steps that write the row, the chat or the settings. *)

WroteType == [Users -> [Keys -> Nat]]

\* What every step of a handler leaves typed.
LEMMA TurnTyped ==
    ASSUME TypeOK, NEW w \in Workers, job[w].pc # "idle",
           NEW pc \in Phases, NEW todo \in Steps, NEW then \in Steps, NEW row \in RowType,
           Turn(w, pc, todo, then, row), Answers(w) \/ Fails(w), UNCHANGED Shared,
           ui' \in [Users -> RowType], chat' \in [Users -> Seq(Msg)],
           settings' \in [Users -> [Keys -> Values \cup {Unset, AnyBank}]], wrote' \in WroteType,
           \A u \in Users : ui'[u].panel <= Len(chat'[u])
    PROVE  TypeOK'
<1>1. /\ job' \in [Workers -> JobType]
      /\ \A x \in Workers : job'[x].pc # "idle" => job'[x].upd \in UpdateType
    BY JobMoves
<1>2. faults' \in Nat
    BY FaultsCounted
<1>3. queue' = queue /\ lock' = lock /\ now' = now /\ sent' = sent /\ crashes' = crashes
    BY DEF Shared
<1> QED BY <1>1, <1>2, <1>3 DEF TypeOK, WroteType, Msg

\* The facts about a handler that the lemmas below start from.
LEMMA HandlerFacts ==
    ASSUME PanelsInv, NEW w \in Workers, Handling(w)
    PROVE  /\ TypeOK /\ WorkerInv(w) /\ ChatInv(User(w)) /\ job[w].pc # "idle"
           /\ User(w) \in Users /\ Row(w) \in RowType /\ chat[User(w)] \in Seq(Msg)
           /\ ui \in [Users -> RowType] /\ chat \in [Users -> Seq(Msg)] /\ wrote \in WroteType
           /\ settings \in [Users -> [Keys -> Values \cup {Unset, AnyBank}]]
           /\ job[w].row \in RowType /\ job[w].todo \in Steps /\ job[w].then \in Steps
           /\ job[w].pc \in Phases
           /\ Stop \in Steps /\ Stop.op = "stop" /\ now \in Nat
<1>1. TypeOK /\ job[w].pc # "idle"
    BY DEF PanelsInv, Handling
<1>2. User(w) \in Users /\ Row(w) \in RowType /\ job[w] \in JobType
    BY <1>1, RowsTyped
<1> QED BY <1>1, <1>2, Parts, NamedSteps DEF TypeOK, WroteType, Msg, JobType, Stop, Do, Step

\* A handler that goes on to the step it was to take next, its chat and its revision as
\* they were or better, keeps its part of the invariant.
LEMMA AdvanceKeeps ==
    ASSUME PanelsInv, NEW w \in Workers, Handling(w), Advance(w), lock' = lock
    PROVE  WorkerInv(w)'
<1>1. TypeOK /\ WorkerInv(w) /\ Stop.op = "stop"
    BY HandlerFacts
<1>2. /\ job'[w].pc = "run" /\ job'[w].upd = job[w].upd /\ job'[w].todo = job[w].then
      /\ job'[w].then = Stop
    BY <1>1, Turned DEF Advance
<1>3. (job[w].upd.src = "panel" =>
        /\ job[w].upd.act.op \in ButtonOps
        /\ job[w].todo.op # "pending" /\ job[w].then.op \in {"stop", "reply"})'
    BY <1>1, <1>2 DEF WorkerInv
<1>4. ~(At(w, "set") /\ job[w].upd.src = "panel")'
    BY <1>1, <1>2 DEF WorkerInv, At
<1>5. (Handling(w) => lock[SlotOf[User(w)]] = w)'
    BY <1>1, <1>2 DEF WorkerInv, User
<1> QED BY <1>2, <1>3, <1>4, <1>5 DEF WorkerInv

\* SaveUI keeps the invariant: the revision saved is the next one, which no message has.
LEMMA SaveStep ==
    ASSUME PanelsInv, NEW w \in Workers, SaveUI(w)
    PROVE  PanelsInv'
<1> DEFINE row == job[w].row
           u == User(w)
<1>1. /\ job[w].pc = "save" /\ Handling(w) /\ (Answers(w) \/ Fails(w)) /\ UNCHANGED Shared
      /\ settings' = settings /\ chat' = chat /\ lock' = lock /\ queue' = queue
    BY DEF SaveUI, Handling, Shared
<1>2. /\ TypeOK /\ WorkerInv(w) /\ ChatInv(User(w)) /\ job[w].pc # "idle"
      /\ User(w) \in Users /\ Row(w) \in RowType /\ chat[User(w)] \in Seq(Msg)
      /\ ui \in [Users -> RowType] /\ chat \in [Users -> Seq(Msg)] /\ wrote \in WroteType
      /\ settings \in [Users -> [Keys -> Values \cup {Unset, AnyBank}]]
      /\ job[w].row \in RowType /\ job[w].todo \in Steps /\ job[w].then \in Steps
      /\ job[w].pc \in Phases
      /\ Stop \in Steps /\ Stop.op = "stop" /\ now \in Nat
    BY <1>1, HandlerFacts
<1>3. row.rev = Row(w).rev + (IF job[w].todo.op = "panel" THEN 1 ELSE 0)
      /\ row.panel <= Len(chat[u])
    BY <1>1, <1>2 DEF WorkerInv
<1>4. Stamped(row) \in RowType /\ Stamped(row).rev = row.rev /\ Stamped(row).panel = row.panel
    BY <1>2 DEF Stamped, RowOf, RowType
<1>5. \A x \in Users : ui[x].panel <= Len(chat[x])
    BY <1>2 DEF TypeOK
<1>9. /\ \A i \in 1..Len(chat[u]) : chat[u][i].rev \in Nat /\ chat[u][i].rev <= Row(w).rev
      /\ Row(w).rev \in Nat /\ row.rev \in Nat /\ row.rev >= Row(w).rev
    <2>1. Row(w).rev \in Nat /\ row.rev \in Nat
        BY <1>2 DEF RowType
    <2>4. \A i \in 1..Len(chat[u]) : chat[u][i] \in Msg
        BY <1>2
    <2>2. \A i \in 1..Len(chat[u]) : chat[u][i].rev \in Nat
        BY <2>4 DEF Msg
    <2>3. \A i \in 1..Len(chat[u]) : chat[u][i].rev <= Row(w).rev
        BY <1>2 DEF ChatInv, Row
    <2> QED BY <1>3, <2>1, <2>2, <2>3
<1>6. ASSUME ui' = [ui EXCEPT ![u] = Stamped(row)]
      PROVE  /\ ui' \in [Users -> RowType] /\ ui'[u] = Stamped(row)
             /\ \A x \in Users : x # u => ui'[x] = ui[x]
             /\ \A x \in Users : ui'[x].panel <= Len(chat'[x])
             /\ \A x \in Users : x = u => ChatInv(x)'
    <2>1. /\ ui' \in [Users -> RowType] /\ ui'[u] = Stamped(row)
          /\ \A x \in Users : x # u => ui'[x] = ui[x]
        BY <1>2, <1>4, <1>6
    <2>2. \A x \in Users : ui'[x].panel <= Len(chat'[x])
        BY <1>1, <1>3, <1>4, <1>5, <2>1
    <2>3. \A i \in 1..Len(chat'[u]) : chat'[u][i].rev <= ui'[u].rev
        BY <1>1, <1>4, <1>9, <2>1
    <2>4. \A x \in Users : x = u => ChatInv(x)'
        BY <1>1, <1>2, <2>3 DEF ChatInv
    <2> QED BY <2>1, <2>2, <2>4
<1>7. CASE /\ job[w].todo.op = "panel"
           /\ ui' = [ui EXCEPT ![u] = Stamped(row)]
           /\ wrote' = wrote
           /\ Phase(w, IF row.panel # 0 THEN "edit" ELSE "send")
    <2>2. TypeOK'
        BY <1>1, <1>2, <1>6, <1>7, TurnTyped DEF Phase, Phases
    <2>3. /\ job'[w].pc = (IF row.panel # 0 THEN "edit" ELSE "send")
          /\ job'[w].upd = job[w].upd /\ job'[w].todo = job[w].todo
          /\ job'[w].then = job[w].then /\ job'[w].row = row
          /\ \A x \in Workers : x # w => job'[x] = job[x]
        BY <1>2, <1>7, Turned DEF Phase
    <2>4. WorkerInv(w)'
        <3>1. User(w)' = User(w) /\ Row(w)' = Stamped(row)
            BY <1>6, <1>7, <2>3 DEF User, Row
        <3>2. row.rev = Row(w).rev + 1
            BY <1>3, <1>7
        <3>3. /\ \A i \in 1..Len(chat'[u]) : chat'[u][i].rev # Row(w)'.rev
              /\ Row(w)'.rev > 0 /\ job'[w].row.rev = Row(w)'.rev
            BY <1>1, <1>4, <1>9, <2>3, <3>1, <3>2
        <3>4. /\ job'[w].row.panel <= Len(chat'[u])
              /\ job'[w].pc = "edit" => job'[w].row.panel > 0
            BY <1>1, <1>2, <1>3, <2>3 DEF RowType
        <3>5. job'[w].todo.op = "panel" /\ job'[w].pc \notin {"run", "save"}
            BY <1>7, <2>3
        <3> QED BY <1>1, <1>2, <2>3, <3>1, <3>3, <3>4, <3>5 DEF WorkerInv, Handling, User, At
    <2> QED BY <1>1, <1>6, <1>7, <2>2, <2>3, <2>4, HandlerStep, SMTT(30)
<1>10. CASE ui' = [ui EXCEPT ![u] = Stamped(row)] /\ wrote' = wrote /\ Advance(w)
    <2>1. WorkerInv(w)'
        BY <1>1, <1>10, AdvanceKeeps
    <2>2. TypeOK'
        BY <1>1, <1>2, <1>6, <1>10, TurnTyped DEF Advance, Phases
    <2>3. \A x \in Workers : x # w => job'[x] = job[x]
        BY <1>2, <1>10, Turned DEF Advance
    <2> QED BY <1>1, <1>6, <1>10, <2>1, <2>2, <2>3, HandlerStep
<1>8. CASE Advance(w) /\ ui' = ui /\ wrote' = wrote
    <2>1. WorkerInv(w)'
        BY <1>1, <1>8, AdvanceKeeps
    <2>2. TypeOK'
        BY <1>1, <1>2, <1>5, <1>8, TurnTyped DEF Advance, Phases
    <2>3. \A x \in Workers : x # w => job'[x] = job[x]
        BY <1>2, <1>8, Turned DEF Advance
    <2>4. \A x \in Users : ChatInv(x)'
        BY <1>1, <1>8, Parts DEF ChatInv
    <2> QED BY <1>1, <1>8, <2>1, <2>2, <2>3, <2>4, HandlerStep
<1> QED BY <1>7, <1>8, <1>10 DEF SaveUI, AfterLostSave

\* A chat in which the panel being shown is drawn once more.
Draws(w) ==
    \A x \in Users :
      /\ chat'[x] \in Seq(Msg) /\ Len(chat[x]) <= Len(chat'[x])
      /\ x # User(w) => chat'[x] = chat[x]
      /\ x = User(w) => \A i \in 1..Len(chat'[x]) :
           chat'[x][i] = Drawn(w) \/ (i \in 1..Len(chat[x]) /\ chat'[x][i] = chat[x][i])

\* A panel drawn under the stored revision keeps the invariant of its chat.
LEMMA DrawKeeps ==
    ASSUME PanelsInv, NEW w \in Workers, job[w].pc \in {"edit", "send"}, Draws(w), ui' = ui
    PROVE  /\ \A x \in Users : x = User(w) => ChatInv(x)'
           /\ \A i \in 1..Len(chat'[User(w)]) :
                chat'[User(w)][i].rev = Row(w).rev => chat'[User(w)][i].scr = job[w].todo.scr
           /\ Row(w).rev > 0 /\ job[w].todo.op = "panel"
<1> DEFINE u == User(w)
<1>1. /\ TypeOK /\ WorkerInv(w) /\ ChatInv(u) /\ u \in Users
      /\ Row(w) \in RowType
    BY HandlerFacts DEF Handling
<1>2. /\ Drawn(w).rev = Row(w).rev /\ Drawn(w).scr = job[w].todo.scr
      /\ Row(w).rev > 0 /\ Row(w).rev \in Nat /\ job[w].todo.op = "panel"
    BY <1>1 DEF WorkerInv, Drawn, RowType
<1>3. \A i \in 1..Len(chat[u]) : /\ chat[u][i].rev <= Row(w).rev
                                 /\ chat[u][i].rev = Row(w).rev => chat[u][i].scr = job[w].todo.scr
    BY <1>1 DEF WorkerInv, ChatInv, Row
<1>4. \A i \in 1..Len(chat'[u]) :
        chat'[u][i] = Drawn(w) \/ (i \in 1..Len(chat[u]) /\ chat'[u][i] = chat[u][i])
    BY <1>1 DEF Draws
<1>5. \A i \in 1..Len(chat'[u]) : chat'[u][i].rev <= Row(w).rev
    BY <1>2, <1>3, <1>4
<1>6. \A i \in 1..Len(chat'[u]) :
        chat'[u][i].rev = Row(w).rev => chat'[u][i].scr = job[w].todo.scr
    BY <1>2, <1>3, <1>4
<1>7. \A i, j \in 1..Len(chat'[u]) :
        (chat'[u][i].rev > 0 /\ chat'[u][i].rev = chat'[u][j].rev)
          => chat'[u][i].scr = chat'[u][j].scr
    <2> SUFFICES ASSUME NEW i \in 1..Len(chat'[u]), NEW j \in 1..Len(chat'[u]),
                        chat'[u][i].rev > 0, chat'[u][i].rev = chat'[u][j].rev
                 PROVE  chat'[u][i].scr = chat'[u][j].scr
        OBVIOUS
    <2>1. CASE chat'[u][i].rev = Row(w).rev
        BY <2>1, <1>6
    <2>2. CASE chat'[u][i].rev # Row(w).rev
        <3>1. /\ i \in 1..Len(chat[u]) /\ chat'[u][i] = chat[u][i]
              /\ j \in 1..Len(chat[u]) /\ chat'[u][j] = chat[u][j]
            BY <2>2, <1>2, <1>4
        <3> QED BY <1>1, <3>1 DEF ChatInv
    <2> QED BY <2>1, <2>2
<1>8. \A x \in Users : x = u => ChatInv(x)'
    BY <1>5, <1>7 DEF ChatInv, Row
<1> QED BY <1>2, <1>6, <1>8

\* EditPanel and SendPanel draw the panel, in its old place or below the other messages.
LEMMA PanelDraws ==
    ASSUME PanelsInv, NEW w \in Workers, EditPanel(w) \/ SendPanel(w)
    PROVE  /\ Draws(w)
           /\ chat' = [chat EXCEPT ![User(w)] = Append(@, Drawn(w))] =>
                /\ Len(chat'[User(w)]) = Len(chat[User(w)]) + 1
                /\ chat'[User(w)][Len(chat[User(w)]) + 1] = Drawn(w)
<1> DEFINE u == User(w)
           row == job[w].row
           edited == [chat EXCEPT ![User(w)][job[w].row.panel] = Drawn(w)]
           longer == [chat EXCEPT ![User(w)] = Append(@, Drawn(w))]
<1>1. job[w].pc \in {"edit", "send"} /\ Handling(w)
    BY DEF EditPanel, SendPanel, Handling
<1>2. /\ TypeOK /\ WorkerInv(w) /\ User(w) \in Users /\ Row(w) \in RowType
      /\ chat[User(w)] \in Seq(Msg) /\ chat \in [Users -> Seq(Msg)]
      /\ job[w].row \in RowType /\ job[w].todo \in Steps
    BY <1>1, HandlerFacts
<1>3. /\ row.panel <= Len(chat[u]) /\ row.rev = Row(w).rev /\ job[w].todo.op = "panel"
      /\ row.panel \in Nat
      /\ job[w].pc = "edit" => row.panel \in 1..Len(chat[u])
    BY <1>1, <1>2 DEF WorkerInv, RowType
<1>4. Drawn(w) \in Msg
    BY <1>2, <1>3, StepFields DEF Drawn, Msg, RowType
<1>5. ASSUME chat' = chat PROVE Draws(w)
    BY <1>2, <1>5 DEF Draws
<1>6. ASSUME chat' = longer
      PROVE  /\ Draws(w) /\ Len(chat'[u]) = Len(chat[u]) + 1
             /\ chat'[u][Len(chat[u]) + 1] = Drawn(w)
    <2>1. chat' = [chat EXCEPT ![User(w)] = Append(@, Drawn(w))]
        BY <1>6
    <2>2. /\ chat' \in [Users -> Seq(Msg)]
          /\ \A x \in Users : Len(chat[x]) <= Len(chat'[x])
          /\ Len(chat'[u]) = Len(chat[u]) + 1
          /\ \A x \in Users : \A i \in 1..Len(chat'[x]) :
                chat'[x][i] = IF x = u /\ i = Len(chat[u]) + 1 THEN Drawn(w) ELSE chat[x][i]
        BY <1>2, <1>4, <2>1, ChatGrows
    <2> QED BY <1>2, <2>1, <2>2 DEF Draws
<1>7. ASSUME chat' = edited, job[w].pc = "edit" PROVE Draws(w)
    <2>1. chat' = [chat EXCEPT ![User(w)][row.panel] = Drawn(w)]
        BY <1>7
    <2>3. row.panel \in 1..Len(chat[User(w)])
        BY <1>3, <1>7
    <2>2. /\ chat' \in [Users -> Seq(Msg)]
          /\ \A x \in Users : Len(chat[x]) = Len(chat'[x])
          /\ \A x \in Users : \A i \in 1..Len(chat'[x]) :
               chat'[x][i] = IF x = u /\ i = row.panel THEN Drawn(w) ELSE chat[x][i]
        <3> HIDE DEF row
        <3> QED BY <1>2, <1>4, <2>1, <2>3, ChatEdited
    <2> QED BY <1>2, <2>1, <2>2 DEF Draws
<1>8. Draws(w)
    BY <1>5, <1>6, <1>7 DEF EditPanel, SendPanel
<1> QED BY <1>6, <1>8

\* EditPanel and SendPanel keep the invariant.
LEMMA DrawSteps ==
    ASSUME PanelsInv, NEW w \in Workers, EditPanel(w) \/ SendPanel(w)
    PROVE  PanelsInv'
<1> DEFINE u == User(w)
           row == job[w].row
           edited == [chat EXCEPT ![User(w)][job[w].row.panel] = Drawn(w)]
           longer == [chat EXCEPT ![User(w)] = Append(@, Drawn(w))]
           more == Carried(w, Len(chat[User(w)]) + 1)
<1>1. /\ job[w].pc \in {"edit", "send"} /\ Handling(w) /\ (Answers(w) \/ Fails(w))
      /\ UNCHANGED Shared
      /\ ui' = ui /\ settings' = settings /\ wrote' = wrote /\ lock' = lock /\ queue' = queue
    BY DEF EditPanel, SendPanel, Handling, Shared
<1>2. /\ TypeOK /\ WorkerInv(w) /\ ChatInv(User(w)) /\ job[w].pc # "idle"
      /\ User(w) \in Users /\ Row(w) \in RowType /\ chat[User(w)] \in Seq(Msg)
      /\ ui \in [Users -> RowType] /\ chat \in [Users -> Seq(Msg)] /\ wrote \in WroteType
      /\ settings \in [Users -> [Keys -> Values \cup {Unset, AnyBank}]]
      /\ job[w].row \in RowType /\ job[w].todo \in Steps /\ job[w].then \in Steps
      /\ job[w].pc \in Phases
      /\ Stop \in Steps /\ Stop.op = "stop" /\ now \in Nat
    BY <1>1, HandlerFacts
<1>3. /\ row.panel <= Len(chat[u]) /\ row.rev = Row(w).rev /\ job[w].todo.op = "panel"
      /\ row.panel \in Nat
      /\ job[w].pc = "edit" => row.panel \in 1..Len(chat[u])
    BY <1>1, <1>2 DEF WorkerInv, RowType
<1>4. Drawn(w) \in Msg
    BY <1>2, <1>3, StepFields DEF Drawn, Msg, RowType
<1>8. Draws(w) /\ (chat' = longer => Len(chat'[u]) = Len(chat[u]) + 1)
    BY PanelDraws
<1>9. /\ \A x \in Users : x = u => ChatInv(x)'
      /\ \A x \in Users : x # u => chat'[x] = chat[x]
      /\ chat' \in [Users -> Seq(Msg)] /\ \A x \in Users : ui'[x].panel <= Len(chat'[x])
      /\ Len(chat[u]) <= Len(chat'[u])
    <2>1. \A x \in Users : /\ x # u => chat'[x] = chat[x]
                           /\ chat'[x] \in Seq(Msg) /\ Len(chat[x]) <= Len(chat'[x])
        BY <1>8 DEF Draws
    <2>2. \A x \in Users : ui[x].panel <= Len(chat[x]) /\ ui[x].panel \in Nat
        BY <1>2 DEF TypeOK, RowType
    <2>3. DOMAIN chat' = Users /\ chat' = [x \in Users |-> chat'[x]]
        BY <1>2 DEF EditPanel, SendPanel
    <2>4. chat' \in [Users -> Seq(Msg)]
        BY <2>1, <2>3
    <2>5. \A x \in Users : ui'[x].panel <= Len(chat'[x])
        BY <1>1, <1>2, <2>1, <2>2
    <2> QED BY <1>1, <1>2, <1>8, <2>1, <2>4, <2>5, DrawKeeps
<1>10. CASE Advance(w)
    <2>1. TypeOK'
        BY <1>1, <1>2, <1>9, <1>10, TurnTyped DEF Advance, Phases
    <2>2. \A x \in Workers : x # w => job'[x] = job[x]
        BY <1>2, <1>10, Turned DEF Advance
    <2>3. WorkerInv(w)'
        BY <1>1, <1>10, AdvanceKeeps
    <2> QED BY <1>1, <1>9, <2>1, <2>2, <2>3, HandlerStep
<1>11. CASE Phase(w, "send")
    <2>1. TypeOK'
        BY <1>1, <1>2, <1>9, <1>11, TurnTyped DEF Phase, Phases
    <2>2. /\ job'[w].pc = "send" /\ job'[w].upd = job[w].upd /\ job'[w].todo = job[w].todo
          /\ job'[w].then = job[w].then /\ job'[w].row = row
          /\ \A x \in Workers : x # w => job'[x] = job[x]
        BY <1>2, <1>11, Turned DEF Phase
    <2>3. User(w)' = u /\ Row(w)' = Row(w)
        BY <1>1, <2>2 DEF User, Row
    <2>4. /\ \A i \in 1..Len(chat'[u]) :
               chat'[u][i].rev = Row(w).rev => chat'[u][i].scr = job[w].todo.scr
          /\ Row(w).rev > 0
        BY <1>1, <1>8, DrawKeeps
    <2>7. Len(chat'[u]) \in Nat /\ Len(chat[u]) \in Nat
        BY <1>2, <1>9
    <2>5. row.panel <= Len(chat'[u])
        BY <1>3, <1>9, <2>7
    <2>6. WorkerInv(w)'
        BY <1>1, <1>2, <1>3, <2>2, <2>3, <2>4, <2>5 DEF WorkerInv, Handling, User, At
    <2> QED BY <1>1, <1>9, <2>1, <2>2, <2>6, HandlerStep
<1>12. CASE Turn(w, "keep", job[w].todo, job[w].then, more) /\ chat' = longer
    <2>1. more \in RowType /\ more.rev = row.rev /\ more.panel = Len(chat[u]) + 1
        BY <1>2 DEF Carried, RowOf, RowType
    <2>2. TypeOK'
        BY <1>1, <1>2, <1>9, <1>12, <2>1, TurnTyped DEF Phases
    <2>3. /\ job'[w].pc = "keep" /\ job'[w].upd = job[w].upd /\ job'[w].todo = job[w].todo
          /\ job'[w].then = job[w].then /\ job'[w].row = more
          /\ \A x \in Workers : x # w => job'[x] = job[x]
        BY <1>2, <1>12, Turned
    <2>4. User(w)' = u /\ Row(w)' = Row(w)
        BY <1>1, <2>3 DEF User, Row
    <2>5. more.panel <= Len(chat'[u])
        BY <1>8, <1>12, <1>2, <2>1
    <2>6. WorkerInv(w)'
        BY <1>1, <1>2, <1>3, <2>1, <2>3, <2>4, <2>5 DEF WorkerInv, Handling, User, At
    <2> QED BY <1>1, <1>9, <2>2, <2>3, <2>6, HandlerStep
<1> QED BY <1>10, <1>11, <1>12 DEF EditPanel, SendPanel, AfterLostPanel

\* KeepPanel, which stores the same revision once more, keeps the invariant.
LEMMA KeepStep ==
    ASSUME PanelsInv, NEW w \in Workers, KeepPanel(w)
    PROVE  PanelsInv'
<1> DEFINE u == User(w)
           row == Stamped(job[w].row)
<1>1. /\ job[w].pc = "keep" /\ Handling(w) /\ (Answers(w) \/ Fails(w)) /\ UNCHANGED Shared
      /\ settings' = settings /\ chat' = chat /\ wrote' = wrote /\ lock' = lock /\ queue' = queue
      /\ Advance(w) /\ (ui' = ui \/ ui' = [ui EXCEPT ![u] = row])
    BY DEF KeepPanel, Handling, Shared
<1>2. /\ TypeOK /\ WorkerInv(w) /\ job[w].pc # "idle" /\ User(w) \in Users
      /\ Row(w) \in RowType /\ ui \in [Users -> RowType] /\ chat \in [Users -> Seq(Msg)]
      /\ wrote \in WroteType /\ job[w].row \in RowType /\ job[w].then \in Steps
      /\ settings \in [Users -> [Keys -> Values \cup {Unset, AnyBank}]]
      /\ Stop \in Steps /\ now \in Nat
    BY <1>1, HandlerFacts
<1>3. row \in RowType /\ row.rev = Row(w).rev /\ row.panel <= Len(chat[u])
    BY <1>1, <1>2 DEF WorkerInv, Stamped, RowOf, RowType
<1>4. /\ ui' \in [Users -> RowType] /\ ui'[u].rev = Row(w).rev
      /\ \A x \in Users : x # u => ui'[x] = ui[x]
      /\ ui'[u] = ui[u] \/ ui'[u] = row
    BY <1>1, <1>2, <1>3 DEF Row
<1>5. \A x \in Users : ui'[x].panel <= Len(chat'[x])
    BY <1>1, <1>2, <1>3, <1>4 DEF TypeOK
<1>6. \A x \in Users : x = u => ChatInv(x)'
    <2> SUFFICES ASSUME NEW x \in Users, x = u PROVE ChatInv(x)'
        OBVIOUS
    <2>1. ChatInv(x)
        BY Parts
    <2>2. ui'[x].rev = ui[x].rev /\ chat'[x] = chat[x]
        BY <1>1, <1>4 DEF Row
    <2> QED BY <2>1, <2>2 DEF ChatInv
<1>7. TypeOK'
    BY <1>1, <1>2, <1>4, <1>5, TurnTyped DEF Advance, Phases
<1>8. WorkerInv(w)' /\ \A x \in Workers : x # w => job'[x] = job[x]
    BY <1>1, <1>2, AdvanceKeeps, Turned DEF Advance
<1> QED BY <1>1, <1>4, <1>6, <1>7, <1>8, HandlerStep

\* A message outside the panel carries no revision and keeps the invariant.
LEMMA ReplyStep ==
    ASSUME PanelsInv, NEW w \in Workers, SendReply(w)
    PROVE  PanelsInv'
<1> DEFINE u == User(w)
           m == [scr |-> job[w].todo.scr, rev |-> 0]
<1>1. /\ job[w].pc = "run" /\ job[w].todo.op = "reply" /\ Handling(w)
      /\ (Answers(w) \/ Fails(w)) /\ UNCHANGED Shared /\ Advance(w)
      /\ ui' = ui /\ settings' = settings /\ wrote' = wrote /\ lock' = lock /\ queue' = queue
      /\ chat' = chat \/ chat' = [chat EXCEPT ![User(w)] = Append(@, m)]
    BY DEF SendReply, At, Handling, Shared
<1>2. /\ TypeOK /\ WorkerInv(w) /\ ChatInv(User(w)) /\ job[w].pc # "idle" /\ User(w) \in Users
      /\ ui \in [Users -> RowType] /\ chat \in [Users -> Seq(Msg)]
      /\ wrote \in WroteType /\ job[w].row \in RowType
      /\ job[w].todo \in Steps /\ job[w].then \in Steps
      /\ settings \in [Users -> [Keys -> Values \cup {Unset, AnyBank}]]
      /\ Stop \in Steps
    BY <1>1, HandlerFacts
<1>3. m \in Msg /\ m.rev = 0
    BY <1>1, <1>2, StepFields DEF Msg
<1>4. \A x \in Users : ui[x].panel <= Len(chat[x]) /\ ui[x].panel \in Nat /\ ui[x].rev \in Nat
    BY <1>2 DEF TypeOK, RowType
<1>5. CASE chat' = [chat EXCEPT ![User(w)] = Append(@, m)]
    <2>1. /\ chat' \in [Users -> Seq(Msg)]
          /\ \A x \in Users : Len(chat[x]) <= Len(chat'[x])
          /\ Len(chat'[u]) = Len(chat[u]) + 1
          /\ \A x \in Users : \A i \in 1..Len(chat'[x]) :
                chat'[x][i] = IF x = u /\ i = Len(chat[u]) + 1 THEN m ELSE chat[x][i]
        <3> HIDE DEF m
        <3> QED BY <1>2, <1>3, <1>5, ChatGrows
    <2>2. \A x \in Users : x # u => chat'[x] = chat[x]
        BY <1>2, <1>5
    <2>3. \A x \in Users : ui'[x].panel <= Len(chat'[x])
        BY <1>1, <1>2, <1>4, <2>1
    <2>4. \A i \in 1..Len(chat'[u]) :
            chat'[u][i].rev = 0 \/ (i \in 1..Len(chat[u]) /\ chat'[u][i] = chat[u][i])
        BY <1>2, <1>3, <2>1
    <2>5. \A i \in 1..Len(chat'[u]) : chat'[u][i].rev <= ui'[u].rev
        <3> TAKE i \in 1..Len(chat'[u])
        <3>1. ui'[u] = ui[u] /\ 0 <= ui[u].rev
            BY <1>1, <1>2, <1>4
        <3>2. CASE chat'[u][i].rev = 0
            BY <3>1, <3>2
        <3>3. CASE i \in 1..Len(chat[u]) /\ chat'[u][i] = chat[u][i]
            BY <1>2, <3>1, <3>3 DEF ChatInv
        <3> QED BY <2>4, <3>2, <3>3
    <2>9. \A i, j \in 1..Len(chat'[u]) :
            (chat'[u][i].rev > 0 /\ chat'[u][i].rev = chat'[u][j].rev)
              => chat'[u][i].scr = chat'[u][j].scr
        <3> SUFFICES ASSUME NEW i \in 1..Len(chat'[u]), NEW j \in 1..Len(chat'[u]),
                            chat'[u][i].rev > 0, chat'[u][i].rev = chat'[u][j].rev
                     PROVE  chat'[u][i].scr = chat'[u][j].scr
            OBVIOUS
        <3>1. /\ i \in 1..Len(chat[u]) /\ chat'[u][i] = chat[u][i]
              /\ j \in 1..Len(chat[u]) /\ chat'[u][j] = chat[u][j]
            BY <2>4
        <3> QED BY <1>2, <3>1 DEF ChatInv
    <2>6. \A x \in Users : x = u => ChatInv(x)'
        BY <2>5, <2>9 DEF ChatInv
    <2>7. TypeOK'
        BY <1>1, <1>2, <2>1, <2>3, TurnTyped DEF Advance, Phases
    <2>8. WorkerInv(w)' /\ \A x \in Workers : x # w => job'[x] = job[x]
        BY <1>1, <1>2, AdvanceKeeps, Turned DEF Advance
    <2> QED BY <1>1, <2>2, <2>6, <2>7, <2>8, HandlerStep
<1>6. CASE chat' = chat
    <2>1. TypeOK'
        BY <1>1, <1>2, <1>4, <1>6, TurnTyped DEF Advance, Phases
    <2>2. WorkerInv(w)' /\ \A x \in Workers : x # w => job'[x] = job[x]
        BY <1>1, <1>2, AdvanceKeeps, Turned DEF Advance
    <2>3. \A x \in Users : ChatInv(x)'
        BY <1>1, <1>6, Parts DEF ChatInv
    <2> QED BY <1>1, <1>6, <2>1, <2>2, <2>3, HandlerStep
<1> QED BY <1>1, <1>5, <1>6

\* The settings and the history are no part of the invariant but for their types.
LEMMA SettingSteps ==
    ASSUME PanelsInv, NEW w \in Workers, SaveSetting(w) \/ SetPayment(w)
    PROVE  PanelsInv'
<1>1. /\ job[w].pc = "run" /\ Handling(w)
      /\ (Answers(w) \/ Fails(w)) /\ UNCHANGED Shared
      /\ ui' = ui /\ chat' = chat /\ lock' = lock /\ queue' = queue
    BY DEF SaveSetting, SetPayment, At, Handling, Shared
<1>2. /\ TypeOK /\ WorkerInv(w) /\ ChatInv(User(w)) /\ job[w].pc # "idle" /\ User(w) \in Users
      /\ ui \in [Users -> RowType] /\ chat \in [Users -> Seq(Msg)] /\ Row(w) \in RowType
      /\ wrote \in WroteType /\ job[w].row \in RowType
      /\ job[w].todo \in Steps /\ job[w].then \in Steps
      /\ settings \in [Users -> [Keys -> Values \cup {Unset, AnyBank}]]
    BY <1>1, HandlerFacts
<1>3. \A x \in Users : ui'[x].panel <= Len(chat'[x])
    BY <1>1, <1>2 DEF TypeOK
<1>4. \A keys : Writes(w, keys) => wrote' \in WroteType
    <2> SUFFICES ASSUME NEW keys, Writes(w, keys) PROVE wrote' \in WroteType
        OBVIOUS
    <2>1. Row(w).rev \in Nat /\ wrote[User(w)] \in [Keys -> Nat]
        BY <1>2 DEF RowType, WroteType
    <2> DEFINE new == [k \in Keys |-> IF k \in keys THEN Row(w).rev ELSE wrote[User(w)][k]]
    <2>2. new \in [Keys -> Nat]
        BY <2>1
    <2>3. wrote' = [wrote EXCEPT ![User(w)] = new]
        BY <1>2 DEF Writes, WroteType
    <2> HIDE DEF new
    <2> QED BY <1>2, <2>2, <2>3 DEF WroteType
<1>5. wrote' \in WroteType
    BY <1>2, <1>4 DEF SaveSetting, SetPayment
<1>6. settings' \in [Users -> [Keys -> Values \cup {Unset, AnyBank}]]
    <2>1. CASE SaveSetting(w)
        <3>1. job[w].todo.key \in Keys /\ job[w].todo.val \in Values \cup {AnyBank}
            BY <1>2, <2>1, StepFields DEF SaveSetting, At
        <3>2. \/ settings' = settings
              \/ settings' = [settings EXCEPT ![User(w)][job[w].todo.key] = job[w].todo.val]
            BY <2>1 DEF SaveSetting
        <3>3. \A k \in Keys, v \in Values \cup {AnyBank} :
                [settings EXCEPT ![User(w)][k] = v]
                  \in [Users -> [Keys -> Values \cup {Unset, AnyBank}]]
            BY <1>2
        <3>4. [settings EXCEPT ![User(w)][job[w].todo.key] = job[w].todo.val]
                \in [Users -> [Keys -> Values \cup {Unset, AnyBank}]]
            BY <3>1, <3>3, Zenon
        <3> QED BY <1>2, <3>2, <3>4, Zenon
    <2>2. CASE SetPayment(w)
        <3>1. job[w].todo.val \in Values
            BY <1>2, <2>2, StepFields DEF SetPayment, At
        <3> DEFINE chosen == [k \in Keys |-> IF k \in Providers THEN Unset
                                             ELSE IF k = "payment" THEN job[w].todo.val
                                             ELSE settings[User(w)][k]]
        <3>2. chosen \in [Keys -> Values \cup {Unset, AnyBank}]
            BY <1>2, <3>1
        <3>3. settings' = settings \/ settings' = [settings EXCEPT ![User(w)] = chosen]
            BY <1>2, <2>2 DEF SetPayment
        <3> HIDE DEF chosen
        <3> QED BY <1>2, <3>2, <3>3
    <2> QED BY <2>1, <2>2
<1>7. \E step \in Steps : Goto(w, step) /\ step.op \in {"panel", "reply", "stop"}
    <2>1. /\ \A s \in Panels : Show(s) \in Steps /\ Show(s).op = "panel"
          /\ \A s \in Others : Reply(s) \in Steps /\ Reply(s).op = "reply"
          /\ Stop \in Steps /\ Stop.op = "stop"
        BY NamedSteps DEF Show, Reply, Stop, Do, Step
    <2>2. CASE SaveSetting(w)
        BY <2>1, <2>2, NamedScreens DEF SaveSetting, MayBeGone
    <2>3. CASE SetPayment(w)
        BY <2>1, <2>3, NamedScreens DEF SetPayment
    <2> QED BY <2>2, <2>3
<1> PICK step \in Steps : Goto(w, step) /\ step.op \in {"panel", "reply", "stop"}
    BY <1>7
<1>8. /\ job'[w].pc = "run" /\ job'[w].upd = job[w].upd /\ job'[w].todo = step
      /\ job'[w].then = job[w].then
      /\ \A x \in Workers : x # w => job'[x] = job[x]
    BY <1>2, Turned DEF Goto
<1>9. TypeOK'
    BY <1>1, <1>2, <1>3, <1>5, <1>6, TurnTyped DEF Goto, Phases
<1>10. WorkerInv(w)'
    <2>1. (job[w].upd.src = "panel" =>
            /\ job[w].upd.act.op \in ButtonOps
            /\ job[w].todo.op # "pending" /\ job[w].then.op \in {"stop", "reply"})'
        BY <1>2, <1>8 DEF WorkerInv
    <2>2. ~At(w, "set")'
        BY <1>8 DEF At
    <2>3. (Handling(w) => lock[SlotOf[User(w)]] = w)'
        BY <1>1, <1>2, <1>8 DEF WorkerInv, User
    <2> QED BY <1>8, <2>1, <2>2, <2>3 DEF WorkerInv
<1>11. \A x \in Users : ChatInv(x)'
    BY <1>1, Parts DEF ChatInv
<1> QED BY <1>1, <1>8, <1>9, <1>10, <1>11, HandlerStep

-----------------------------------------------------------------------------
(* Taking an update, entering and leaving the lock, time, failures, users. *)

\* Taking an update off the queue keeps the invariant.
LEMMA TakeStep ==
    ASSUME PanelsInv, NEW w \in Workers, Take(w)
    PROVE  PanelsInv'
<1> DEFINE job1 == [Idle EXCEPT !.pc = "lock", !.upd = Head(queue)]
<1>1. /\ TypeOK /\ QueueInv /\ queue # <<>>
      /\ job' = [job EXCEPT ![w] = job1] /\ queue' = Tail(queue)
      /\ ui' = ui /\ settings' = settings /\ chat' = chat /\ lock' = lock /\ now' = now
      /\ sent' = sent /\ faults' = faults /\ crashes' = crashes /\ wrote' = wrote
    BY Parts DEF Take
<1>2. Head(queue) \in UpdateType /\ Tail(queue) \in Seq(UpdateType)
    BY <1>1, QueueShrinks
<1>3. /\ job1.pc = "lock" /\ job1.upd = Head(queue) /\ job1.todo = Stop /\ job1.then = Stop
      /\ job1 \in JobType
    BY <1>2, IdleTyped DEF Idle, JobType, Phases
<1>4. Stop.op = "stop"
    BY DEF Stop, Do, Step
<1> HIDE DEF job1
<1>5. /\ job' \in [Workers -> JobType] /\ job'[w] = job1
      /\ \A x \in Workers : x # w => job'[x] = job[x]
    BY <1>1, <1>3 DEF TypeOK
<1>6. TypeOK'
    BY <1>1, <1>2, <1>3, <1>5 DEF TypeOK
<1>7. Head(queue).src = "panel" => Head(queue).act.op \in ButtonOps
    BY <1>1 DEF QueueInv, TypeOK
<1>8. QueueInv'
    BY <1>1 DEF QueueInv, TypeOK
<1>9. \A x \in Workers : WorkerInv(x)'
    <2> TAKE x \in Workers
    <2>1. CASE x = w
        BY <1>3, <1>4, <1>5, <1>7, <2>1 DEF WorkerInv, Handling, At
    <2>2. CASE x # w
        <3>1. job'[x] = job[x] /\ WorkerInv(x)
            BY <1>5, <2>2, Parts
        <3> QED BY <1>1, <3>1, SMTT(30) DEF WorkerInv, Handling, User, Row, At
    <2> QED BY <2>1, <2>2
<1>10. \A x \in Users : ChatInv(x)'
    BY <1>1, Parts DEF ChatInv
<1> QED BY <1>6, <1>8, <1>9, <1>10 DEF PanelsInv, QueueInv, WorkerInv, ChatInv, HoldsLock,
       CopyIsFresh, DrawnAlone, PressesAreButtons, ButtonsNeverAhead, OneScreenPerRevision,
       PressIsCurrent

\* A lock that is free is held by no handler, so whoever takes it is alone.
LEMMA BeginStep ==
    ASSUME PanelsInv, NEW w \in Workers, Begin(w)
    PROVE  PanelsInv'
<1> DEFINE upd == job[w].upd
           s == SlotOf[upd.user]
<1>1. /\ TypeOK /\ WorkerInv(w) /\ QueueInv /\ job[w].pc = "lock" /\ lock[s] = Nobody
      /\ lock' = [lock EXCEPT ![s] = w] /\ (Answers(w) \/ Fails(w))
      /\ ui' = ui /\ settings' = settings /\ chat' = chat /\ queue' = queue /\ now' = now
      /\ sent' = sent /\ crashes' = crashes /\ wrote' = wrote
    BY Parts DEF Begin, MayEnter, User
<1>2. upd \in UpdateType /\ job[w] \in JobType /\ s \in Slots
    BY <1>1, RowsTyped, PanelsAssumption DEF UpdateType
<1>3. /\ job[w].row \in RowType /\ job[w].then \in Steps /\ upd.act \in Steps
      /\ Stop \in Steps /\ Do("new") \in Steps /\ Do("press") \in Steps /\ Reply(Plain) \in Steps
      /\ Stop.op = "stop" /\ Do("new").op = "new" /\ Do("press").op = "press"
      /\ Reply(Plain).op = "reply" /\ upd.src \in {"command", "cancel", "text", "panel", "outside"}
    BY <1>2, NamedSteps, NamedScreens DEF JobType, UpdateType, Stop, Do, Reply, Step
<1>4. \E todo, then \in Steps :
        /\ Turn(w, "run", todo, then, job[w].row)
        /\ upd.src = "panel" => /\ todo.op \in {"press", "stop"}
                                /\ then = Stop \/ then = job[w].then
    <2>1. CASE upd.src \in {"command", "outside"} /\ Turn(w, "run", Do("new"), upd.act, job[w].row)
        BY <1>3, <2>1
    <2>2. CASE upd.src = "panel" /\ Turn(w, "run", Do("press"), Stop, job[w].row)
        BY <1>3, <2>2
    <2>3. CASE upd.src \in {"cancel", "text"} /\ Turn(w, "run", upd.act, Stop, job[w].row)
        BY <1>3, <2>3
    <2>4. CASE Turn(w, "run", Stop, job[w].then, job[w].row)
        BY <1>3, <2>4
    <2>5. CASE upd.src # "panel" /\ Turn(w, "run", Reply(Plain), job[w].then, job[w].row)
        BY <1>3, <2>5
    <2> QED BY <1>3, <2>1, <2>2, <2>3, <2>4, <2>5 DEF Begin, Goto
<1> PICK todo \in Steps, then \in Steps :
        /\ Turn(w, "run", todo, then, job[w].row)
        /\ upd.src = "panel" => /\ todo.op \in {"press", "stop"}
                                /\ then = Stop \/ then = job[w].then
    BY <1>4
<1>5. /\ job'[w].pc = "run" /\ job'[w].upd = upd /\ job'[w].todo = todo /\ job'[w].then = then
      /\ \A x \in Workers : x # w => job'[x] = job[x]
    BY <1>1, Turned
<1>6. /\ job' \in [Workers -> JobType]
      /\ \A x \in Workers : job'[x].pc # "idle" => job'[x].upd \in UpdateType
    BY <1>1, <1>3, JobMoves DEF Phases
<1>7. /\ lock' \in [Slots -> Workers \cup {Nobody}] /\ lock'[s] = w
      /\ \A x \in Slots : x # s => lock'[x] = lock[x]
    BY <1>1, <1>2 DEF TypeOK
<1>8. TypeOK'
    BY <1>1, <1>6, <1>7, FaultsCounted DEF TypeOK
<1>9. WorkerInv(w)'
    BY <1>1, <1>3, <1>5, <1>7 DEF WorkerInv, Handling, User, At
<1>10. \A x \in Workers : x # w => WorkerInv(x)'
    <2> SUFFICES ASSUME NEW x \in Workers, x # w PROVE WorkerInv(x)'
        OBVIOUS
    <2>1. job'[x] = job[x] /\ WorkerInv(x)
        BY <1>5, Parts
    <2>2. CASE Handling(x)
        <3>1. lock[SlotOf[User(x)]] = x /\ User(x) \in Users
            BY <1>1, <2>1, <2>2, RowsTyped DEF WorkerInv, Handling
        <3>2. SlotOf[User(x)] \in Slots /\ SlotOf[User(x)] # s
            BY <1>1, <3>1, PanelsAssumption
        <3>3. lock'[SlotOf[User(x)]] = x
            BY <1>7, <3>1, <3>2
        <3> QED BY <1>1, <2>1, <3>3 DEF WorkerInv, Handling, User, Row, At
    <2>3. CASE ~Handling(x)
        BY <2>1, <2>3 DEF WorkerInv, Handling, At
    <2> QED BY <2>2, <2>3
<1>11. \A x \in Users : ChatInv(x)'
    BY <1>1, Parts DEF ChatInv
<1>12. QueueInv'
    BY <1>1 DEF QueueInv
<1>13. \A x \in Workers : WorkerInv(x)'
    BY <1>9, <1>10
<1> QED BY <1>8, <1>11, <1>12, <1>13 DEF PanelsInv, QueueInv, WorkerInv, ChatInv, HoldsLock,
       CopyIsFresh, DrawnAlone, PressesAreButtons, ButtonsNeverAhead, OneScreenPerRevision,
       PressIsCurrent

\* A handler that ends gives its lock back and keeps the invariant.
LEMMA FinishStep ==
    ASSUME PanelsInv, NEW w \in Workers, Finish(w)
    PROVE  PanelsInv'
<1> DEFINE s == SlotOf[User(w)]
<1>1. /\ TypeOK /\ WorkerInv(w) /\ QueueInv /\ job[w].pc = "run" /\ Handling(w)
      /\ lock' = [lock EXCEPT ![s] = Nobody] /\ job' = [job EXCEPT ![w] = Idle]
      /\ ui' = ui /\ settings' = settings /\ chat' = chat /\ queue' = queue /\ now' = now
      /\ sent' = sent /\ crashes' = crashes /\ wrote' = wrote /\ faults' = faults
    BY Parts DEF Finish, Unlocked, At, Handling
<1>2. User(w) \in Users /\ s \in Slots /\ lock[s] = w
    BY <1>1, RowsTyped, PanelsAssumption DEF WorkerInv
<1>3. /\ Idle.pc = "idle" /\ Idle.upd.src = "none"
      /\ job' \in [Workers -> JobType] /\ job'[w] = Idle
      /\ \A x \in Workers : x # w => job'[x] = job[x]
    BY <1>1, IdleTyped DEF TypeOK, Idle, NoUpdate
<1>4. /\ lock' \in [Slots -> Workers \cup {Nobody}]
      /\ \A x \in Slots : x # s => lock'[x] = lock[x]
    BY <1>1, <1>2 DEF TypeOK
<1>5. TypeOK'
    BY <1>1, <1>3, <1>4 DEF TypeOK
<1>6. \A x \in Workers : WorkerInv(x)'
    <2> TAKE x \in Workers
    <2>1. CASE x = w
        BY <1>3, <2>1 DEF WorkerInv, Handling, At
    <2>2. CASE x # w /\ Handling(x)
        <3>1. job'[x] = job[x] /\ WorkerInv(x) /\ User(x) \in Users
            BY <1>1, <1>3, <2>2, Parts, RowsTyped DEF Handling
        <3>2. lock[SlotOf[User(x)]] = x /\ SlotOf[User(x)] \in Slots
            BY <2>2, <3>1, PanelsAssumption DEF WorkerInv
        <3>3. lock'[SlotOf[User(x)]] = x
            BY <1>2, <1>4, <2>2, <3>2
        <3> QED BY <1>1, <3>1, <3>3 DEF WorkerInv, Handling, User, Row, At
    <2>3. CASE x # w /\ ~Handling(x)
        <3>1. job'[x] = job[x] /\ WorkerInv(x)
            BY <1>3, <2>3, Parts
        <3> QED BY <2>3, <3>1 DEF WorkerInv, Handling, At
    <2> QED BY <2>1, <2>2, <2>3
<1>7. \A x \in Users : ChatInv(x)'
    BY <1>1, Parts DEF ChatInv
<1>8. QueueInv'
    BY <1>1 DEF QueueInv
<1> QED BY <1>5, <1>6, <1>7, <1>8 DEF PanelsInv, QueueInv, WorkerInv, ChatInv, HoldsLock,
       CopyIsFresh, DrawnAlone, PressesAreButtons, ButtonsNeverAhead, OneScreenPerRevision,
       PressIsCurrent

\* The deadline of a handler changes only what its calls answer.
LEMMA ExpireStep ==
    ASSUME PanelsInv, NEW w \in Workers, Expire(w)
    PROVE  PanelsInv'
<1>1. /\ TypeOK /\ job[w].pc \notin {"idle", "lock"} /\ faults' = faults + 1
      /\ job' = [job EXCEPT ![w].late = TRUE]
      /\ ui' = ui /\ settings' = settings /\ chat' = chat /\ queue' = queue /\ lock' = lock
      /\ now' = now /\ sent' = sent /\ crashes' = crashes /\ wrote' = wrote
    BY DEF PanelsInv, Expire, Shared
<1>2. \A x \in Workers :
        /\ job'[x] \in JobType /\ job'[x].pc = job[x].pc /\ job'[x].upd = job[x].upd
        /\ job'[x].todo = job[x].todo /\ job'[x].then = job[x].then /\ job'[x].row = job[x].row
    <2> TAKE x \in Workers
    <2>1. job \in [Workers -> JobType] /\ job[x] \in JobType
        BY <1>1 DEF TypeOK
    <2>2. CASE x = w
        <3>1. job'[x] = [job[x] EXCEPT !.late = TRUE]
            BY <1>1, <2>1, <2>2
        <3> QED BY <2>1, <3>1 DEF JobType
    <2>3. CASE x # w
        <3>1. job'[x] = job[x]
            BY <1>1, <2>1, <2>3
        <3> QED BY <2>1, <3>1
    <2> QED BY <2>2, <2>3
<1>3. job' \in [Workers -> JobType]
    BY <1>1, <1>2 DEF TypeOK
<1>4. \A x \in Workers : job'[x].pc # "idle" => job'[x].upd \in UpdateType
    BY <1>1, <1>2 DEF TypeOK
<1>8. /\ ui' = ui /\ settings' = settings /\ chat' = chat /\ queue' = queue /\ lock' = lock
      /\ now' = now /\ sent' = sent /\ crashes' = crashes /\ wrote' = wrote /\ faults' \in Nat
    BY <1>1 DEF TypeOK
<1>9. TypeOK
    BY <1>1
<1>5. TypeOK'
    BY <1>3, <1>4, <1>8, <1>9 DEF TypeOK
<1>6. \A x \in Workers : WorkerInv(x)'
    BY <1>1, <1>2, Parts DEF WorkerInv, Handling, User, Row, At
<1>7. (\A x \in Users : ChatInv(x)') /\ QueueInv'
    BY <1>1, Parts DEF ChatInv, QueueInv
<1> QED BY <1>5, <1>6, <1>7 DEF PanelsInv, QueueInv, WorkerInv, ChatInv, HoldsLock,
       CopyIsFresh, DrawnAlone, PressesAreButtons, ButtonsNeverAhead, OneScreenPerRevision,
       PressIsCurrent

\* Time passes.
LEMMA TickStep == ASSUME PanelsInv, Tick PROVE PanelsInv'
<1>4. /\ TypeOK /\ now' = now + 1
      /\ ui' = ui /\ settings' = settings /\ chat' = chat /\ queue' = queue /\ lock' = lock
      /\ job' = job /\ sent' = sent /\ faults' = faults /\ crashes' = crashes /\ wrote' = wrote
    BY DEF PanelsInv, Tick
<1>5. /\ TypeOK /\ now' \in Nat
      /\ ui' = ui /\ settings' = settings /\ chat' = chat /\ queue' = queue /\ lock' = lock
      /\ job' = job /\ sent' = sent /\ faults' = faults /\ crashes' = crashes /\ wrote' = wrote
    <2>1. now \in Nat
        BY <1>4 DEF TypeOK
    <2> QED BY <1>4, <2>1
<1>1. TypeOK'
    BY <1>5 DEF TypeOK
<1>2. \A w \in Workers : WorkerInv(w)'
    BY Parts DEF Tick, WorkerInv, Handling, User, Row, At
<1>3. (\A x \in Users : ChatInv(x)') /\ QueueInv'
    BY Parts DEF Tick, ChatInv, QueueInv
<1> QED BY <1>1, <1>2, <1>3 DEF PanelsInv, QueueInv, WorkerInv, ChatInv, HoldsLock,
       CopyIsFresh, DrawnAlone, PressesAreButtons, ButtonsNeverAhead, OneScreenPerRevision,
       PressIsCurrent

\* An update that waits in the queue or is being handled.
Received(x) ==
    \/ \E i \in 1..Len(queue) : x = queue[i]
    \/ \E w \in Busy : x = job[w].upd

\* What is delivered again had been received.
LEMMA Redelivered ==
    ASSUME PanelsInv,
           \/ \E again \in CutShort : queue' = again \o queue
           \/ \E i \in 1..Len(queue) : queue' = SubSeq(queue, i + 1, Len(queue))
    PROVE  queue' \in Seq(UpdateType) /\ \A i \in 1..Len(queue') : Received(queue'[i])
<1>1. queue \in Seq(UpdateType) /\ \A i \in 1..Len(queue) : Received(queue[i])
    BY DEF PanelsInv, TypeOK, Received
<1>2. \A w \in Busy : job[w].upd \in UpdateType /\ Received(job[w].upd)
    BY DEF PanelsInv, TypeOK, Busy, Received
<1>3. ASSUME NEW again \in Seq(UpdateType), \A i \in 1..Len(again) : Received(again[i]),
             queue' = again \o queue
      PROVE  queue' \in Seq(UpdateType) /\ \A i \in 1..Len(queue') : Received(queue'[i])
    <2>1. /\ queue' \in Seq(UpdateType) /\ Len(queue') = Len(again) + Len(queue)
          /\ Len(again) \in Nat /\ Len(queue) \in Nat
        BY <1>1, <1>3
    <2>2. ASSUME NEW i \in 1..Len(queue') PROVE Received(queue'[i])
        <3>1. CASE i <= Len(again)
            <4>1. i \in 1..Len(again) /\ queue'[i] = again[i]
                BY <1>1, <1>3, <2>1, <3>1
            <4> QED BY <1>3, <4>1
        <3>2. CASE i > Len(again)
            <4>1. i - Len(again) \in 1..Len(queue) /\ queue'[i] = queue[i - Len(again)]
                BY <1>1, <1>3, <2>1, <3>2
            <4> QED BY <1>1, <4>1
        <3> QED BY <2>1, <3>1, <3>2
    <2> QED BY <2>1, <2>2
<1>4. CASE \E again \in CutShort : queue' = again \o queue
    <2>1. PICK again \in CutShort : queue' = again \o queue
        BY <1>4
    <2>2. again \in Seq(UpdateType) /\ \A i \in 1..Len(again) : Received(again[i])
        <3>1. CASE again = <<>>
            BY <3>1
        <3>2. CASE \E w \in Busy : again = <<job[w].upd>>
            BY <1>2, <3>2
        <3>3. CASE \E p \in Busy \X Busy : again = <<job[p[1]].upd, job[p[2]].upd>>
            <4>1. PICK p \in Busy \X Busy : again = <<job[p[1]].upd, job[p[2]].upd>>
                BY <3>3
            <4>2. p[1] \in Busy /\ p[2] \in Busy
                OBVIOUS
            <4> QED BY <1>2, <4>1, <4>2
        <3> QED BY <3>1, <3>2, <3>3 DEF CutShort
    <2> QED BY <1>3, <2>1, <2>2
<1>5. ASSUME NEW i \in 1..Len(queue), queue' = SubSeq(queue, i + 1, Len(queue))
      PROVE  queue' \in Seq(UpdateType) /\ \A j \in 1..Len(queue') : Received(queue'[j])
    <2>1. /\ queue' \in Seq(UpdateType) /\ Len(queue') = Len(queue) - i
          /\ \A j \in 1..Len(queue') : j + i \in 1..Len(queue) /\ queue'[j] = queue[j + i]
        BY <1>1, <1>5
    <2> QED BY <1>1, <2>1
<1> QED BY <1>4, <1>5

\* A crash leaves the stored rows and the chats, and no handler.
LEMMA CrashStep == ASSUME PanelsInv, Crash PROVE PanelsInv'
<1>1. /\ TypeOK /\ crashes' = crashes + 1
      /\ lock' = [s \in Slots |-> Nobody] /\ job' = [w \in Workers |-> Idle]
      /\ ui' = ui /\ settings' = settings /\ chat' = chat
      /\ now' = now /\ sent' = sent /\ faults' = faults /\ wrote' = wrote
    BY DEF PanelsInv, Crash
<1>2. Idle.pc = "idle" /\ Idle.upd.src = "none" /\ Idle \in JobType
    BY IdleTyped DEF Idle, NoUpdate
<1>3. queue' \in Seq(UpdateType) /\ QueueInv'
    <2>1. queue' \in Seq(UpdateType) /\ \A i \in 1..Len(queue') : Received(queue'[i])
        BY Redelivered DEF Crash
    <2>2. \A x : Received(x) => (x.src = "panel" => x.act.op \in ButtonOps)
        BY Parts DEF Received, QueueInv, WorkerInv, Busy
    <2> QED BY <2>1, <2>2 DEF QueueInv
<1>7. /\ job' \in [Workers -> JobType] /\ \A w \in Workers : job'[w].pc = "idle"
      /\ lock' \in [Slots -> Workers \cup {Nobody}] /\ crashes' \in Nat
    BY <1>1, <1>2 DEF TypeOK
<1>8. /\ TypeOK /\ ui' = ui /\ settings' = settings /\ chat' = chat
      /\ now' = now /\ sent' = sent /\ faults' = faults /\ wrote' = wrote
    BY <1>1
<1>4. TypeOK'
    BY <1>3, <1>7, <1>8 DEF TypeOK
<1>5. \A w \in Workers : WorkerInv(w)'
    BY <1>1, <1>2 DEF WorkerInv, Handling, At
<1>6. \A x \in Users : ChatInv(x)'
    BY <1>1, Parts DEF ChatInv
<1> QED BY <1>3, <1>4, <1>5, <1>6 DEF PanelsInv, QueueInv, WorkerInv, ChatInv, HoldsLock,
       CopyIsFresh, DrawnAlone, PressesAreButtons, ButtonsNeverAhead, OneScreenPerRevision,
       PressIsCurrent

\* A message of the user's carries no revision, so it disturbs no panel.
LEMMA PostKeeps ==
    ASSUME PanelsInv, NEW u \in Users, NEW upd \in UpdateType, NEW msg \in Seq(Msg),
           msg = <<>> \/ \E m \in Msg : m.rev = 0 /\ msg = <<m>>,
           upd.src = "panel" => upd.act.op \in ButtonOps, Post(u, msg, upd)
    PROVE  PanelsInv'
<1>1. /\ TypeOK /\ QueueInv /\ queue' = Append(queue, upd) /\ queue \in Seq(UpdateType)
      /\ ui' = ui /\ lock' = lock /\ job' = job
      /\ chat' = [chat EXCEPT ![u] = @ \o msg] /\ chat \in [Users -> Seq(Msg)]
    BY Parts DEF Post, TypeOK, Msg
<1>2. Len(msg) <= 1
    OBVIOUS
<1>3. TypeOK'
    BY <1>1, <1>2, TypePost, SMTT(30)
<1>4. QueueInv'
    BY <1>1 DEF QueueInv
<1>5. \A x \in Users :
        /\ Len(chat'[x]) \in Nat /\ Len(chat[x]) \in Nat /\ Len(chat[x]) <= Len(chat'[x])
        /\ \A i \in 1..Len(chat'[x]) :
             chat'[x][i].rev = 0 \/ (i \in 1..Len(chat[x]) /\ chat'[x][i] = chat[x][i])
    <2>1. CASE msg = <<>>
        <3>1. chat' = chat
            BY <1>1, <2>1
        <3> QED BY <1>1, <3>1
    <2>2. ASSUME NEW m \in Msg, m.rev = 0, msg = <<m>>
          PROVE  \A x \in Users :
                   /\ Len(chat'[x]) \in Nat /\ Len(chat[x]) \in Nat
                   /\ Len(chat[x]) <= Len(chat'[x])
                   /\ \A i \in 1..Len(chat'[x]) :
                        chat'[x][i].rev = 0 \/ (i \in 1..Len(chat[x]) /\ chat'[x][i] = chat[x][i])
        <3>6. chat[u] \o msg = Append(chat[u], m)
            BY <1>1, <2>2
        <3>1. chat' = [chat EXCEPT ![u] = Append(@, m)]
            BY <1>1, <3>6
        <3>2. /\ chat' \in [Users -> Seq(Msg)]
              /\ \A x \in Users : Len(chat[x]) <= Len(chat'[x])
              /\ Len(chat'[u]) = Len(chat[u]) + 1
              /\ \A x \in Users : \A i \in 1..Len(chat'[x]) :
                   chat'[x][i] = IF x = u /\ i = Len(chat[u]) + 1 THEN m ELSE chat[x][i]
            BY <1>1, <3>1, ChatGrows
        <3>3. \A x \in Users : x # u => chat'[x] = chat[x]
            BY <1>1
        <3> TAKE x \in Users
        <3>4. Len(chat'[x]) \in Nat /\ Len(chat[x]) \in Nat /\ Len(chat[x]) <= Len(chat'[x])
            BY <1>1, <3>2
        <3>5. ASSUME NEW i \in 1..Len(chat'[x])
              PROVE  chat'[x][i].rev = 0 \/ (i \in 1..Len(chat[x]) /\ chat'[x][i] = chat[x][i])
            <4>1. CASE x = u /\ i = Len(chat[u]) + 1
                BY <2>2, <3>2, <4>1
            <4>2. CASE x = u /\ i # Len(chat[u]) + 1
                BY <3>2, <3>4, <4>2
            <4>3. CASE x # u
                BY <3>3, <4>3
            <4> QED BY <4>1, <4>2, <4>3
        <3> QED BY <3>4, <3>5
    <2> QED BY <2>1, <2>2
<1>6. \A x \in Users : ui[x].rev \in Nat /\ ui[x].rev >= 0
    BY <1>1 DEF TypeOK, RowType
<1>7. \A x \in Users : ChatInv(x)'
    <2> SUFFICES ASSUME NEW x \in Users PROVE ChatInv(x)'
        OBVIOUS
    <2>1. ChatInv(x)
        BY Parts
    <2>2. \A i \in 1..Len(chat'[x]) : chat'[x][i].rev <= ui'[x].rev
        <3> TAKE i \in 1..Len(chat'[x])
        <3>1. CASE chat'[x][i].rev = 0
            BY <1>1, <1>6, <3>1
        <3>2. CASE i \in 1..Len(chat[x]) /\ chat'[x][i] = chat[x][i]
            BY <1>1, <2>1, <3>2 DEF ChatInv
        <3> QED BY <1>5, <3>1, <3>2
    <2>3. \A i, j \in 1..Len(chat'[x]) :
            (chat'[x][i].rev > 0 /\ chat'[x][i].rev = chat'[x][j].rev)
              => chat'[x][i].scr = chat'[x][j].scr
        <3> SUFFICES ASSUME NEW i \in 1..Len(chat'[x]), NEW j \in 1..Len(chat'[x]),
                            chat'[x][i].rev > 0, chat'[x][i].rev = chat'[x][j].rev
                     PROVE  chat'[x][i].scr = chat'[x][j].scr
            OBVIOUS
        <3>1. /\ i \in 1..Len(chat[x]) /\ chat'[x][i] = chat[x][i]
              /\ j \in 1..Len(chat[x]) /\ chat'[x][j] = chat[x][j]
            BY <1>5
        <3> QED BY <2>1, <3>1 DEF ChatInv
    <2> QED BY <2>2, <2>3 DEF ChatInv
<1>8. \A w \in Workers : WorkerInv(w)'
    <2> SUFFICES ASSUME NEW w \in Workers PROVE WorkerInv(w)'
        OBVIOUS
    <2>1. WorkerInv(w)
        BY Parts
    <2>2. CASE job[w].pc \in {"save", "edit", "send", "keep"}
        <3>1. User(w) \in Users /\ job[w].row.panel \in Nat
            BY <1>1, <2>2, RowsTyped DEF JobType, RowType
        <3>2. job[w].row.panel <= Len(chat'[User(w)])
            BY <1>5, <2>1, <2>2, <3>1 DEF WorkerInv
        <3>3. job[w].pc \in {"edit", "send"} =>
                \A i \in 1..Len(chat'[User(w)]) :
                  chat'[User(w)][i].rev = Row(w).rev => chat'[User(w)][i].scr = job[w].todo.scr
            BY <1>5, <2>1, <3>1 DEF WorkerInv
        <3> QED BY <1>1, <2>1, <2>2, <3>2, <3>3 DEF WorkerInv, Handling, User, Row, At
    <2>3. CASE job[w].pc \notin {"save", "edit", "send", "keep"}
        BY <1>1, <2>1, <2>3 DEF WorkerInv, Handling, User, Row, At
    <2> QED BY <2>2, <2>3
<1> QED BY <1>3, <1>4, <1>7, <1>8 DEF PanelsInv, QueueInv, WorkerInv, ChatInv, HoldsLock,
       CopyIsFresh, DrawnAlone, PressesAreButtons, ButtonsNeverAhead, OneScreenPerRevision,
       PressIsCurrent

\* What the users send keeps the invariant; a button pressed is one of its message.
LEMMA UserStep ==
    ASSUME PanelsInv, NEW u \in Users, SendCommand(u) \/ SendCancel(u) \/ SendText(u) \/ Press(u)
    PROVE  PanelsInv'
<1> DEFINE typed == [scr |-> Typed, rev |-> 0]
<1>1. chat[u] \in Seq(Msg) /\ Len(chat[u]) \in Nat
    <2>1. chat \in [Users -> Seq(Msg)]
        BY DEF PanelsInv, TypeOK, Msg
    <2> QED BY <2>1
<1>2. typed \in Msg /\ typed.rev = 0
    BY NamedScreens DEF Msg
<1>3. <<typed>> \in Seq(Msg) /\ <<>> \in Seq(Msg)
    BY <1>2, Singleton
<1>4. ASSUME NEW act \in Steps, NEW src \in {"command", "cancel", "text"}, Type(u, src, act)
      PROVE  PanelsInv'
    <2> DEFINE upd == [user |-> u, src |-> src, rev |-> 0, act |-> act, at |-> Len(chat[u]) + 1]
    <2>1. upd \in UpdateType /\ upd.src # "panel"
        BY <1>1 DEF UpdateType
    <2>2. Post(u, <<typed>>, upd)
        BY <1>4 DEF Type
    <2> HIDE DEF typed, upd
    <2> QED BY <1>2, <1>3, <2>1, <2>2, PostKeeps
<1>5. CASE SendCommand(u) \/ SendText(u) \/ SendCancel(u)
    BY <1>4, <1>5, CommandsAreSteps, TextsAreSteps, NamedSteps, NamedScreens
       DEF SendCommand, SendText, SendCancel
<1>6. CASE Press(u)
    <2> PICK i \in 1..Len(chat[u]) : \E act \in Buttons(chat[u][i].scr) :
            Post(u, <<>>, [user |-> u, src |-> IF chat[u][i].rev > 0 THEN "panel" ELSE "outside",
                           rev |-> chat[u][i].rev, act |-> act, at |-> Len(chat[u])])
        BY <1>6 DEF Press
    <2> PICK act \in Buttons(chat[u][i].scr) :
            Post(u, <<>>, [user |-> u, src |-> IF chat[u][i].rev > 0 THEN "panel" ELSE "outside",
                           rev |-> chat[u][i].rev, act |-> act, at |-> Len(chat[u])])
        OBVIOUS
    <2> DEFINE upd == [user |-> u, src |-> IF chat[u][i].rev > 0 THEN "panel" ELSE "outside",
                       rev |-> chat[u][i].rev, act |-> act, at |-> Len(chat[u])]
    <2>1. chat[u][i] \in Msg
        BY <1>1
    <2>2. chat[u][i].scr \in Panels \cup Others /\ chat[u][i].rev \in Nat
        BY <2>1 DEF Msg
    <2>3. act \in Steps /\ act.op \in ButtonOps
        BY <2>2, ButtonsAreSteps DEF Steps
    <2>4. upd \in UpdateType /\ upd.act.op \in ButtonOps
        BY <1>1, <2>2, <2>3 DEF UpdateType
    <2>5. Post(u, <<>>, upd)
        OBVIOUS
    <2> HIDE DEF upd
    <2> QED BY <1>3, <2>4, <2>5, PostKeeps
<1> QED BY <1>5, <1>6

-----------------------------------------------------------------------------
\* The invariant holds initially.
LEMMA PanelsInit == Init => PanelsInv
<1> SUFFICES ASSUME Init PROVE PanelsInv
    OBVIOUS
<1>1. TypeOK
    BY TypeInit
<1>2. \A w \in Workers : job[w] = Idle
    BY DEF Init
<1>3. Idle.pc = "idle" /\ Idle.upd.src = "none"
    BY DEF Idle, NoUpdate
<1>4. \A w \in Workers : WorkerInv(w)
    BY <1>2, <1>3 DEF WorkerInv, Handling, At
<1>5. QueueInv
    BY DEF Init, QueueInv
<1>6. \A u \in Users : ChatInv(u)
    <2> TAKE u \in Users
    <2>1. \E scr : chat[u] = <<>> \/ chat[u] = << [scr |-> scr, rev |-> ui[u].rev] >>
        BY DEF Init
    <2>2. ui[u].rev \in Nat
        BY <1>1 DEF TypeOK, RowType
    <2> QED BY <2>1, <2>2 DEF ChatInv
<1> QED BY <1>1, <1>4, <1>5, <1>6, Parts

\* Every step keeps the invariant.
LEMMA PanelsNext == PanelsInv /\ [Next]_vars => PanelsInv'
<1> SUFFICES ASSUME PanelsInv, [Next]_vars PROVE PanelsInv'
    OBVIOUS
<1>1. ASSUME NEW u \in Users, SendCommand(u) \/ SendCancel(u) \/ SendText(u) \/ Press(u)
      PROVE  PanelsInv'
    BY <1>1, UserStep
<1>2. ASSUME NEW w \in Workers, Work(w) PROVE PanelsInv'
    BY <1>2, TakeStep, BeginStep, FinishStep, QuietSteps, SaveStep, DrawSteps, KeepStep,
       ReplyStep, SettingSteps DEF Work
<1>3. ASSUME NEW w \in Workers, Expire(w) PROVE PanelsInv'
    BY <1>3, ExpireStep
<1>4. CASE Tick \/ Crash
    BY <1>4, TickStep, CrashStep
<1>5. CASE UNCHANGED vars
    <2>1. /\ TypeOK /\ ui' = ui /\ settings' = settings /\ chat' = chat /\ queue' = queue
          /\ lock' = lock /\ job' = job /\ now' = now /\ sent' = sent /\ faults' = faults
          /\ crashes' = crashes /\ wrote' = wrote
        BY <1>5 DEF vars, PanelsInv
    <2>2. TypeOK'
        BY <2>1 DEF TypeOK
    <2>3. \A w \in Workers : WorkerInv(w)'
        BY <2>1, Parts DEF WorkerInv, Handling, User, Row, At
    <2>4. (\A u \in Users : ChatInv(u)') /\ QueueInv'
        BY <2>1, Parts DEF ChatInv, QueueInv
    <2> QED BY <2>2, <2>3, <2>4 DEF PanelsInv, QueueInv, WorkerInv, ChatInv, HoldsLock,
           CopyIsFresh, DrawnAlone, PressesAreButtons, ButtonsNeverAhead,
           OneScreenPerRevision, PressIsCurrent
<1> QED BY <1>1, <1>2, <1>3, <1>4, <1>5 DEF Next

\* The inductive invariant: the lock is held by the one handler of its users, its copy of
\* the row is fresh, and the chats and handlers obey the revision discipline.
THEOREM PanelsInvariant == Spec => []PanelsInv
BY PanelsInit, PanelsNext, PTL DEF Spec

\* Rows, messages, handlers and locks keep their shape; no row names a missing message.
THEOREM TypeCorrect == Spec => []TypeOK
<1>1. PanelsInv => TypeOK
    BY DEF PanelsInv
<1> QED BY <1>1, PanelsInvariant, PTL

\* No button in a chat is newer than the stored revision, whatever fails or crashes.
THEOREM NeverAhead == Spec => []ButtonsNeverAhead
<1>1. PanelsInv => ButtonsNeverAhead
    BY DEF PanelsInv
<1> QED BY <1>1, PanelsInvariant, PTL

\* Panels of one chat that carry one revision show one screen.
THEOREM OneScreen == Spec => []OneScreenPerRevision
<1>1. PanelsInv => OneScreenPerRevision
    BY DEF PanelsInv
<1> QED BY <1>1, PanelsInvariant, PTL

\* The revision check of uiCallback still holds when the button's setting is written.
THEOREM CheckHolds == Spec => []PressIsCurrent
<1>1. PanelsInv => PressIsCurrent
    BY DEF PanelsInv
<1> QED BY <1>1, PanelsInvariant, PTL

\* A row that is written anew carries the revision it carried or the next one.
LEMMA RowSteps ==
    ASSUME PanelsInv, NEW w \in Workers, SaveUI(w) \/ KeepPanel(w)
    PROVE  \A u \in Users : ui'[u].rev >= ui[u].rev
<1> DEFINE row == Stamped(job[w].row)
<1>1. /\ Handling(w) /\ job[w].pc \in {"save", "keep"}
      /\ ui' = ui \/ ui' = [ui EXCEPT ![User(w)] = row]
    BY DEF SaveUI, KeepPanel, Handling
<1>2. /\ WorkerInv(w) /\ User(w) \in Users /\ ui \in [Users -> RowType]
      /\ job[w].row \in RowType
    BY <1>1, HandlerFacts
<1>3. \A u \in Users : ui[u].rev \in Nat
    BY <1>2 DEF RowType
<1>4. job[w].row.rev = Row(w).rev \/ job[w].row.rev = Row(w).rev + 1
    <2>1. Row(w).rev \in Nat
        BY <1>2, <1>3 DEF Row
    <2> QED BY <1>1, <1>2, <2>1 DEF WorkerInv
<1>5. row.rev = job[w].row.rev
    BY DEF Stamped, RowOf
<1>6. CASE ui' = ui
    BY <1>3, <1>6
<1>7. CASE ui' = [ui EXCEPT ![User(w)] = row]
    <2>1. ui'[User(w)] = row /\ \A u \in Users : u # User(w) => ui'[u] = ui[u]
        BY <1>2, <1>7
    <2>2. ui'[User(w)].rev >= ui[User(w)].rev
        BY <1>2, <1>3, <1>4, <1>5, <2>1 DEF Row
    <2> QED BY <1>3, <2>1, <2>2
<1> QED BY <1>1, <1>6, <1>7

\* No step takes a revision back.
LEMMA NextGrows ==
    ASSUME PanelsInv, [Next]_vars
    PROVE  \A u \in Users : ui'[u].rev \in Nat /\ ui'[u].rev >= ui[u].rev
<1>1. \A u \in Users : ui[u].rev \in Nat
    BY DEF PanelsInv, TypeOK, RowType
<1>2. \A u \in Users : ui'[u].rev \in Nat
    <2>1. TypeOK'
        BY PanelsNext DEF PanelsInv
    <2> QED BY <2>1 DEF TypeOK, RowType
<1>3. CASE \E u \in Users : SendCommand(u) \/ SendCancel(u) \/ SendText(u) \/ Press(u)
    <2>1. ui' = ui
        BY <1>3 DEF SendCommand, SendCancel, SendText, Press, Type, Post
    <2> QED BY <1>1, <2>1
<1>4. ASSUME NEW w \in Workers, SaveUI(w) \/ KeepPanel(w)
      PROVE  \A u \in Users : ui'[u].rev >= ui[u].rev
    BY <1>4, RowSteps
<1>5. ASSUME NEW w \in Workers, Work(w) \/ Expire(w), ~SaveUI(w), ~KeepPanel(w)
      PROVE  ui' = ui
    BY <1>5 DEF Work, Expire, Take, Begin, Finish, NewPanel, OpenPanel, ClearInput,
       EditPanel, SendPanel, SendReply, UiCallback, SaveSetting, SetPayment, PendingInput,
       Calculate, LoadResult, FinishInput
<1>6. CASE Tick \/ Crash \/ UNCHANGED vars
    <2>1. ui' = ui
        BY <1>6 DEF Tick, Crash, vars
    <2> QED BY <1>1, <2>1
<1>7. CASE \E w \in Workers : Work(w) \/ Expire(w)
    BY <1>1, <1>2, <1>4, <1>5, <1>7
<1> QED BY <1>2, <1>3, <1>6, <1>7 DEF Next

\* Revisions never go back, across failures and restarts.
THEOREM RevisionsOnlyGrow == Spec => RevisionsGrow
<1>1. PanelsInv /\ [Next]_vars => [\A u \in Users : ui'[u].rev >= ui[u].rev]_vars
    BY NextGrows
<1> QED BY <1>1, PanelsInvariant, PTL DEF Spec, RevisionsGrow

-----------------------------------------------------------------------------
(* What a handler does with the update it was given.  For the typed texts  *)
(* and the menus of commands the invariant must remember the update: from  *)
(* where it came, what it asks for and how far the chat had come.          *)

\* No command stores a payment method.
NoPay == \A c \in Commands : c.op # "pay"

\* A text is to be judged by pendingInput, a panel's button has a revision, and an update
\* was sent below messages there are.
Planned(upd) ==
    /\ upd.src = "text" => upd.act.op = "pending"
    /\ upd.src = "panel" => upd.rev > 0
    /\ NoPay => upd.act.op # "pay"
    /\ upd.at <= Len(chat[upd.user])

PlannedQueue == \A i \in 1..Len(queue) : Planned(queue[i])

\* The handler is faithful to its plan; a text writes only to the input that is open.
Faithful(w) ==
    /\ job[w].pc # "idle" => Planned(job[w].upd)
    /\ job[w].late => faults > 0
    /\ job[w].upd.src = "text" => job[w].todo.op # "press" /\ job[w].then.op \in {"stop", "reply"}
    /\ NoPay => job[w].todo.op # "pay" /\ job[w].then.op # "pay"
    /\ At(w, "set") /\ job[w].upd.src = "text" => Row(w).state = Input(job[w].todo.key)

\* The row's panel is a message below the update, and shows the row's revision.
Shown(w, row) ==
    /\ row.panel > job[w].upd.at /\ row.panel <= Len(chat[User(w)])
    /\ chat[User(w)][row.panel].rev = row.rev

\* Where a handler that has met no failure is on its way to a new menu.
MenuAhead(w) ==
    LET pc == job[w].pc  todo == job[w].todo.op  row == job[w].row IN
    \/ /\ pc \in {"run", "save"} /\ todo = "new" /\ job[w].then = job[w].upd.act
       /\ pc = "save" => row.panel = 0
    \/ /\ job[w].then.op = "stop"
       /\ \/ pc = "run" /\ todo \in {"panel", "set"} /\ Row(w).panel = 0
          \/ pc = "save" /\ todo = "panel" /\ row.panel = 0
          \/ pc = "send"
          \/ pc = "keep" /\ Shown(w, row)
          \/ pc = "run" /\ todo = "stop" /\ Shown(w, Row(w))

OpensMenu(upd) == upd.src \in {"command", "outside"} /\ upd.act.op \in {"panel", "set"}

Follows(w) ==
    /\ Faithful(w)
    /\ Handling(w) /\ faults = 0 /\ OpensMenu(job[w].upd) => MenuAhead(w)

FollowInv == PlannedQueue /\ \A w \in Workers : Follows(w)

-----------------------------------------------------------------------------
\* A handler whose screen is about to take the next revision.
Renews(w, u) ==
    Handling(w) /\ User(w) = u /\ job[w].pc \in {"run", "save"} /\ job[w].todo.op = "panel"

\* Every setting was stored under an earlier revision than the stored one, or a handler is
\* about to take the next.
Outdated(u) ==
    /\ \A k \in Keys : wrote[u][k] <= ui[u].rev
    /\ faults = 0 /\ crashes = 0 =>
         \/ \E w \in Workers : Renews(w, u)
         \/ \A k \in Keys : wrote[u][k] = 0 \/ wrote[u][k] < ui[u].rev
OutdatedInv == NoPay => \A u \in Users : Outdated(u)

-----------------------------------------------------------------------------
(* What a step leaves to the other handlers. *)

\* The chats and rows a worker's step may change are those of the user it handles.
Alone(w) ==
    /\ \A x \in Workers : x # w => job'[x] = job[x]
    /\ faults' \in Nat /\ faults' >= faults
    /\ \A u \in Users : Len(chat[u]) <= Len(chat'[u])
    /\ \A u \in Users : ~(Handling(w) /\ u = User(w)) => ui'[u] = ui[u] /\ chat'[u] = chat[u]

\* A step that touches no chat and no row works alone.
LEMMA AloneByTurn ==
    ASSUME PanelsInv, NEW w \in Workers, \A x \in Workers : x # w => job'[x] = job[x],
           Answers(w) \/ Fails(w) \/ faults' = faults, chat' = chat,
           \A u \in Users : ~(Handling(w) /\ u = User(w)) => ui'[u] = ui[u]
    PROVE  Alone(w)
<1>1. faults \in Nat /\ \A u \in Users : Len(chat[u]) \in Nat
    BY DEF PanelsInv, TypeOK
<1>2. faults' \in Nat /\ faults' >= faults
    BY <1>1 DEF Answers, Fails
<1> QED BY <1>1, <1>2 DEF Alone

\* Every step of a worker works alone.
LEMMA WorksAlone ==
    ASSUME PanelsInv, NEW w \in Workers, Work(w)
    PROVE  Alone(w)
<1>1. TypeOK /\ faults \in Nat /\ chat \in [Users -> Seq(Msg)] /\ job \in [Workers -> JobType]
    BY DEF PanelsInv, TypeOK, Msg
<1>2. ASSUME NEW r, job' = [job EXCEPT ![w] = r] PROVE \A x \in Workers : x # w => job'[x] = job[x]
    BY <1>1, <1>2
<1>3. ASSUME NEW pc, NEW todo, NEW then, NEW row, Turn(w, pc, todo, then, row)
      PROVE  \A x \in Workers : x # w => job'[x] = job[x]
    BY <1>2, <1>3 DEF Turn
<1>4. CASE Take(w)
    BY <1>2, <1>4, AloneByTurn DEF Take
<1>5. CASE Begin(w)
    BY <1>3, <1>5, AloneByTurn DEF Begin, Goto
<1>6. CASE Finish(w)
    BY <1>2, <1>6, AloneByTurn DEF Finish
<1>7. CASE NewPanel(w) \/ ClearInput(w)
    BY <1>3, <1>7, AloneByTurn DEF NewPanel, ClearInput, Prepare, Advance
<1>8. CASE OpenPanel(w)
    BY <1>3, <1>8, AloneByTurn DEF OpenPanel, Prepare, Goto
<1>9. CASE SaveUI(w)
    <2>1. Handling(w) /\ chat' = chat /\ (Answers(w) \/ Fails(w))
        BY <1>9 DEF SaveUI, Handling
    <2>2. \A u \in Users : u # User(w) => ui'[u] = ui[u]
        BY <1>1, <1>9 DEF SaveUI, TypeOK
    <2>3. \A x \in Workers : x # w => job'[x] = job[x]
        BY <1>3, <1>9 DEF SaveUI, Phase, AfterLostSave, Advance
    <2> QED BY <2>1, <2>2, <2>3, AloneByTurn
<1>10. CASE KeepPanel(w)
    <2>1. Handling(w) /\ chat' = chat /\ (Answers(w) \/ Fails(w))
        BY <1>10 DEF KeepPanel, Handling
    <2>2. \A u \in Users : u # User(w) => ui'[u] = ui[u]
        BY <1>1, <1>10 DEF KeepPanel, TypeOK
    <2>3. \A x \in Workers : x # w => job'[x] = job[x]
        BY <1>3, <1>10 DEF KeepPanel, Advance
    <2> QED BY <2>1, <2>2, <2>3, AloneByTurn
<1>11. CASE EditPanel(w) \/ SendPanel(w)
    <2>1. Handling(w) /\ ui' = ui /\ (Answers(w) \/ Fails(w))
        BY <1>11 DEF EditPanel, SendPanel, Handling
    <2>2. \A x \in Workers : x # w => job'[x] = job[x]
        BY <1>3, <1>11 DEF EditPanel, SendPanel, Phase, Advance, AfterLostPanel
    <2>3. Draws(w)
        BY <1>11, PanelDraws
    <2>4. faults' \in Nat /\ faults' >= faults
        BY <1>1, <2>1 DEF Answers, Fails
    <2> QED BY <2>1, <2>2, <2>3, <2>4 DEF Alone, Draws
<1>12. CASE SendReply(w)
    <2> DEFINE m == [scr |-> job[w].todo.scr, rev |-> 0]
    <2>1. /\ Handling(w) /\ ui' = ui /\ (Answers(w) \/ Fails(w)) /\ job[w].todo.op = "reply"
          /\ chat' = chat \/ chat' = [chat EXCEPT ![User(w)] = Append(@, m)]
        BY <1>12 DEF SendReply, Handling, At
    <2>2. \A x \in Workers : x # w => job'[x] = job[x]
        BY <1>3, <1>12 DEF SendReply, Advance
    <2>3. m \in Msg /\ User(w) \in Users
        BY <2>1, HandlerFacts, StepFields DEF Msg
    <2>4. faults' \in Nat /\ faults' >= faults
        BY <1>1, <2>1 DEF Answers, Fails
    <2> HIDE DEF m
    <2>5. \A u \in Users : Len(chat[u]) <= Len(chat'[u])
        <3>1. CASE chat' = chat
            BY <1>1, <3>1
        <3>2. CASE chat' = [chat EXCEPT ![User(w)] = Append(@, m)]
            BY <1>1, <2>3, <3>2, ChatGrows
        <3> QED BY <2>1, <3>1, <3>2
    <2>6. \A u \in Users : u # User(w) => chat'[u] = chat[u]
        BY <1>1, <2>1
    <2> QED BY <2>1, <2>2, <2>4, <2>5, <2>6 DEF Alone
<1>13. CASE UiCallback(w) \/ SaveSetting(w) \/ SetPayment(w)
    <2>1. /\ ui' = ui /\ chat' = chat /\ (Answers(w) \/ Fails(w))
          /\ \E step : Goto(w, step)
        BY <1>13 DEF UiCallback, SaveSetting, SetPayment
    <2> QED BY <1>3, <2>1, AloneByTurn DEF Goto
<1>14. CASE PendingInput(w) \/ LoadResult(w) \/ FinishInput(w)
    <2>1. /\ ui' = ui /\ chat' = chat /\ (Answers(w) \/ Fails(w))
          /\ \E step : Goto(w, step)
        BY <1>14 DEF PendingInput, LoadResult, FinishInput
    <2> QED BY <1>3, <2>1, AloneByTurn DEF Goto
<1>15. CASE Calculate(w)
    <2>1. /\ ui' = ui /\ chat' = chat /\ (Answers(w) \/ Fails(w))
          /\ \E todo, then, row : Turn(w, "run", todo, then, row)
        BY <1>15 DEF Calculate, Goto
    <2> QED BY <1>3, <2>1, AloneByTurn
<1> QED BY <1>4, <1>5, <1>6, <1>7, <1>8, <1>9, <1>10, <1>11, <1>12, <1>13, <1>14, <1>15 DEF Work

\* What a handler meets when it is not its turn.
Undisturbed(x) ==
    /\ job'[x] = job[x] /\ faults' \in Nat /\ faults' >= faults
    /\ \A u \in Users : Len(chat[u]) <= Len(chat'[u])
    /\ Handling(x) => /\ ui'[User(x)] = ui[User(x)]
                      /\ \A i \in 1..Len(chat[User(x)]) : chat'[User(x)][i] = chat[User(x)][i]

\* Whoever works leaves the other handlers undisturbed: they work for other users.
LEMMA OthersUndisturbed ==
    ASSUME PanelsInv, NEW w \in Workers, Alone(w), NEW x \in Workers, x # w
    PROVE  Undisturbed(x)
<1>1. CASE Handling(x)
    <2>1. User(x) \in Users /\ ~(Handling(w) /\ User(x) = User(w))
        BY <1>1, HandlerFacts, Exclusive
    <2>2. ui'[User(x)] = ui[User(x)] /\ chat'[User(x)] = chat[User(x)]
        BY <2>1 DEF Alone
    <2> QED BY <2>2 DEF Undisturbed, Alone
<1>2. CASE ~Handling(x)
    BY <1>2 DEF Undisturbed, Alone
<1> QED BY <1>1, <1>2

\* An undisturbed handler stays on its plan.
LEMMA StaysOnPlan ==
    ASSUME PanelsInv, NEW x \in Workers, TypeOK', Follows(x), Undisturbed(x)
    PROVE  Follows(x)'
<1>1. /\ TypeOK /\ faults \in Nat /\ job'[x] = job[x] /\ faults' \in Nat /\ faults' >= faults
      /\ job[x].pc # "idle" => job[x].upd \in UpdateType /\ User(x) \in Users
    BY RowsTyped DEF PanelsInv, TypeOK, Undisturbed
<1>2. \A u \in Users : Len(chat[u]) \in Nat /\ Len(chat'[u]) \in Nat /\ Len(chat[u]) <= Len(chat'[u])
    BY <1>1 DEF Undisturbed, TypeOK
<1>3. job[x].pc # "idle" => job[x].upd.user \in Users /\ job[x].upd.at \in Nat
    BY <1>1 DEF UpdateType
<1>4. Faithful(x)'
    <2>1. (job[x].pc # "idle" => Planned(job[x].upd))'
        BY <1>1, <1>2, <1>3 DEF Follows, Faithful, Planned
    <2>2. (job[x].late => faults > 0)'
        BY <1>1 DEF Follows, Faithful
    <2>3. (/\ job[x].upd.src = "text" =>
                job[x].todo.op # "press" /\ job[x].then.op \in {"stop", "reply"}
           /\ NoPay => job[x].todo.op # "pay" /\ job[x].then.op # "pay")'
        BY <1>1 DEF Follows, Faithful
    <2>4. (At(x, "set") /\ job[x].upd.src = "text" => Row(x).state = Input(job[x].todo.key))'
        BY <1>1 DEF Follows, Faithful, Undisturbed, Handling, At, Row, User
    <2> QED BY <2>1, <2>2, <2>3, <2>4 DEF Faithful
<1>5. ASSUME Handling(x), faults' = 0, OpensMenu(job[x].upd) PROVE MenuAhead(x)'
    <2>1. MenuAhead(x)
        BY <1>1, <1>5 DEF Follows
    <2>2. /\ ui'[User(x)] = ui[User(x)]
          /\ \A i \in 1..Len(chat[User(x)]) : chat'[User(x)][i] = chat[User(x)][i]
          /\ User(x) \in Users /\ Row(x) \in RowType /\ job[x].row \in RowType
          /\ job[x].upd.at \in Nat
        BY <1>1, <1>3, <1>5, HandlerFacts DEF Undisturbed, Handling
    <2>3. User(x)' = User(x) /\ Row(x)' = Row(x)
        BY <1>1, <2>2 DEF User, Row
    <2>4. ASSUME NEW row \in RowType, Shown(x, row)
          PROVE  /\ row.panel > job[x].upd.at /\ row.panel <= Len(chat'[User(x)])
                 /\ chat'[User(x)][row.panel].rev = row.rev
        <3>1. row.panel \in 1..Len(chat[User(x)])
            BY <1>2, <2>2, <2>4 DEF Shown, RowType
        <3> QED BY <1>2, <2>2, <2>4, <3>1 DEF Shown
    <2>5. /\ Shown(x, job[x].row) => Shown(x, job[x].row)'
          /\ Shown(x, Row(x)) => Shown(x, Row(x))'
        BY <1>1, <2>2, <2>3, <2>4 DEF Shown
    <2> QED BY <1>1, <2>1, <2>3, <2>5 DEF MenuAhead
<1> QED BY <1>1, <1>4, <1>5 DEF Follows, Handling

-----------------------------------------------------------------------------
(* What a handler may do next. *)

OwnOps == {"panel", "reply", "stop", "quote", "finish", "clear"}

\* A handler's next step is its own, the one it was to take next, what the button asks for,
\* or the setting whose input the row shows.
Scripted(w) ==
    \E pc \in {"run", "save", "edit", "send", "keep"} : \E todo, then, row :
        /\ Turn(w, pc, todo, then, row)
        /\ then = job[w].then \/ then.op \in {"stop", "reply"}
        /\ \/ pc # "run" /\ todo = job[w].todo
           \/ todo = job[w].then
           \/ todo.op \in OwnOps
           \/ todo = job[w].upd.act /\ job[w].todo.op = "press"
           \/ /\ todo.op = "set" /\ job[w].todo.op = "pending"
              /\ Row(w).state = Input(todo.key) /\ ui' = ui

\* The steps of a handler between Begin and Finish.
Handles(w) ==
    \/ NewPanel(w) \/ OpenPanel(w) \/ ClearInput(w) \/ SaveUI(w)
    \/ EditPanel(w) \/ SendPanel(w) \/ KeepPanel(w) \/ SendReply(w)
    \/ UiCallback(w) \/ SaveSetting(w) \/ SetPayment(w) \/ PendingInput(w)
    \/ Calculate(w) \/ LoadResult(w) \/ FinishInput(w)

\* Every such step is.
LEMMA AllScripted ==
    ASSUME PanelsInv, NEW w \in Workers, Handles(w)
    PROVE  Scripted(w)
<1>1. /\ \A s : Show(s).op = "panel" /\ Reply(s).op = "reply"
      /\ \A m : Quote(m).op = "quote"
      /\ Do("clear").op = "clear" /\ Do("finish").op = "finish"
      /\ Stop.op = "stop"
      /\ \A k, v : Set(k, v).op = "set" /\ Set(k, v).key = k
    BY DEF Show, Reply, Quote, Set, Stop, Do, Step
<1>2. ASSUME NEW step, step.op \in OwnOps, Goto(w, step) PROVE Scripted(w)
    BY <1>2 DEF Scripted, Goto
<1>3. ASSUME Advance(w) PROVE Scripted(w)
    BY <1>1, <1>3 DEF Scripted, Advance
<1>4. ASSUME NEW row, Prepare(w, row) PROVE Scripted(w)
    BY <1>4 DEF Scripted, Prepare
<1>5. ASSUME NEW pc \in {"edit", "send"}, Phase(w, pc) PROVE Scripted(w)
    BY <1>5 DEF Scripted, Phase
<1>6. CASE NewPanel(w) \/ ClearInput(w)
    BY <1>3, <1>4, <1>6 DEF NewPanel, ClearInput
<1>7. CASE OpenPanel(w)
    <2>1. \A next \in Instead(w) : next.op \in OwnOps
        BY <1>1 DEF Instead, OwnOps
    <2> QED BY <1>2, <1>4, <1>7, <2>1 DEF OpenPanel
<1>8. CASE SaveUI(w)
    BY <1>3, <1>5, <1>8 DEF SaveUI, AfterLostSave
<1>9. CASE EditPanel(w)
    BY <1>3, <1>5, <1>9 DEF EditPanel
<1>10. CASE SendPanel(w)
    <2>1. CASE Advance(w)
        BY <1>3, <2>1
    <2>2. CASE Turn(w, "keep", job[w].todo, job[w].then, Carried(w, Len(chat[User(w)]) + 1))
        BY <2>2 DEF Scripted
    <2> QED BY <1>10, <2>1, <2>2 DEF SendPanel, AfterLostPanel
<1>11. CASE KeepPanel(w) \/ SendReply(w)
    BY <1>3, <1>11 DEF KeepPanel, SendReply
<1>12. CASE UiCallback(w)
    <2>1. CASE Goto(w, job[w].upd.act)
        BY <1>12, <2>1 DEF UiCallback, At, Goto, Scripted
    <2>2. \A s : Goto(w, Show(s)) => Scripted(w)
        BY <1>1, <1>2 DEF OwnOps
    <2>3. Goto(w, Stop) => Scripted(w)
        BY <1>1, <1>2 DEF OwnOps
    <2> QED BY <1>12, <2>1, <2>2, <2>3 DEF UiCallback
<1>13. CASE SaveSetting(w) \/ SetPayment(w)
    <2>1. \E step : Goto(w, step) /\ step.op \in {"panel", "reply", "stop"}
        BY <1>1, <1>13 DEF SaveSetting, SetPayment
    <2> QED BY <1>2, <2>1 DEF OwnOps
<1>14. CASE PendingInput(w)
    <2>1. \A c : QuoteFor(c).op = "quote"
        BY <1>1 DEF QuoteFor
    <2>2. \A step : step.op \in {"quote", "panel"} /\ Goto(w, step) => Scripted(w)
        BY <1>2 DEF OwnOps
    <2>3. ASSUME NEW v, Goto(w, Set(Row(w).state[2], v)), Row(w).state[1] = "input" PROVE Scripted(w)
        <3>1. Row(w).state \in States
            BY <1>14, HandlerFacts DEF PendingInput, At, Handling, RowType
        <3>2. Row(w).state = Input(Set(Row(w).state[2], v).key)
            BY <1>1, <2>3, <3>1, StatesByName
        <3>3. job[w].todo.op = "pending" /\ ui' = ui
            BY <1>14 DEF PendingInput, At
        <3> DEFINE step == Set(Row(w).state[2], v)
        <3>4. step.op = "set" /\ Goto(w, step) /\ Row(w).state = Input(step.key)
            BY <1>1, <2>3, <3>2
        <3> HIDE DEF step
        <3> QED BY <3>3, <3>4 DEF Goto, Scripted
    <2>4. \/ \E step : step.op \in {"quote", "panel"} /\ Goto(w, step)
          \/ Row(w).state[1] = "input" /\ \E v \in Values : Goto(w, Set(Row(w).state[2], v))
        BY <1>1, <1>14, <2>1 DEF PendingInput
    <2> QED BY <2>2, <2>3, <2>4
<1>15. CASE Calculate(w)
    <2>1. \A m : Turn(w, "run", Do("finish"), Reply(Result(m)), job[w].row) => Scripted(w)
        BY <1>1 DEF Scripted, OwnOps
    <2>2. \A step : step.op \in {"panel", "reply"} /\ Goto(w, step) => Scripted(w)
        BY <1>2 DEF OwnOps
    <2>3. \/ \E m : Turn(w, "run", Do("finish"), Reply(Result(m)), job[w].row)
          \/ \E step : step.op \in {"panel", "reply"} /\ Goto(w, step)
        BY <1>1, <1>15 DEF Calculate
    <2> QED BY <2>1, <2>2, <2>3
<1>16. CASE LoadResult(w) \/ FinishInput(w)
    <2>1. \E step : step.op \in {"panel", "reply", "quote", "clear"} /\ Goto(w, step)
        BY <1>1, <1>16 DEF LoadResult, FinishInput
    <2> QED BY <1>2, <2>1 DEF OwnOps
<1> QED BY <1>6, <1>7, <1>8, <1>9, <1>10, <1>11, <1>12, <1>13, <1>14, <1>15, <1>16 DEF Handles

\* A handler stays faithful to its plan from one step to the next.
LEMMA PlanKept ==
    ASSUME PanelsInv, NEW w \in Workers, Handling(w), TypeOK', Faithful(w), Scripted(w), Alone(w)
    PROVE  Faithful(w)'
<1>1. PICK pc \in {"run", "save", "edit", "send", "keep"} : \E todo, then, row :
        /\ Turn(w, pc, todo, then, row)
        /\ then = job[w].then \/ then.op \in {"stop", "reply"}
        /\ \/ pc # "run" /\ todo = job[w].todo
           \/ todo = job[w].then
           \/ todo.op \in OwnOps
           \/ todo = job[w].upd.act /\ job[w].todo.op = "press"
           \/ /\ todo.op = "set" /\ job[w].todo.op = "pending"
              /\ Row(w).state = Input(todo.key) /\ ui' = ui
    BY DEF Scripted
<1>2. PICK todo, then, row :
        /\ Turn(w, pc, todo, then, row)
        /\ then = job[w].then \/ then.op \in {"stop", "reply"}
        /\ \/ pc # "run" /\ todo = job[w].todo
           \/ todo = job[w].then
           \/ todo.op \in OwnOps
           \/ todo = job[w].upd.act /\ job[w].todo.op = "press"
           \/ /\ todo.op = "set" /\ job[w].todo.op = "pending"
              /\ Row(w).state = Input(todo.key) /\ ui' = ui
    BY <1>1
<1>3. /\ TypeOK /\ job[w].pc # "idle" /\ job[w].upd \in UpdateType /\ faults \in Nat
      /\ User(w) \in Users /\ job[w].upd.at \in Nat
    BY HandlerFacts, RowsTyped DEF UpdateType, TypeOK
<1>4. Turn(w, pc, todo, then, row)
    BY <1>2
<1>5. /\ job'[w].pc = pc /\ job'[w].upd = job[w].upd /\ job'[w].todo = todo
      /\ job'[w].then = then /\ job'[w].late = job[w].late
    BY ONLY <1>3, <1>4, Turned
<1>6. (job[w].pc # "idle" => Planned(job[w].upd))'
    <2>1. /\ Len(chat[User(w)]) \in Nat /\ Len(chat'[User(w)]) \in Nat
          /\ Len(chat[User(w)]) <= Len(chat'[User(w)])
        BY <1>3 DEF Alone, TypeOK
    <2>2. Planned(job[w].upd)
        BY <1>3 DEF Faithful
    <2>3. job[w].upd.at <= Len(chat[User(w)])
        BY <2>2, Zenon DEF Planned, User
    <2>4. job[w].upd.at <= Len(chat'[User(w)])
        BY <1>3, <2>1, <2>3
    <2>5. Planned(job[w].upd)'
        BY <1>5, <2>2, <2>4 DEF Planned, User
    <2> QED BY <2>5
<1>7. (job[w].late => faults > 0)'
    BY <1>3, <1>5 DEF Faithful, Alone
<1>8. (job[w].upd.src = "text" =>
         job[w].todo.op # "press" /\ job[w].then.op \in {"stop", "reply"})'
    BY <1>2, <1>5 DEF Faithful, OwnOps
<1>9. (NoPay => job[w].todo.op # "pay" /\ job[w].then.op # "pay")'
    BY <1>2, <1>3, <1>5 DEF Faithful, OwnOps, Planned
<1>10. (At(w, "set") /\ job[w].upd.src = "text" => Row(w).state = Input(job[w].todo.key))'
    <2>1. SUFFICES ASSUME pc = "run", todo.op = "set", job[w].upd.src = "text"
                   PROVE  Row(w)'.state = Input(todo.key)
        BY <1>5 DEF At
    <2>2. Row(w).state = Input(todo.key) /\ ui' = ui
        BY <1>2, <2>1 DEF Faithful, OwnOps
    <2> QED BY <1>5, <2>2 DEF Row, User
<1> QED BY <1>6, <1>7, <1>8, <1>9, <1>10 DEF Faithful

-----------------------------------------------------------------------------
(* The way of a command to its menu. *)

\* The step a handler is in says which action is its next.
LEMMA NextOnTheWay ==
    ASSUME NEW w \in Workers, Handles(w)
    PROVE  /\ job[w].pc = "run" =>
                /\ job[w].todo.op = "new" => NewPanel(w)
                /\ job[w].todo.op = "panel" => OpenPanel(w)
                /\ job[w].todo.op = "set" => SaveSetting(w)
                /\ job[w].todo.op # "stop"
           /\ job[w].pc = "save" => SaveUI(w)
           /\ job[w].pc = "send" => SendPanel(w)
           /\ job[w].pc = "keep" => KeepPanel(w)
<1> DEFINE pc == job[w].pc  op == job[w].todo.op
<1>1. /\ NewPanel(w) => pc = "run" /\ op = "new"
      /\ OpenPanel(w) => pc = "run" /\ op = "panel"
      /\ ClearInput(w) => pc = "run" /\ op = "clear"
      /\ SendReply(w) => pc = "run" /\ op = "reply"
    BY DEF NewPanel, OpenPanel, ClearInput, SendReply, At
<1>2. /\ SaveUI(w) => pc = "save"
      /\ EditPanel(w) => pc = "edit"
      /\ SendPanel(w) => pc = "send"
      /\ KeepPanel(w) => pc = "keep"
    BY DEF SaveUI, EditPanel, SendPanel, KeepPanel
<1>3. /\ UiCallback(w) => pc = "run" /\ op = "press"
      /\ SaveSetting(w) => pc = "run" /\ op = "set"
      /\ SetPayment(w) => pc = "run" /\ op = "pay"
      /\ PendingInput(w) => pc = "run" /\ op = "pending"
    BY DEF UiCallback, SaveSetting, SetPayment, PendingInput, At
<1>4. /\ Calculate(w) => pc = "run" /\ op = "quote"
      /\ LoadResult(w) => pc = "run" /\ op \in {"load", "details"}
      /\ FinishInput(w) => pc = "run" /\ op = "finish"
    BY DEF Calculate, LoadResult, FinishInput, At
<1> HIDE DEF pc, op
<1>5. /\ pc = "run" =>
           /\ op = "new" => NewPanel(w)
           /\ op = "panel" => OpenPanel(w)
           /\ op = "set" => SaveSetting(w)
           /\ op # "stop"
      /\ pc = "save" => SaveUI(w)
      /\ pc = "send" => SendPanel(w)
      /\ pc = "keep" => KeepPanel(w)
    BY <1>1, <1>2, <1>3, <1>4 DEF Handles
<1> QED BY <1>5 DEF pc, op

\* While nothing fails, a command comes nearer to its menu with every step.
LEMMA MenuKept ==
    ASSUME PanelsInv, NEW w \in Workers, Handling(w), Faithful(w), MenuAhead(w),
           OpensMenu(job[w].upd), Handles(w), Alone(w), faults' = 0
    PROVE  MenuAhead(w)'
<1>1. /\ TypeOK /\ faults \in Nat /\ ui \in [Users -> RowType] /\ User(w) \in Users
      /\ Row(w) \in RowType /\ job[w].row \in RowType /\ job[w].upd.at \in Nat
      /\ Len(chat[User(w)]) \in Nat /\ job[w].pc # "idle"
    <2>1. /\ TypeOK /\ ui \in [Users -> RowType] /\ User(w) \in Users
          /\ Row(w) \in RowType /\ job[w].row \in RowType /\ job[w].pc # "idle"
          /\ chat[User(w)] \in Seq(Msg)
        BY HandlerFacts
    <2>2. faults \in Nat /\ job[w].upd \in UpdateType
        BY <2>1, RowsTyped DEF TypeOK
    <2>3. job[w].upd.at \in Nat /\ Len(chat[User(w)]) \in Nat
        BY <2>1, <2>2 DEF UpdateType
    <2> QED BY <2>1, <2>2, <2>3
<1>2. faults = 0 /\ ~job[w].late
    BY <1>1 DEF Faithful, Alone
<1>3. ~Fails(w)
    BY <1>2 DEF Fails
<1>4. \A s : Show(s).op = "panel" /\ Stop.op = "stop"
    BY DEF Show, Stop, Do, Step
<1>5. job[w].upd.act.op \in {"panel", "set"} /\ job[w].upd.at <= Len(chat[User(w)])
    <2>1. Planned(job[w].upd)
        BY <1>1 DEF Faithful
    <2>2. job[w].upd.at <= Len(chat[User(w)])
        BY <2>1, Zenon DEF Planned, User
    <2> QED BY <2>2 DEF OpensMenu
<1>6. ASSUME NEW pc, NEW todo, NEW then, NEW row, Turn(w, pc, todo, then, row)
      PROVE  /\ job'[w].pc = pc /\ job'[w].upd = job[w].upd /\ job'[w].todo = todo
             /\ job'[w].then = then /\ job'[w].row = row
    BY ONLY <1>1, <1>6, Turned
<1>7. CASE job[w].pc = "run" /\ job[w].todo.op = "new" /\ job[w].then = job[w].upd.act
    <2>1. Prepare(w, NoPanel(w))
        BY <1>3, <1>7, NextOnTheWay DEF NewPanel
    <2>2. NoPanel(w).panel = 0
        BY DEF NoPanel, RowOf
    <2>3. /\ job'[w].pc = "save" /\ job'[w].upd = job[w].upd /\ job'[w].todo = job[w].todo
          /\ job'[w].then = job[w].then /\ job'[w].row = NoPanel(w)
        BY <1>6, <2>1 DEF Prepare
    <2> QED BY <1>7, <2>2, <2>3 DEF MenuAhead
<1>8. CASE /\ job[w].pc = "save" /\ job[w].todo.op = "new" /\ job[w].then = job[w].upd.act
           /\ job[w].row.panel = 0
    <2>1. Advance(w) /\ ui' = [ui EXCEPT ![User(w)] = Stamped(job[w].row)]
        BY <1>3, <1>8, NextOnTheWay DEF SaveUI
    <2>2. /\ job'[w].pc = "run" /\ job'[w].upd = job[w].upd /\ job'[w].todo = job[w].upd.act
          /\ job'[w].then = Stop
        BY <1>6, <1>8, <2>1 DEF Advance
    <2>3. ui'[User(w)].panel = 0
        BY <1>1, <1>8, <2>1 DEF Stamped, RowOf
    <2>4. Row(w)'.panel = 0
        BY <2>2, <2>3 DEF Row, User
    <2> QED BY <1>4, <1>5, <2>2, <2>4 DEF MenuAhead
<1>9. CASE /\ job[w].pc = "run" /\ job[w].todo.op = "panel" /\ job[w].then.op = "stop"
           /\ Row(w).panel = 0
    <2>1. \E state, rev, at : Prepare(w, RowOf(state, Row(w).panel, rev, at))
        BY <1>3, <1>9, NextOnTheWay DEF OpenPanel
    <2>2. \A state, rev, at : RowOf(state, Row(w).panel, rev, at).panel = 0
        BY <1>9 DEF RowOf
    <2>3. \E row : Prepare(w, row) /\ row.panel = 0
        BY <2>1, <2>2
    <2>4. PICK row : Prepare(w, row) /\ row.panel = 0
        BY <2>3
    <2>5. /\ job'[w].pc = "save" /\ job'[w].todo = job[w].todo
          /\ job'[w].then = job[w].then /\ job'[w].row = row
        BY <1>6, <2>4 DEF Prepare
    <2> QED BY <1>9, <2>4, <2>5 DEF MenuAhead
<1>10. CASE /\ job[w].pc = "run" /\ job[w].todo.op = "set" /\ job[w].then.op = "stop"
            /\ Row(w).panel = 0
    <2>1. ui' = ui /\ \E s : Goto(w, Show(s))
        BY <1>3, <1>10, NextOnTheWay DEF SaveSetting
    <2>2. PICK s : Goto(w, Show(s))
        BY <2>1
    <2>3. /\ job'[w].pc = "run" /\ job'[w].upd = job[w].upd /\ job'[w].todo = Show(s)
          /\ job'[w].then = job[w].then
        BY <1>6, <2>2 DEF Goto
    <2>4. Row(w)'.panel = 0
        BY <1>10, <2>1, <2>3 DEF Row, User
    <2> QED BY <1>4, <1>10, <2>3, <2>4 DEF MenuAhead
<1>11. CASE /\ job[w].pc = "save" /\ job[w].todo.op = "panel" /\ job[w].then.op = "stop"
            /\ job[w].row.panel = 0
    <2>1. Phase(w, "send")
        BY <1>3, <1>11, NextOnTheWay DEF SaveUI
    <2>2. job'[w].pc = "send" /\ job'[w].then = job[w].then
        BY <1>6, <2>1 DEF Phase
    <2> QED BY <1>11, <2>2 DEF MenuAhead
<1>12. CASE job[w].pc = "send" /\ job[w].then.op = "stop"
    <2> DEFINE id == Len(chat[User(w)]) + 1
    <2>1. /\ SendPanel(w) /\ chat' = [chat EXCEPT ![User(w)] = Append(@, Drawn(w))]
          /\ Turn(w, "keep", job[w].todo, job[w].then, Carried(w, id))
        BY <1>3, <1>12, NextOnTheWay DEF SendPanel
    <2>2. Len(chat'[User(w)]) = id /\ chat'[User(w)][id] = Drawn(w)
        BY <2>1, PanelDraws
    <2>3. /\ job'[w].pc = "keep" /\ job'[w].upd = job[w].upd /\ job'[w].then = job[w].then
          /\ job'[w].row = Carried(w, id)
        BY <1>6, <2>1
    <2>4. /\ Carried(w, id).panel = id /\ Carried(w, id).rev = job[w].row.rev
          /\ Drawn(w).rev = job[w].row.rev
        BY DEF Carried, RowOf, Drawn
    <2>5. id > job[w].upd.at /\ id <= id
        BY <1>1, <1>5
    <2> HIDE DEF id
    <2>6. Shown(w, job[w].row)'
        BY <2>2, <2>3, <2>4, <2>5 DEF Shown, User
    <2> QED BY <1>12, <2>3, <2>6 DEF MenuAhead
<1>13. CASE job[w].pc = "keep" /\ job[w].then.op = "stop" /\ Shown(w, job[w].row)
    <2>1. /\ Advance(w) /\ chat' = chat
          /\ ui' = [ui EXCEPT ![User(w)] = Stamped(job[w].row)]
        BY <1>3, <1>13, NextOnTheWay DEF KeepPanel
    <2>2. /\ job'[w].pc = "run" /\ job'[w].upd = job[w].upd /\ job'[w].todo = job[w].then
          /\ job'[w].then = Stop
        BY <1>6, <2>1 DEF Advance
    <2>3. ui'[User(w)].panel = job[w].row.panel /\ ui'[User(w)].rev = job[w].row.rev
        BY <1>1, <2>1 DEF Stamped, RowOf
    <2>4. Row(w)'.panel = job[w].row.panel /\ Row(w)'.rev = job[w].row.rev
        BY <2>2, <2>3 DEF Row, User
    <2>5. Shown(w, Row(w))'
        BY <1>13, <2>1, <2>2, <2>4 DEF Shown, User
    <2> QED BY <1>4, <1>13, <2>2, <2>5 DEF MenuAhead
<1>14. job[w].pc = "run" => job[w].todo.op # "stop"
    BY NextOnTheWay
<1> QED BY <1>7, <1>8, <1>9, <1>10, <1>11, <1>12, <1>13, <1>14 DEF MenuAhead

-----------------------------------------------------------------------------
(* Every step keeps the handlers on their plans. *)

\* The message an update was sent below stays where it is.
LEMMA PlansStay ==
    ASSUME PanelsInv, TypeOK', \A u \in Users : Len(chat[u]) <= Len(chat'[u])
    PROVE  \A x \in UpdateType : Planned(x) => x.at <= Len(chat'[x.user])
<1>1. \A u \in Users : Len(chat[u]) \in Nat /\ Len(chat'[u]) \in Nat
    BY DEF PanelsInv, TypeOK
<1> TAKE x \in UpdateType
<1> HAVE Planned(x)
<1>2. x.at <= Len(chat[x.user])
    BY Zenon DEF Planned
<1>3. x.user \in Users /\ x.at \in Nat
    BY DEF UpdateType
<1> QED BY <1>1, <1>2, <1>3

\* An update the queue or a handler is left with is one that was planned.
LEMMA QueueOnPlan ==
    ASSUME PanelsInv, TypeOK', FollowInv, \A u \in Users : Len(chat[u]) <= Len(chat'[u]),
           \A i \in 1..Len(queue') : Received(queue'[i])
    PROVE  PlannedQueue'
<1>1. \A x : Received(x) => Planned(x) /\ x \in UpdateType
    BY DEF FollowInv, PlannedQueue, Follows, Faithful, Received, Busy, PanelsInv, TypeOK
<1>2. ASSUME NEW i \in 1..Len(queue') PROVE Planned(queue[i])'
    <2>1. Planned(queue'[i]) /\ queue'[i] \in UpdateType
        BY <1>1
    <2>2. queue'[i].at <= Len(chat'[queue'[i].user])
        BY <2>1, PlansStay
    <2> QED BY <2>1, <2>2 DEF Planned
<1> QED BY <1>2 DEF PlannedQueue

\* A step of one worker keeps the plans if it keeps the queue's and its own.
LEMMA FollowStep ==
    ASSUME PanelsInv, TypeOK', FollowInv, NEW w \in Workers, Alone(w), Follows(w)',
           \A i \in 1..Len(queue') : Received(queue'[i])
    PROVE  FollowInv'
<1>1. PlannedQueue'
    BY QueueOnPlan DEF Alone
<1>2. ASSUME NEW x \in Workers, x # w PROVE Follows(x)'
    <2>1. Undisturbed(x) /\ Follows(x)
        BY <1>2, OthersUndisturbed DEF FollowInv
    <2> QED BY <2>1, StaysOnPlan
<1> QED BY <1>1, <1>2 DEF FollowInv

\* What the queue holds was received.
LEMMA StillReceived ==
    ASSUME PanelsInv, queue' = queue
    PROVE  \A i \in 1..Len(queue') : Received(queue'[i])
    BY DEF Received

\* A handler's steps leave the queue, the locks and the clock alone.
LEMMA HandlesShared ==
    ASSUME NEW w \in Workers, Handles(w)
    PROVE  Handling(w) /\ UNCHANGED Shared
<1>1. NewPanel(w) \/ OpenPanel(w) \/ ClearInput(w) \/ SendReply(w)
        => Handling(w) /\ UNCHANGED Shared
    BY DEF NewPanel, OpenPanel, ClearInput, SendReply, At, Handling
<1>2. SaveUI(w) \/ EditPanel(w) \/ SendPanel(w) \/ KeepPanel(w)
        => Handling(w) /\ UNCHANGED Shared
    BY DEF SaveUI, EditPanel, SendPanel, KeepPanel, Handling
<1>3. UiCallback(w) \/ SaveSetting(w) \/ SetPayment(w) => Handling(w) /\ UNCHANGED Shared
    BY DEF UiCallback, SaveSetting, SetPayment, At, Handling
<1>4. PendingInput(w) \/ Calculate(w) \/ LoadResult(w) \/ FinishInput(w)
        => Handling(w) /\ UNCHANGED Shared
    BY DEF PendingInput, Calculate, LoadResult, FinishInput, At, Handling
<1> QED BY <1>1, <1>2, <1>3, <1>4 DEF Handles

\* Between the lock and the end a handler keeps to its plan.
LEMMA FollowHandles ==
    ASSUME PanelsInv, TypeOK', FollowInv, NEW w \in Workers, Handles(w)
    PROVE  FollowInv'
<1>1. Handling(w) /\ queue' = queue
    BY HandlesShared DEF Shared
<1>2. Alone(w)
    <2>1. Work(w)
        BY DEF Handles, Work
    <2> QED BY <2>1, WorksAlone
<1>3. Faithful(w)'
    BY <1>1, <1>2, AllScripted, PlanKept DEF FollowInv, Follows
<1>4. job'[w].upd = job[w].upd
    <2>1. Scripted(w) /\ TypeOK
        BY AllScripted DEF PanelsInv
    <2>2. \E pc, todo, then, row : Turn(w, pc, todo, then, row)
        BY <2>1 DEF Scripted
    <2> QED BY ONLY <2>1, <2>2, Turned
<1>5. ASSUME faults' = 0, OpensMenu(job[w].upd) PROVE MenuAhead(w)'
    <2>1. faults = 0
        BY <1>2, <1>5 DEF Alone, PanelsInv, TypeOK
    <2>2. MenuAhead(w) /\ Faithful(w)
        BY <1>1, <1>5, <2>1 DEF FollowInv, Follows
    <2> QED BY <1>1, <1>2, <1>5, <2>2, MenuKept
<1>6. Follows(w)'
    BY <1>3, <1>4, <1>5 DEF Follows, OpensMenu
<1> QED BY <1>1, <1>2, <1>6, StillReceived, FollowStep

\* A worker that takes an update follows that update.
LEMMA FollowTake ==
    ASSUME PanelsInv, TypeOK', FollowInv, NEW w \in Workers, Take(w)
    PROVE  FollowInv'
<1> DEFINE taken == [Idle EXCEPT !.pc = "lock", !.upd = Head(queue)]
<1>1. /\ TypeOK /\ queue # <<>> /\ queue \in Seq(UpdateType) /\ queue' = Tail(queue)
      /\ job' = [job EXCEPT ![w] = taken] /\ chat' = chat
    BY DEF PanelsInv, TypeOK, Take
<1>2. Alone(w)
    BY WorksAlone DEF Work
<1>3. /\ Head(queue) = queue[1] /\ 1 \in 1..Len(queue)
      /\ \A i \in 1..Len(queue') : i + 1 \in 1..Len(queue) /\ queue'[i] = queue[i + 1]
    BY <1>1
<1>4. \A i \in 1..Len(queue') : Received(queue'[i])
    BY <1>3 DEF Received
<1>5. /\ taken.pc = "lock" /\ taken.upd = queue[1] /\ taken.todo.op = "stop"
      /\ taken.then.op = "stop" /\ ~taken.late
    BY <1>3 DEF Idle, Stop, Do, Step
<1> HIDE DEF taken
<1>6. job'[w] = taken
    BY <1>1 DEF TypeOK
<1>7. Planned(queue[1])
    BY <1>3 DEF FollowInv, PlannedQueue
<1>8. Planned(job[w].upd)'
    BY <1>1, <1>5, <1>6, <1>7 DEF Planned
<1>9. Faithful(w)'
    BY <1>5, <1>6, <1>8 DEF Faithful, At
<1>10. Follows(w)'
    BY <1>5, <1>6, <1>9 DEF Follows, Handling
<1> QED BY <1>2, <1>4, <1>10, FollowStep

\* A handler begins with what its update asks for, a command with newPanel.
LEMMA FollowBegin ==
    ASSUME PanelsInv, TypeOK', FollowInv, NEW w \in Workers, Begin(w)
    PROVE  FollowInv'
<1> DEFINE upd == job[w].upd
<1>1. /\ TypeOK /\ job[w].pc = "lock" /\ upd \in UpdateType /\ queue' = queue /\ chat' = chat
      /\ faults \in Nat /\ Faithful(w) /\ Planned(upd)
    BY DEF PanelsInv, TypeOK, Begin, FollowInv, Follows, Faithful
<1>2. Alone(w)
    BY WorksAlone DEF Work
<1>3. /\ Stop.op = "stop" /\ Do("new").op = "new" /\ Do("press").op = "press"
      /\ Reply(Plain).op = "reply"
    BY DEF Stop, Do, Reply, Step
<1>4. upd.src \in {"command", "cancel", "text", "panel", "outside"}
    BY <1>1 DEF UpdateType
<1>5. PICK todo, then :
        /\ Turn(w, "run", todo, then, job[w].row)
        /\ todo.op \in {"new", "press", "stop", "reply"} \/ todo = upd.act
        /\ upd.src = "text" => todo.op # "press" /\ then.op \in {"stop", "reply"}
        /\ then = upd.act \/ then.op = "stop" \/ then = job[w].then
        /\ ~Fails(w) /\ upd.src \in {"command", "outside"} => todo.op = "new" /\ then = upd.act
    <2>1. CASE /\ upd.src \in {"command", "outside"}
               /\ Turn(w, "run", Do("new"), upd.act, job[w].row)
        BY <1>3, <2>1
    <2>2. CASE upd.src = "panel" /\ Turn(w, "run", Do("press"), Stop, job[w].row)
        BY <1>3, <2>2
    <2>3. CASE upd.src \in {"cancel", "text"} /\ Turn(w, "run", upd.act, Stop, job[w].row)
        BY <1>1, <1>3, <2>3 DEF Planned
    <2>4. CASE Fails(w) /\ Turn(w, "run", Stop, job[w].then, job[w].row)
        BY <1>1, <1>3, <2>4 DEF Faithful
    <2>5. CASE Fails(w) /\ Turn(w, "run", Reply(Plain), job[w].then, job[w].row)
        BY <1>1, <1>3, <2>5 DEF Faithful
    <2> QED BY <1>4, <2>1, <2>2, <2>3, <2>4, <2>5 DEF Begin, Goto
<1>6. Turn(w, "run", todo, then, job[w].row)
    BY <1>5
<1>7. /\ job'[w].pc = "run" /\ job'[w].upd = upd /\ job'[w].todo = todo
      /\ job'[w].then = then /\ job'[w].late = job[w].late
    BY ONLY <1>1, <1>6, Turned
<1>8. Planned(job[w].upd)'
    BY <1>1, <1>7 DEF Planned
<1>9. Faithful(w)'
    <2>1. (job[w].late => faults > 0)'
        BY <1>1, <1>2, <1>7 DEF Faithful, Alone
    <2>2. (/\ job[w].upd.src = "text" =>
                job[w].todo.op # "press" /\ job[w].then.op \in {"stop", "reply"}
           /\ NoPay => job[w].todo.op # "pay" /\ job[w].then.op # "pay")'
        BY <1>1, <1>5, <1>7 DEF Faithful, Planned
    <2>3. (At(w, "set") /\ job[w].upd.src = "text" => Row(w).state = Input(job[w].todo.key))'
        BY <1>1, <1>5, <1>7 DEF At, Planned
    <2> QED BY <1>8, <2>1, <2>2, <2>3 DEF Faithful
<1>10. ASSUME faults' = 0, OpensMenu(upd) PROVE MenuAhead(w)'
    <2>1. ~Fails(w)
        BY <1>1, <1>2, <1>10 DEF Fails, Faithful, Alone
    <2> QED BY <1>5, <1>7, <1>10, <2>1 DEF MenuAhead, OpensMenu
<1>11. Follows(w)'
    BY <1>7, <1>9, <1>10 DEF Follows, OpensMenu
<1> QED BY <1>1, <1>2, <1>11, StillReceived, FollowStep

\* A worker without an update has no plan.
LEMMA IdleFollows ==
    ASSUME NEW w \in Workers, job'[w] = Idle
    PROVE  Follows(w)'
<1>1. /\ Idle.pc = "idle" /\ Idle.upd.src = "none" /\ ~Idle.late
      /\ Idle.todo.op = "stop" /\ Idle.then.op = "stop"
    BY DEF Idle, NoUpdate, Stop, Do, Step
<1> QED BY <1>1 DEF Follows, Faithful, Handling, At

\* A handler that ends leaves its plan.
LEMMA FollowFinish ==
    ASSUME PanelsInv, TypeOK', FollowInv, NEW w \in Workers, Finish(w)
    PROVE  FollowInv'
<1>1. job' = [job EXCEPT ![w] = Idle] /\ queue' = queue /\ job \in [Workers -> JobType]
    BY DEF Finish, PanelsInv, TypeOK
<1>2. Alone(w)
    BY WorksAlone DEF Work
<1>3. Follows(w)'
    BY <1>1, IdleFollows
<1> QED BY <1>1, <1>2, <1>3, StillReceived, FollowStep

\* A handler whose time is over stays faithful, and has met a failure.
LEMMA FollowExpire ==
    ASSUME PanelsInv, TypeOK', FollowInv, NEW w \in Workers, Expire(w)
    PROVE  FollowInv'
<1>1. /\ job' = [job EXCEPT ![w].late = TRUE] /\ queue' = queue /\ chat' = chat /\ ui' = ui
      /\ faults' = faults + 1 /\ faults \in Nat /\ job \in [Workers -> JobType]
      /\ job[w] \in JobType /\ chat \in [Users -> Seq(Msg)]
    BY DEF Expire, Shared, PanelsInv, TypeOK, Msg
<1>2. /\ job'[w].pc = job[w].pc /\ job'[w].upd = job[w].upd /\ job'[w].todo = job[w].todo
      /\ job'[w].then = job[w].then
      /\ \A x \in Workers : x # w => job'[x] = job[x]
    <2>1. job'[w] = [job[w] EXCEPT !.late = TRUE] /\ \A x \in Workers : x # w => job'[x] = job[x]
        BY <1>1
    <2> QED BY <1>1, <2>1 DEF JobType
<1>3. Alone(w)
    BY <1>1, <1>2 DEF Alone
<1>4. Faithful(w)
    BY DEF FollowInv, Follows
<1>5. (job[w].pc # "idle" => Planned(job[w].upd))'
    BY <1>1, <1>2, <1>4 DEF Faithful, Planned
<1>6. Faithful(w)'
    BY <1>1, <1>2, <1>4, <1>5 DEF Faithful, At, Row, User
<1>7. Follows(w)'
    BY <1>1, <1>6 DEF Follows
<1> QED BY <1>1, <1>3, <1>7, StillReceived, FollowStep

\* While no worker works, no handler is disturbed, whatever comes to the chats.
LEMMA FollowQuiet ==
    ASSUME PanelsInv, TypeOK', FollowInv, job' = job, faults' = faults, ui' = ui,
           \A u \in Users : /\ Len(chat[u]) <= Len(chat'[u])
                            /\ \A i \in 1..Len(chat[u]) : chat'[u][i] = chat[u][i]
    PROVE  \A w \in Workers : Follows(w)'
<1> TAKE w \in Workers
<1>1. faults \in Nat /\ Follows(w) /\ (Handling(w) => User(w) \in Users)
    BY HandlerFacts DEF PanelsInv, TypeOK, FollowInv
<1>2. Undisturbed(w)
    BY <1>1 DEF Undisturbed
<1> QED BY <1>1, <1>2, StaysOnPlan

\* Time, or nothing, passes.
LEMMA FollowTick ==
    ASSUME PanelsInv, TypeOK', FollowInv, Tick \/ UNCHANGED vars
    PROVE  FollowInv'
<1>1. job' = job /\ faults' = faults /\ ui' = ui /\ chat' = chat /\ queue' = queue
    BY DEF Tick, vars
<1>2. chat \in [Users -> Seq(Msg)]
    BY DEF PanelsInv, TypeOK, Msg
<1>3. \A u \in Users : /\ Len(chat[u]) <= Len(chat'[u])
                       /\ \A i \in 1..Len(chat[u]) : chat'[u][i] = chat[u][i]
    BY <1>1, <1>2
<1>4. PlannedQueue'
    BY <1>1, <1>3, QueueOnPlan, StillReceived
<1> QED BY <1>1, <1>3, <1>4, FollowQuiet DEF FollowInv

\* What is delivered again is planned, and no handler is left.
LEMMA FollowCrash ==
    ASSUME PanelsInv, TypeOK', FollowInv, Crash
    PROVE  FollowInv'
<1>1. job' = [w \in Workers |-> Idle] /\ chat' = chat /\ chat \in [Users -> Seq(Msg)]
    BY DEF Crash, PanelsInv, TypeOK, Msg
<1>2. \A u \in Users : Len(chat[u]) <= Len(chat'[u])
    BY <1>1
<1>3. \A i \in 1..Len(queue') : Received(queue'[i])
    BY Redelivered DEF Crash
<1>4. PlannedQueue'
    BY <1>2, <1>3, QueueOnPlan
<1>5. \A w \in Workers : Follows(w)'
    BY <1>1, IdleFollows
<1> QED BY <1>4, <1>5 DEF FollowInv

\* A message added to a chat leaves those before it.
LEMMA PostExtends ==
    ASSUME TypeOK, NEW u \in Users, NEW msg \in Seq(Msg), chat' = [chat EXCEPT ![u] = @ \o msg]
    PROVE  /\ \A x \in Users : /\ Len(chat[x]) <= Len(chat'[x])
                               /\ \A i \in 1..Len(chat[x]) : chat'[x][i] = chat[x][i]
           /\ Len(chat'[u]) = Len(chat[u]) + Len(msg)
<1>1. chat \in [Users -> Seq(Msg)] /\ \A x \in Users : chat[x] \in Seq(Msg)
    BY DEF TypeOK, Msg
<1>2. /\ Len(chat[u] \o msg) = Len(chat[u]) + Len(msg)
      /\ \A i \in 1..Len(chat[u]) : (chat[u] \o msg)[i] = chat[u][i]
      /\ Len(chat[u]) <= Len(chat[u] \o msg)
    BY <1>1
<1>3. chat'[u] = chat[u] \o msg /\ \A x \in Users : x # u => chat'[x] = chat[x]
    BY <1>1
<1>4. \A x \in Users : Len(chat[x]) <= Len(chat[x])
    BY <1>1
<1> QED BY <1>2, <1>3, <1>4

\* What a user sends is planned, and disturbs no handler.
LEMMA PostFollows ==
    ASSUME PanelsInv, TypeOK', FollowInv, NEW u \in Users, NEW upd \in UpdateType,
           NEW msg \in Seq(Msg), Post(u, msg, upd), upd.user = u,
           upd.src = "text" => upd.act.op = "pending",
           upd.src = "panel" => upd.rev > 0,
           NoPay => upd.act.op # "pay",
           upd.at <= Len(chat[u]) + Len(msg)
    PROVE  FollowInv'
<1>1. /\ TypeOK /\ queue' = Append(queue, upd) /\ queue \in Seq(UpdateType)
      /\ ui' = ui /\ job' = job /\ faults' = faults
      /\ chat' = [chat EXCEPT ![u] = @ \o msg]
    BY DEF PanelsInv, TypeOK, Post
<1>2. /\ \A x \in Users : /\ Len(chat[x]) <= Len(chat'[x])
                          /\ \A i \in 1..Len(chat[x]) : chat'[x][i] = chat[x][i]
      /\ Len(chat'[u]) = Len(chat[u]) + Len(msg)
    BY <1>1, PostExtends
<1>3. \A w \in Workers : Follows(w)'
    BY <1>1, <1>2, FollowQuiet
<1>4. ASSUME NEW i \in 1..Len(queue') PROVE Planned(queue[i])'
    <2>1. CASE i \in 1..Len(queue) /\ queue'[i] = queue[i]
        <3>1. Planned(queue[i]) /\ queue[i] \in UpdateType
            BY <1>1, <2>1 DEF FollowInv, PlannedQueue
        <3>2. queue[i].at <= Len(chat'[queue[i].user])
            BY <1>2, <3>1, PlansStay
        <3> QED BY <2>1, <3>1, <3>2 DEF Planned
    <2>2. CASE queue'[i] = upd
        <3>1. upd.at <= Len(chat'[upd.user])
            BY <1>2
        <3> QED BY <2>2, <3>1 DEF Planned
    <2> QED BY <1>1, <2>1, <2>2
<1> QED BY <1>3, <1>4 DEF FollowInv, PlannedQueue

\* So does every message, command and press of a user.
LEMMA FollowUser ==
    ASSUME PanelsInv, TypeOK', FollowInv, NEW u \in Users,
           SendCommand(u) \/ SendCancel(u) \/ SendText(u) \/ Press(u)
    PROVE  FollowInv'
<1> DEFINE typed == [scr |-> Typed, rev |-> 0]
<1>1. chat[u] \in Seq(Msg) /\ Len(chat[u]) \in Nat
    <2>1. chat \in [Users -> Seq(Msg)]
        BY DEF PanelsInv, TypeOK, Msg
    <2> QED BY <2>1
<1>2. <<typed>> \in Seq(Msg) /\ Len(<<typed>>) = 1 /\ <<>> \in Seq(Msg) /\ Len(<<>>) = 0
    BY NamedScreens, Singleton DEF Msg
<1>3. ASSUME NEW act \in Steps, NEW src \in {"command", "cancel", "text"}, Type(u, src, act),
             src = "text" => act.op = "pending", NoPay => act.op # "pay"
      PROVE  FollowInv'
    <2> DEFINE upd == [user |-> u, src |-> src, rev |-> 0, act |-> act, at |-> Len(chat[u]) + 1]
    <2>1. /\ upd \in UpdateType /\ upd.user = u /\ upd.src = src /\ upd.act = act
          /\ upd.at <= Len(chat[u]) + 1
        BY <1>1 DEF UpdateType
    <2>2. Post(u, <<typed>>, upd)
        BY <1>3 DEF Type
    <2> HIDE DEF typed, upd
    <2>3. upd.src # "panel" /\ upd.at <= Len(chat[u]) + Len(<<typed>>)
        BY <1>2, <2>1
    <2> QED BY <1>2, <1>3, <2>1, <2>2, <2>3, PostFollows
<1>4. /\ \A c \in Commands : NoPay => c.op # "pay"
      /\ \A c : Pending(c).op = "pending"
      /\ Show(Home).op = "panel" /\ Show(Home) \in Steps
    BY NamedSteps, NamedScreens DEF NoPay, Pending, Show, Step
<1>5. CASE SendCommand(u)
    BY <1>3, <1>4, <1>5, CommandsAreSteps DEF SendCommand
<1>6. CASE SendCancel(u)
    BY <1>3, <1>4, <1>6 DEF SendCancel
<1>7. CASE SendText(u)
    BY <1>3, <1>4, <1>7, TextsAreSteps DEF SendText
<1>8. CASE Press(u)
    <2> PICK i \in 1..Len(chat[u]) : \E act \in Buttons(chat[u][i].scr) :
            Post(u, <<>>, [user |-> u, src |-> IF chat[u][i].rev > 0 THEN "panel" ELSE "outside",
                           rev |-> chat[u][i].rev, act |-> act, at |-> Len(chat[u])])
        BY <1>8 DEF Press
    <2> PICK act \in Buttons(chat[u][i].scr) :
            Post(u, <<>>, [user |-> u, src |-> IF chat[u][i].rev > 0 THEN "panel" ELSE "outside",
                           rev |-> chat[u][i].rev, act |-> act, at |-> Len(chat[u])])
        OBVIOUS
    <2> DEFINE upd == [user |-> u, src |-> IF chat[u][i].rev > 0 THEN "panel" ELSE "outside",
                       rev |-> chat[u][i].rev, act |-> act, at |-> Len(chat[u])]
    <2>1. chat[u][i] \in Msg
        BY <1>1
    <2>2. chat[u][i].scr \in Panels \cup Others /\ chat[u][i].rev \in Nat
        BY <2>1 DEF Msg
    <2>3. act \in Steps /\ act.op \in ButtonOps
        BY <2>2, ButtonsAreSteps DEF Steps
    <2>4. /\ upd \in UpdateType /\ upd.user = u /\ upd.src # "text"
          /\ upd.src = "panel" => upd.rev > 0
          /\ upd.act.op # "pay"
          /\ upd.at <= Len(chat[u]) + Len(<<>>)
        BY <1>1, <1>2, <2>2, <2>3 DEF UpdateType, ButtonOps
    <2>5. Post(u, <<>>, upd)
        OBVIOUS
    <2> HIDE DEF upd
    <2> QED BY <1>2, <2>4, <2>5, PostFollows
<1> QED BY <1>5, <1>6, <1>7, <1>8

\* At first there is nothing to follow.
LEMMA FollowInit == Init => FollowInv
<1> SUFFICES ASSUME Init PROVE FollowInv
    OBVIOUS
<1>1. queue = <<>> /\ \A w \in Workers : job[w] = Idle
    BY DEF Init
<1>2. PlannedQueue
    BY <1>1 DEF PlannedQueue
<1>3. /\ Idle.pc = "idle" /\ Idle.upd.src = "none" /\ ~Idle.late
      /\ Idle.todo.op = "stop" /\ Idle.then.op = "stop"
    BY DEF Idle, NoUpdate, Stop, Do, Step
<1>4. \A w \in Workers : Follows(w)
    BY <1>1, <1>3 DEF Follows, Faithful, Handling, At
<1> QED BY <1>2, <1>4 DEF FollowInv

\* Every step keeps the queue's updates planned and the handlers on their plans.
LEMMA FollowNext == PanelsInv /\ FollowInv /\ [Next]_vars => FollowInv'
<1> SUFFICES ASSUME PanelsInv, FollowInv, [Next]_vars PROVE FollowInv'
    OBVIOUS
<1>1. TypeOK'
    BY PanelsNext DEF PanelsInv
<1>2. ASSUME NEW u \in Users, SendCommand(u) \/ SendCancel(u) \/ SendText(u) \/ Press(u)
      PROVE  FollowInv'
    BY <1>1, <1>2, FollowUser
<1>3. ASSUME NEW w \in Workers, Work(w) PROVE FollowInv'
    <2>1. Take(w) \/ Begin(w) \/ Finish(w) \/ Handles(w)
        BY <1>3 DEF Work, Handles
    <2> QED BY <1>1, <2>1, FollowTake, FollowBegin, FollowFinish, FollowHandles
<1>4. ASSUME NEW w \in Workers, Expire(w) PROVE FollowInv'
    BY <1>1, <1>4, FollowExpire
<1>5. CASE Tick \/ UNCHANGED vars
    BY <1>1, <1>5, FollowTick
<1>6. CASE Crash
    BY <1>1, <1>6, FollowCrash
<1> QED BY <1>2, <1>3, <1>4, <1>5, <1>6 DEF Next

\* No handler leaves its plan.
LEMMA AllFollow == Spec => []FollowInv
BY FollowInit, FollowNext, PanelsInvariant, PTL DEF Spec

\* pendingInput judges a text by the open screen; what it then stores goes to the setting of
\* the screen the row still shows, whatever other users, failures and crashes do.
THEOREM TypedGoesToOpenInput == Spec => []TypedIntoOpenInput
<1>1. FollowInv => TypedIntoOpenInput
    BY DEF FollowInv, Follows, Faithful, TypedIntoOpenInput
<1> QED BY <1>1, AllFollow, PTL

\* newPanel and panel, while no call fails, leave a command's menu below the command, and
\* the menu carries the stored revision, so that its buttons work.
THEOREM MenuComesBelow == Spec => []MenuBelowCommand
<1>1. FollowInv => MenuBelowCommand
    <2> SUFFICES ASSUME FollowInv, NEW w \in Workers, At(w, "stop"), faults = 0,
                        OpensMenu(job[w].upd)
                 PROVE  /\ Row(w).panel > job[w].upd.at
                        /\ chat[User(w)][Row(w).panel].rev = Row(w).rev
        BY DEF MenuBelowCommand, OpensMenu
    <2>1. MenuAhead(w)
        BY DEF FollowInv, Follows, Handling, At
    <2>2. Shown(w, Row(w))
        BY <2>1 DEF MenuAhead, At
    <2> QED BY <2>2 DEF Shown
<1> QED BY <1>1, AllFollow, PTL

-----------------------------------------------------------------------------
(* Outdated buttons. *)

\* While nothing fails, the handler about to renew a screen does so with its next two steps.
LEMMA RenewsOn ==
    ASSUME PanelsInv, FollowInv, NEW w \in Workers, NEW u \in Users, Renews(w, u), Work(w),
           faults' = 0
    PROVE  Renews(w, u)' \/ ui'[u].rev > ui[u].rev
<1>1. /\ TypeOK /\ Handling(w) /\ User(w) = u /\ job[w].pc \in {"run", "save"}
      /\ job[w].todo.op = "panel" /\ faults \in Nat /\ ui[u].rev \in Nat
    BY DEF Renews, PanelsInv, TypeOK, RowType
<1>2. ~Fails(w)
    BY <1>1, WorksAlone DEF Alone, Fails, FollowInv, Follows, Faithful
<1>3. Handles(w)
    BY <1>1 DEF Work, Handles, Take, Begin, Finish, At
<1>4. CASE job[w].pc = "run"
    <2>1. \E row : Prepare(w, row)
        BY <1>1, <1>2, <1>3, <1>4, NextOnTheWay DEF OpenPanel
    <2>2. PICK row : Turn(w, "save", job[w].todo, job[w].then, row)
        BY <2>1 DEF Prepare
    <2>3. job'[w].pc = "save" /\ job'[w].upd = job[w].upd /\ job'[w].todo = job[w].todo
        BY ONLY <1>1, <2>2, Turned
    <2> QED BY <1>1, <2>3 DEF Renews, Handling, User
<1>5. CASE job[w].pc = "save"
    <2>1. ui' = [ui EXCEPT ![User(w)] = Stamped(job[w].row)]
        BY <1>1, <1>2, <1>3, <1>5, NextOnTheWay DEF SaveUI
    <2>2. ui'[u].rev = job[w].row.rev
        BY <1>1, <2>1 DEF TypeOK, Stamped, RowOf
    <2>3. job[w].row.rev = ui[u].rev + 1
        BY <1>1, <1>5, HandlerFacts DEF WorkerInv, Row
    <2> QED BY <1>1, <2>2, <2>3
<1> QED BY <1>1, <1>4, <1>5

\* A step that stores nothing of a user's leaves what is stored outdated.
LEMMA StaysOutdated ==
    ASSUME TypeOK, TypeOK', NEW u \in Users, Outdated(u), wrote'[u] = wrote[u],
           ui'[u].rev >= ui[u].rev, faults' >= faults, crashes' >= crashes,
           faults' = 0 /\ crashes' = 0 =>
             \A w \in Workers : Renews(w, u) => Renews(w, u)' \/ ui'[u].rev > ui[u].rev
    PROVE  Outdated(u)'
<1>1. /\ ui[u].rev \in Nat /\ ui'[u].rev \in Nat /\ \A k \in Keys : wrote[u][k] \in Nat
      /\ faults \in Nat /\ crashes \in Nat
    BY DEF TypeOK, RowType
<1>2. \A k \in Keys : wrote'[u][k] <= ui'[u].rev
    BY <1>1 DEF Outdated
<1>3. ASSUME faults' = 0, crashes' = 0
      PROVE  \/ \E w \in Workers : Renews(w, u)'
             \/ \A k \in Keys : wrote'[u][k] = 0 \/ wrote'[u][k] < ui'[u].rev
    <2>1. faults = 0 /\ crashes = 0
        BY <1>1, <1>3
    <2>2. CASE \E w \in Workers : Renews(w, u)
        <3>1. (\E w \in Workers : Renews(w, u)') \/ ui'[u].rev > ui[u].rev
            BY <1>3, <2>2
        <3>2. ui'[u].rev > ui[u].rev => \A k \in Keys : wrote'[u][k] < ui'[u].rev
            BY <1>1 DEF Outdated
        <3> QED BY <3>1, <3>2
    <2>3. CASE \A k \in Keys : wrote[u][k] = 0 \/ wrote[u][k] < ui[u].rev
        BY <1>1, <2>3
    <2> QED BY <2>1, <2>2, <2>3 DEF Outdated
<1> QED BY <1>2, <1>3 DEF Outdated

\* A setting is stored at the stored revision, and the screen of the settings comes next.
LEMMA SettingRenews ==
    ASSUME PanelsInv, NEW w \in Workers, SaveSetting(w), ~(wrote' = wrote),
           NEW u \in Users, Outdated(u)
    PROVE  /\ u # User(w) => wrote'[u] = wrote[u]
           /\ u = User(w) => Outdated(u)'
<1>1. /\ Handling(w) /\ ui' = ui /\ Goto(w, Show(Settings)) /\ Writes(w, {job[w].todo.key})
    BY DEF SaveSetting, At, Handling
<1>2. /\ TypeOK /\ wrote \in [Users -> [Keys -> Nat]] /\ User(w) \in Users /\ Row(w).rev \in Nat
    BY <1>1, HandlerFacts DEF TypeOK, RowType
<1>3. /\ u # User(w) => wrote'[u] = wrote[u]
      /\ u = User(w) => \A k \in Keys : wrote'[u][k] = Row(w).rev \/ wrote'[u][k] = wrote[u][k]
    BY <1>1, <1>2 DEF Writes
<1>4. Turn(w, "run", Show(Settings), job[w].then, job[w].row)
    BY <1>1 DEF Goto
<1>5. job'[w].pc = "run" /\ job'[w].upd = job[w].upd /\ job'[w].todo = Show(Settings)
    BY ONLY <1>2, <1>4, Turned
<1>6. Show(Settings).op = "panel"
    BY DEF Show, Step
<1>7. u = User(w) => Renews(w, u)'
    BY <1>5, <1>6 DEF Renews, Handling, User
<1>8. u = User(w) => \A k \in Keys : wrote'[u][k] <= ui'[u].rev
    BY <1>1, <1>2, <1>3 DEF Outdated, Row
<1> QED BY <1>3, <1>7, <1>8 DEF Outdated

\* No other step of a handler stores a setting, as no command stores a payment method.
LEMMA OnlySettingsWrite ==
    ASSUME FollowInv, NoPay, NEW w \in Workers, Work(w), ~SaveSetting(w)
    PROVE  wrote' = wrote
<1>1. job[w].todo.op # "pay"
    BY DEF FollowInv, Follows, Faithful
<1>2. ~SetPayment(w)
    BY <1>1 DEF SetPayment, At
<1> QED BY <1>2 DEF Work, Take, Begin, Finish, NewPanel, OpenPanel, ClearInput, SaveUI,
       EditPanel, SendPanel, KeepPanel, SendReply, UiCallback, PendingInput, Calculate,
       LoadResult, FinishInput

\* A worker's step leaves every stored setting outdated, or about to be.
LEMMA OutdatedWork ==
    ASSUME PanelsInv, TypeOK', FollowInv, NoPay, OutdatedInv, NEW w \in Workers, Work(w),
           NEW u \in Users, ui'[u].rev >= ui[u].rev
    PROVE  Outdated(u)'
<1>1. Outdated(u) /\ TypeOK /\ crashes \in Nat
    BY DEF OutdatedInv, PanelsInv, TypeOK
<1>2. Alone(w)
    BY WorksAlone
<1>3. crashes' = crashes
    <2>1. Handles(w) => crashes' = crashes
        BY HandlesShared DEF Shared
    <2> QED BY <2>1 DEF Work, Handles, Take, Begin, Finish
<1>4. ASSUME wrote'[u] = wrote[u] PROVE Outdated(u)'
    <2>1. ASSUME faults' = 0, NEW x \in Workers, Renews(x, u)
          PROVE  Renews(x, u)' \/ ui'[u].rev > ui[u].rev
        <3>1. CASE x = w
            BY <2>1, <3>1, RenewsOn
        <3>2. CASE x # w
            <4>1. job'[x] = job[x]
                BY <1>2, <3>2 DEF Alone
            <4> QED BY <2>1, <4>1 DEF Renews, Handling, User
        <3> QED BY <3>1, <3>2
    <2>2. faults' >= faults /\ crashes' >= crashes
        BY <1>1, <1>2, <1>3 DEF Alone
    <2> QED BY <1>1, <1>4, <2>1, <2>2, StaysOutdated
<1>5. CASE SaveSetting(w) /\ ~(wrote' = wrote)
    BY <1>1, <1>4, <1>5, SettingRenews
<1>6. CASE ~SaveSetting(w) \/ wrote' = wrote
    <2>1. wrote' = wrote
        BY <1>6, OnlySettingsWrite
    <2> QED BY <1>4, <2>1
<1> QED BY <1>5, <1>6

\* At first no setting has been stored.
LEMMA OutdatedInit == Init => OutdatedInv
<1> SUFFICES ASSUME Init, NEW u \in Users PROVE Outdated(u)
    BY DEF OutdatedInv
<1>1. ui[u].rev \in Nat
    BY TypeInit DEF TypeOK, RowType
<1>2. \A k \in Keys : wrote[u][k] = 0
    BY DEF Init
<1> QED BY <1>1, <1>2 DEF Outdated

\* Every step keeps the stored settings outdated.
LEMMA OutdatedNext == PanelsInv /\ FollowInv /\ OutdatedInv /\ [Next]_vars => OutdatedInv'
<1> SUFFICES ASSUME PanelsInv, FollowInv, OutdatedInv, [Next]_vars, NoPay, NEW u \in Users
             PROVE  Outdated(u)'
    BY DEF OutdatedInv
<1>1. TypeOK /\ TypeOK' /\ Outdated(u)
    BY PanelsNext DEF PanelsInv, OutdatedInv
<1>2. ui'[u].rev >= ui[u].rev
    BY NextGrows
<1>3. faults \in Nat /\ crashes \in Nat
    BY <1>1 DEF TypeOK
<1>4. ASSUME NEW w \in Workers, Work(w) PROVE Outdated(u)'
    BY <1>1, <1>2, <1>4, OutdatedWork
<1>5. CASE \/ \E x \in Users : SendCommand(x) \/ SendCancel(x) \/ SendText(x) \/ Press(x)
           \/ Tick \/ UNCHANGED vars
    <2>1. wrote' = wrote /\ job' = job /\ faults' = faults /\ crashes' = crashes
        BY <1>5 DEF SendCommand, SendCancel, SendText, Press, Type, Post, Tick, vars
    <2>2. \A w \in Workers : Renews(w, u) => Renews(w, u)'
        BY <2>1 DEF Renews, Handling, User
    <2>3. faults' >= faults /\ crashes' >= crashes
        BY <1>3, <2>1
    <2> QED BY <1>1, <1>2, <2>1, <2>2, <2>3, StaysOutdated
<1>6. CASE Crash \/ \E w \in Workers : Expire(w)
    <2>1. /\ wrote' = wrote
          /\ \/ faults' = faults /\ crashes' = crashes + 1
             \/ faults' = faults + 1 /\ crashes' = crashes
        BY <1>6 DEF Crash, Expire, Shared
    <2>2. faults' >= faults /\ crashes' >= crashes /\ ~(faults' = 0 /\ crashes' = 0)
        BY <1>3, <2>1
    <2> QED BY <1>1, <1>2, <2>1, <2>2, StaysOutdated
<1> QED BY <1>4, <1>5, <1>6 DEF Next

\* README: outdated buttons do not overwrite newer values.  It is so while no call fails and
\* the process does not die, for the settings the menus and the numbers after a command
\* store: the panel is renewed before its old buttons are looked at.  A handler that fails
\* between the write and the renewal, and /settings with a payment method, which renews no
\* panel, leave a button that may.
THEOREM OutdatedButtonsWait ==
    ASSUME NoPay
    PROVE  Spec => [](faults = 0 /\ crashes = 0 => StaleButtonsKeepNewerValues)
<1>1. PanelsInv /\ FollowInv /\ OutdatedInv
        => (faults = 0 /\ crashes = 0 => StaleButtonsKeepNewerValues)
    <2> SUFFICES ASSUME PanelsInv, FollowInv, OutdatedInv, faults = 0, crashes = 0,
                        NEW w \in Workers, At(w, "set"), job[w].upd.src = "panel"
                 PROVE  wrote[User(w)][job[w].todo.key] < job[w].upd.rev
        BY DEF StaleButtonsKeepNewerValues
    <2>1. /\ Handling(w) /\ User(w) \in Users /\ job[w].todo \in Steps /\ job[w].pc # "idle"
          /\ job[w].upd.rev = Row(w).rev /\ Row(w) \in RowType /\ job[w].todo.op = "set"
        BY HandlerFacts DEF At, Handling, PanelsInv, PressIsCurrent
    <2>2. job[w].todo.key \in Keys
        BY <2>1, StepFields
    <2>3. job[w].upd.rev > 0 /\ Row(w).rev \in Nat
        BY <2>1 DEF FollowInv, Follows, Faithful, Planned, RowType
    <2>4. \A x \in Workers : ~Renews(x, User(w))
        <3> SUFFICES ASSUME NEW x \in Workers, Renews(x, User(w)) PROVE FALSE
            OBVIOUS
        <3>1. x = w
            BY <2>1, Exclusive DEF Renews
        <3> QED BY <2>1, <3>1 DEF Renews
    <2>5. \A k \in Keys : wrote[User(w)][k] = 0 \/ wrote[User(w)][k] < ui[User(w)].rev
        BY <2>1, <2>4 DEF OutdatedInv, Outdated
    <2> QED BY <2>1, <2>2, <2>3, <2>5 DEF Row
<1> QED BY <1>1, OutdatedInit, OutdatedNext, AllFollow, PanelsInvariant, PTL DEF Spec
=============================================================================
