---------------------------- MODULE RefreshProofs ----------------------------
(***************************************************************************)
(* Proofs about Refresh, for any lists, page sizes, deadlines, intervals   *)
(* and times to live, and any number of changes of the list.  Three small  *)
(* invariants stand on the types: what was taken was seen, how long ago    *)
(* what was taken stood on the list, and how old an entry can be in each   *)
(* part of the loop.                                                       *)
(***************************************************************************)
EXTENDS Refresh, SequenceTheorems, WellFoundedInduction, TLAPS

\* While a refresher waits, there is an attempt left.
AttemptLeft == job.pc = "waiting" => job.attempt < Attempts

TypeInv == TypeOK /\ AttemptLeft

JobType == [pc : {"idle", "asking", "waiting", "done", "failed"}, page : Nat \ {0},
            attempt : 1..Attempts, left : Nat, rows : Nat, seen : SUBSET Ads,
            offers : SUBSET OfferType, stayed : SUBSET Ads, slid : BOOLEAN]

EntryType == [offers : SUBSET OfferType, age : (-Ahead)..Horizon] \cup {None}

\* The numbers among the constants.
LEMMA Numbers ==
    /\ PageSize \in Nat \ {0} /\ Deadline \in Nat \ {0} /\ CallTimeout \in Nat \ {0}
    /\ Interval \in Nat \ {0} /\ TTL \in Nat /\ Ahead \in Nat /\ Slack \in Nat
    /\ Horizon \in Nat /\ Horizon > Deadline + Ahead + TTL /\ -Ahead <= 0
    /\ Attempts \in Nat \ {0} /\ Attempts = Len(Backoff) + 1
    BY FetchAssumption, RefreshAssumption, LenProperties DEF Horizon, Attempts

\* The type invariant with its records folded, and the same after a step.
Shapes ==
    /\ source \in Paged \cup {"fee", "book"} /\ listed \in Seq(Ads)
    /\ moves \in 0..MaxMoves /\ steady \in BOOLEAN
    /\ job \in JobType /\ AttemptLeft
    /\ spent \in 0..Deadline
    /\ phase \in 0..(Interval - 1) /\ due \in BOOLEAN
    /\ entry \in EntryType
    /\ gone \in 0..Horizon

LEMMA Folded == TypeInv <=> Shapes
    BY DEF Shapes, TypeInv, TypeOK, JobType, EntryType

LEMMA FoldedNext == TypeInv' <=> Shapes'
    BY DEF Shapes, TypeInv, TypeOK, JobType, EntryType, Attempts, Horizon

-----------------------------------------------------------------------------
(* Lists and pages. *)

LEMMA NatTimes == ASSUME NEW a \in Nat, NEW b \in Nat PROVE a * b \in Nat
    OBVIOUS

\* A part of a list is made of its elements.
LEMMA PartOfList ==
    ASSUME NEW S, NEW s \in Seq(S), NEW m \in Nat \ {0}, NEW n \in Nat, n <= Len(s)
    PROVE  /\ SubSeq(s, m, n) \in Seq(S)
           /\ \A i \in DOMAIN SubSeq(s, m, n) : \E k \in DOMAIN s : SubSeq(s, m, n)[i] = s[k]
<1>1. \A i \in m..n : s[i] \in S
    BY LenProperties
<1>2. /\ SubSeq(s, m, n) \in Seq(S)
      /\ Len(SubSeq(s, m, n)) = IF m <= n THEN n - m + 1 ELSE 0
      /\ \A i \in 1..(n - m + 1) : SubSeq(s, m, n)[i] = s[m + i - 1]
    BY <1>1, SubSeqProperties
<1>3. ASSUME NEW i \in DOMAIN SubSeq(s, m, n) PROVE \E k \in DOMAIN s : SubSeq(s, m, n)[i] = s[k]
    <2>1. i \in 1..(n - m + 1) /\ m <= n
        BY <1>2, LenProperties
    <2>2. m + i - 1 \in DOMAIN s
        BY <2>1, LenProperties
    <2> QED BY <1>2, <2>1, <2>2
<1> QED BY <1>2, <1>3

\* The lists that the provider's changes make are lists again.
LEMMA ChangedList ==
    ASSUME NEW S, NEW s \in Seq(S)
    PROVE  /\ \A i \in 1..(Len(s) + 1), e \in S : InsertAt(s, i, e) \in Seq(S)
           /\ \A i \in DOMAIN s : RemoveAt(s, i) \in Seq(S)
           /\ \A i \in DOMAIN s : Len(RemoveAt(s, i)) = Len(s) - 1
<1>0. Len(s) \in Nat /\ DOMAIN s = 1..Len(s) /\ \A i \in 1..Len(s) : s[i] \in S
    BY LenProperties
<1>1. ASSUME NEW i \in 1..(Len(s) + 1), NEW e \in S PROVE InsertAt(s, i, e) \in Seq(S)
    <2>1. SubSeq(s, 1, i - 1) \in Seq(S) /\ SubSeq(s, i, Len(s)) \in Seq(S)
        BY <1>0, SubSeqProperties
    <2>2. <<e>> \in Seq(S)
        OBVIOUS
    <2> QED BY <2>1, <2>2, ConcatProperties DEF InsertAt
<1>2. ASSUME NEW i \in DOMAIN s
      PROVE  RemoveAt(s, i) \in Seq(S) /\ Len(RemoveAt(s, i)) = Len(s) - 1
    <2>1. /\ SubSeq(s, 1, i - 1) \in Seq(S) /\ SubSeq(s, i + 1, Len(s)) \in Seq(S)
          /\ Len(SubSeq(s, 1, i - 1)) = i - 1 /\ Len(SubSeq(s, i + 1, Len(s))) = Len(s) - i
        BY <1>0, SubSeqProperties
    <2>2. /\ RemoveAt(s, i) \in Seq(S)
          /\ Len(RemoveAt(s, i)) = Len(SubSeq(s, 1, i - 1)) + Len(SubSeq(s, i + 1, Len(s)))
        BY <2>1, ConcatProperties DEF RemoveAt
    <2> QED BY <1>0, <2>1, <2>2
<1> QED BY <1>1, <1>2

\* Every item of a page stands on the list.
LEMMA PageOfList ==
    ASSUME NEW n \in Nat \ {0}, listed \in Seq(Ads), source \in Paged
    PROVE  /\ Page(n) \in Seq(Ads)
           /\ \A i \in DOMAIN Page(n) : Page(n)[i] \in Current(listed)
<1> DEFINE first == (n - 1) * PageSize + 1
           last  == Lesser(n * PageSize, Len(listed))
<1>1. (n - 1) * PageSize \in Nat /\ n * PageSize \in Nat /\ Len(listed) \in Nat
    BY NatTimes, Numbers, LenProperties
<1>2. first \in Nat \ {0} /\ last \in Nat /\ last <= Len(listed)
    BY <1>1 DEF Lesser
<1>3. Page(n) = SubSeq(listed, first, last)
    BY DEF Page
<1> HIDE DEF first, last
<1>4. /\ SubSeq(listed, first, last) \in Seq(Ads)
      /\ \A i \in DOMAIN SubSeq(listed, first, last) :
            \E k \in DOMAIN listed : SubSeq(listed, first, last)[i] = listed[k]
    BY <1>2, PartOfList, SMTT(60)
<1> QED BY <1>3, <1>4 DEF Current

LEMMA CurrentAds ==
    ASSUME NEW list \in Seq(Ads) PROVE Current(list) \subseteq Ads
    BY LenProperties DEF Current

-----------------------------------------------------------------------------
(* Types. *)

LEMMA TypeInit == Init => TypeInv
<1> SUFFICES ASSUME Init PROVE TypeInv
    OBVIOUS
<1>1. source \in Paged \cup {"fee", "book"} /\ listed \in Seq(Ads)
    BY FetchAssumption DEF Init
<1>2. job \in JobType /\ job.pc = "asking"
    BY <1>1, Numbers, CurrentAds DEF Init, NewJob, JobType
<1>3. gone \in 0..Horizon /\ moves \in 0..MaxMoves
    BY Numbers, FetchAssumption DEF Init
<1>4. phase \in 0..(Interval - 1) /\ spent \in 0..Deadline
    BY Numbers DEF Init
<1> QED BY <1>1, <1>2, <1>3, <1>4, Folded DEF Init, Shapes, AttemptLeft, EntryType

\* A change of the provider's list.
LEMMA TypeChanges ==
    ASSUME TypeInv, NEW list \in Seq(Ads), NEW slides \in BOOLEAN,
           Changes(list, slides), UNCHANGED loop
    PROVE  TypeInv'
<1>0. Shapes
    BY Folded
<1>1. job' \in JobType /\ job'.pc = job.pc /\ job'.attempt = job.attempt
    BY <1>0 DEF Changes, Shapes, JobType
<1>2. gone' \in 0..Horizon
    BY <1>0, Numbers DEF Changes, Shapes
<1>3. moves' \in 0..MaxMoves
    BY <1>0, FetchAssumption DEF Changes, Shapes
<1>4. listed' = list /\ UNCHANGED <<source, steady, spent, phase, due, entry>>
    BY DEF Changes, loop
<1> QED BY <1>0, <1>1, <1>2, <1>3, <1>4, FoldedNext DEF Shapes, AttemptLeft

LEMMA TypeMoves == ASSUME TypeInv, Moves, UNCHANGED loop PROVE TypeInv'
<1>0. listed \in Seq(Ads)
    BY Folded DEF Shapes
<1>1. CASE Appear
    <2>1. PICK a \in Ads, i \in 1..(Len(listed) + 1) : Changes(InsertAt(listed, i, a), FALSE)
        BY <1>1 DEF Appear
    <2> QED BY <1>0, <2>1, ChangedList, TypeChanges
<1>2. CASE Vanish
    <2>1. PICK i \in DOMAIN listed : Changes(RemoveAt(listed, i), TRUE)
        BY <1>2 DEF Vanish
    <2> QED BY <1>0, <2>1, ChangedList, TypeChanges
<1>3. CASE Reprice
    <2>1. PICK i \in DOMAIN listed, j \in DOMAIN listed :
              Changes(InsertAt(RemoveAt(listed, i), j, listed[i]), TRUE)
        BY <1>3 DEF Reprice
    <2>2. listed[i] \in Ads /\ j \in 1..(Len(RemoveAt(listed, i)) + 1) /\ RemoveAt(listed, i) \in Seq(Ads)
        BY <1>0, ChangedList, LenProperties
    <2>3. InsertAt(RemoveAt(listed, i), j, listed[i]) \in Seq(Ads)
        BY <2>2, ChangedList
    <2> QED BY <2>1, <2>3, TypeChanges
<1> QED BY <1>1, <1>2, <1>3 DEF Moves

\* A step of the client: only the fetch changes.
LEMMA TypeFetch ==
    ASSUME TypeInv, UNCHANGED <<venue, spent, loop>>,
           job' \in JobType, job'.pc = "waiting" => job'.attempt < Attempts
    PROVE  TypeInv'
    BY Folded, FoldedNext DEF Shapes, AttemptLeft, venue, loop

\* The fetch goes to another place with another time left, and nothing else happens.
LEMMA TypeGoes ==
    ASSUME TypeInv, UNCHANGED loop,
           NEW pc \in {"asking", "waiting", "done", "failed"}, NEW left \in Nat,
           Goes(pc, left), pc = "waiting" => job.attempt < Attempts
    PROVE  TypeInv'
<1>1. job' \in JobType /\ job'.pc = pc /\ job'.attempt = job.attempt
    BY Folded DEF Goes, Shapes, JobType
<1> QED BY <1>1, TypeFetch DEF Goes

LEMMA TypeFails == ASSUME TypeInv, UNCHANGED loop, Fails PROVE TypeInv'
    BY TypeGoes DEF Fails

LEMMA TypeBusy == ASSUME TypeInv, UNCHANGED loop, Busy PROVE TypeInv'
<1>1. PICK after \in Delays :
         IF job.attempt = Attempts THEN Fails
         ELSE LET delay == IF after > 0 THEN after ELSE Backoff[job.attempt] IN
              IF TooLong(delay) THEN Fails ELSE Goes("waiting", delay)
    BY DEF Busy
<1>2. CASE Fails
    BY <1>2, TypeFails
<1>3. CASE ~Fails
    <2> DEFINE delay == IF after > 0 THEN after ELSE Backoff[job.attempt]
    <2>1. job.attempt # Attempts /\ Goes("waiting", delay)
        BY <1>1, <1>3
    <2>2. job.attempt \in 1..Attempts
        BY Folded DEF Shapes, JobType
    <2>3. job.attempt < Attempts /\ job.attempt \in 1..Len(Backoff)
        BY <2>1, <2>2, Numbers
    <2>4. delay \in Nat
        BY <2>3, FetchAssumption, ElementOfSeq
    <2> QED BY <2>1, <2>3, <2>4, TypeGoes
<1> QED BY <1>2, <1>3

LEMMA TypeAgain == ASSUME TypeInv, UNCHANGED loop, Again PROVE TypeInv'
<1>1. job \in JobType /\ job.attempt \in 1..Attempts /\ job.attempt < Attempts
    BY Folded DEF Again, Shapes, JobType, AttemptLeft
<1>2. job.attempt + 1 \in 1..Attempts /\ Asking \in {"asking", "failed"}
    BY <1>1, Numbers DEF Asking
<1>3. job' \in JobType /\ job'.pc # "waiting"
    BY <1>1, <1>2, Numbers DEF Again, JobType
<1> QED BY <1>3, TypeFetch DEF Again

\* What is taken from a page: rows of new and sound advertisements.
LEMMA TakenTyped ==
    ASSUME NEW items \in Seq(Ads), NEW rows \in Nat
    PROVE  /\ Taken(items, rows) \subseteq OfferType
           /\ {items[i] : i \in DOMAIN items} \subseteq Ads
    BY LenProperties DEF Taken, NewOf, OfferType

LEMMA TypeGetPage == ASSUME TypeInv, UNCHANGED loop, GetPage PROVE TypeInv'
<1> DEFINE items   == Page(job.page)
           rows    == job.rows + Len(items)
           offers  == job.offers \cup Taken(items, job.rows)
           met     == {items[i] : i \in DOMAIN items}
           verdict == Verdict(items, rows, offers)
<1>0. job \in JobType /\ listed \in Seq(Ads)
    BY Folded DEF Shapes
<1>1. job.page \in Nat \ {0} /\ job.rows \in Nat /\ job.offers \subseteq OfferType
    BY <1>0 DEF JobType
<1>2. items \in Seq(Ads) /\ Len(items) \in Nat
    BY <1>0, <1>1, PageOfList, LenProperties DEF GetPage
<1>3. rows \in Nat /\ offers \subseteq OfferType /\ met \subseteq Ads
    BY <1>1, <1>2, TakenTyped
<1>4. verdict \in {"asking", "done", "failed"}
    BY DEF Verdict, Asking
<1>5. job' = [job EXCEPT !.pc = verdict, !.page = @ + 1, !.attempt = 1, !.left = CallTimeout,
                         !.rows = rows, !.offers = offers, !.seen = @ \cup met]
    BY DEF GetPage
<1> HIDE DEF items, rows, offers, met, verdict
<1>6. 1 \in 1..Attempts /\ CallTimeout \in Nat
    BY Numbers
<1>7. job.page + 1 \in Nat \ {0} /\ job.seen \cup met \subseteq Ads
    BY <1>0, <1>3 DEF JobType
<1>8. job' \in JobType /\ job'.pc # "waiting"
    BY <1>0, <1>3, <1>4, <1>5, <1>6, <1>7 DEF JobType
<1> QED BY <1>8, TypeFetch DEF GetPage

LEMMA TypeGetOne == ASSUME TypeInv, UNCHANGED loop, GetOne PROVE TypeInv'
<1>1. CASE Fails
    BY <1>1, TypeFails
<1>2. CASE ~Fails
    <2>1. listed # <<>> /\ listed \in Seq(Ads)
        BY <1>2, Folded DEF GetOne, Shapes
    <2>2. listed[1] \in Ads
        BY <2>1, EmptySeq, ElementOfSeq
    <2>3. {[row |-> 1, ad |-> listed[1]]} \subseteq OfferType
        BY <2>2 DEF OfferType
    <2>4. /\ job' = [job EXCEPT !.pc = "done", !.left = 0, !.offers = {[row |-> 1, ad |-> listed[1]]}]
          /\ UNCHANGED <<venue, spent>>
        BY <1>2 DEF GetOne
    <2>5. job \in JobType
        BY Folded DEF Shapes
    <2>6. job' \in JobType /\ job'.pc = "done"
        BY <2>3, <2>4, <2>5 DEF JobType
    <2> QED BY <2>4, <2>6, TypeFetch
<1> QED BY <1>1, <1>2

\* The new job of a tick and the empty job between ticks.
LEMMA NewJobTyped ==
    ASSUME TypeInv
    PROVE  /\ NewJob \in JobType /\ NewJob.pc = "asking"
           /\ Rest => job' \in JobType /\ job'.pc = "idle" /\ spent' = 0
<1>1. Current(listed) \subseteq Ads
    BY Folded, CurrentAds DEF Shapes
<1>2. CallTimeout \in Nat /\ 1 \in 1..Attempts /\ 1 \in Nat \ {0} /\ {} \subseteq OfferType
    BY Numbers
<1>3. NewJob \in JobType /\ NewJob.pc = "asking"
    BY <1>1, <1>2 DEF NewJob, JobType
<1> QED BY <1>3 DEF Rest, JobType

\* A second makes an entry older by at most a second, up to the horizon.
LEMMA OlderTyped ==
    ASSUME NEW t \in Int, t <= Horizon
    PROVE  /\ Older(t) \in Int /\ t <= Older(t) /\ Older(t) <= t + 1 /\ Older(t) <= Horizon
           /\ t < Horizon => Older(t) = t + 1
    BY Numbers DEF Older

LEMMA TypeTick == ASSUME TypeInv, Tick PROVE TypeInv'
<1>0. Shapes
    BY Folded
<1>1. job' \in JobType /\ job'.pc = job.pc /\ job'.attempt = job.attempt
    <2>1. job \in JobType /\ job.left \in Nat
        BY <1>0 DEF Shapes, JobType
    <2>2. Active => job.left - 1 \in Nat
        BY <2>1 DEF Tick, Urgent, Active
    <2> QED BY <2>1, <2>2 DEF Tick, JobType
<1>2. spent' \in 0..Deadline
    <2>1. spent \in 0..Deadline /\ Deadline \in Nat /\ spent' = IF Active THEN spent + 1 ELSE 0
        BY <1>0, Numbers DEF Tick, Shapes
    <2>2. Active => spent < Deadline
        BY <2>1 DEF Tick, Urgent, Cancelled, Active
    <2> QED BY <2>1, <2>2
<1>3. gone' \in 0..Horizon
    <2>1. gone \in 0..Horizon /\ Horizon \in Nat
        BY <1>0, Numbers DEF Shapes
    <2>2. Older(gone) \in 0..Horizon
        BY <2>1, OlderTyped
    <2> QED BY <2>1, <2>2 DEF Tick
<1>4. phase' \in 0..(Interval - 1) /\ due' \in BOOLEAN
    <2>1. phase \in 0..(Interval - 1) /\ due \in BOOLEAN /\ Interval \in Nat \ {0}
        BY <1>0, Numbers DEF Shapes
    <2>2. /\ phase' = (phase + 1) % Interval
          /\ due' = (due \/ phase + 1 = Interval)
        BY DEF Tick
    <2> QED BY <2>1, <2>2
<1>5. entry' \in EntryType
    <2>1. CASE entry = None
        BY <2>1 DEF Tick, EntryType
    <2>2. CASE entry # None
        <3>1. entry \in EntryType /\ entry' = [entry EXCEPT !.age = Older(@)]
            BY <1>0, <2>2 DEF Tick, Shapes
        <3>2. Older(entry.age) \in (-Ahead)..Horizon
            BY <2>2, <3>1, OlderTyped, Numbers DEF EntryType
        <3> QED BY <2>2, <3>1, <3>2 DEF EntryType
    <2> QED BY <2>1, <2>2
<1>6. UNCHANGED <<source, listed, moves, steady>>
    BY DEF Tick
<1> QED BY <1>0, <1>1, <1>2, <1>3, <1>4, <1>5, <1>6, FoldedNext DEF Shapes, AttemptLeft

LEMMA TypeNext == ASSUME TypeInv, [Next]_vars PROVE TypeInv'
<1>0. Shapes
    BY Folded
<1>1. CASE Moves /\ UNCHANGED loop
    BY <1>1, TypeMoves
<1>2. CASE Settle /\ UNCHANGED loop
    BY <1>0, <1>2, FoldedNext DEF Settle, Shapes, AttemptLeft, loop
<1>3. CASE Client /\ UNCHANGED loop
    <2>1. CASE Broken \/ GiveUp
        BY <1>3, <2>1, TypeFails DEF Broken, GiveUp
    <2> QED BY <1>3, <2>1, TypeBusy, TypeAgain, TypeGetPage, TypeGetOne DEF Client
<1>4. CASE Begin
    <2>1. job' \in JobType /\ job'.pc = "asking"
        BY <1>4, NewJobTyped DEF Begin
    <2>2. spent' \in 0..Deadline /\ due' = FALSE /\ UNCHANGED <<venue, phase, entry>>
        BY <1>4, Numbers DEF Begin
    <2> QED BY <1>0, <2>1, <2>2, FoldedNext DEF Shapes, AttemptLeft, venue
<1>5. CASE Publish
    <2>1. PICK age \in Ages : entry' = [offers |-> job.offers, age |-> age]
        BY <1>5 DEF Publish
    <2>2. age \in (-Ahead)..Horizon
        BY <2>1, Numbers DEF Ages
    <2>3. entry' \in EntryType
        BY <1>0, <2>1, <2>2 DEF Shapes, JobType, EntryType
    <2>4. job' \in JobType /\ job'.pc = "idle" /\ spent' \in 0..Deadline /\ UNCHANGED <<venue, phase, due>>
        BY <1>5, NewJobTyped, Numbers DEF Publish
    <2> QED BY <1>0, <2>3, <2>4, FoldedNext DEF Shapes, AttemptLeft, venue
<1>6. CASE Keep
    <2>1. job' \in JobType /\ job'.pc = "idle" /\ spent' \in 0..Deadline /\ UNCHANGED <<venue, phase, due>>
        BY <1>6, NewJobTyped, Numbers DEF Keep
    <2>2. entry' \in EntryType
        BY <1>0, <1>6 DEF Keep, AfterError, Shapes, EntryType
    <2> QED BY <1>0, <2>1, <2>2, FoldedNext DEF Shapes, AttemptLeft, venue
<1>7. CASE UNCHANGED vars
    BY <1>0, <1>7, FoldedNext DEF vars, venue, loop, Shapes, AttemptLeft
<1> QED BY <1>1, <1>2, <1>3, <1>4, <1>5, <1>6, <1>7, TypeTick DEF Next

LEMMA Typed == Spec => []TypeInv
    BY TypeInit, TypeNext, PTL DEF Spec

\* The fetch never outlives its deadline, no wait begins without an attempt left, and every
\* value has its shape.
THEOREM TypeCorrect == Spec => []TypeOK
<1>1. TypeInv => TypeOK
    BY DEF TypeInv
<1> QED BY Typed, <1>1, PTL

-----------------------------------------------------------------------------
(* What a step does to the fetch, as far as the following proofs care. *)

\* The steps of the client other than taking something leave what was taken, and the clocks.
LEMMA ClientSteps ==
    ASSUME TypeInv, Client
    PROVE  \/ GetPage \/ GetOne
           \/ /\ job'.offers = job.offers /\ job'.seen = job.seen
              /\ job'.page = job.page /\ job'.rows = job.rows
              /\ job'.stayed = job.stayed /\ job'.slid = job.slid
              /\ job.pc \in {"asking", "waiting"} /\ job'.pc \in {"asking", "waiting", "failed"}
              /\ UNCHANGED <<venue, spent>>
<1>0. job \in JobType
    BY Folded DEF Shapes
<1>1. ASSUME NEW pc \in {"waiting", "failed"}, NEW left, Goes(pc, left)
      PROVE  /\ job'.offers = job.offers /\ job'.seen = job.seen /\ job'.pc = pc
             /\ job'.page = job.page /\ job'.rows = job.rows
             /\ job'.stayed = job.stayed /\ job'.slid = job.slid
             /\ UNCHANGED <<venue, spent>>
    BY <1>0, <1>1 DEF Goes, JobType
<1>2. CASE Broken \/ GiveUp
    BY <1>1, <1>2 DEF Broken, GiveUp, Cancelled, Fails
<1>3. CASE Busy
    BY <1>1, <1>3 DEF Busy, Fails
<1>4. CASE Again
    BY <1>0, <1>4 DEF Again, Asking, JobType
<1> QED BY <1>2, <1>3, <1>4 DEF Client

\* A page: its new and sound items are taken.
LEMMA PageTaken ==
    ASSUME TypeInv, GetPage
    PROVE  LET items == Page(job.page) IN
           /\ items \in Seq(Ads) /\ job.rows \in Nat
           /\ \A i \in DOMAIN items : items[i] \in Current(listed)
           /\ job'.offers = job.offers \cup Taken(items, job.rows)
           /\ job'.seen = job.seen \cup {items[i] : i \in DOMAIN items}
           /\ job.pc = "asking" /\ job'.pc \in {"asking", "done", "failed"}
           /\ source \in Paged /\ UNCHANGED <<venue, spent>>
<1>1. job \in JobType /\ listed \in Seq(Ads) /\ job.page \in Nat \ {0} /\ job.rows \in Nat
    BY Folded DEF Shapes, JobType
<1>2. source \in Paged
    BY DEF GetPage
<1>3. /\ Page(job.page) \in Seq(Ads)
      /\ \A i \in DOMAIN Page(job.page) : Page(job.page)[i] \in Current(listed)
    BY <1>1, <1>2, PageOfList
<1>4. \A items, rows, offers : Verdict(items, rows, offers) \in {"asking", "done", "failed"}
    BY DEF Verdict, Asking
<1> QED BY <1>1, <1>2, <1>3, <1>4 DEF GetPage, JobType

\* A single value, or a failure.
LEMMA OneTaken ==
    ASSUME TypeInv, GetOne
    PROVE  /\ source \notin Paged /\ UNCHANGED <<venue, spent>>
           /\ job.pc = "asking"
           /\ \/ job'.offers = job.offers /\ job'.seen = job.seen /\ job'.pc = "failed"
              \/ /\ listed # <<>> /\ job'.offers = {[row |-> 1, ad |-> listed[1]]}
                 /\ job'.pc = "done"
<1>1. job \in JobType
    BY Folded DEF Shapes
<1> QED BY <1>1 DEF GetOne, Fails, Goes, JobType

\* A change of the list leaves what was taken.
LEMMA MovesLeave ==
    ASSUME TypeInv, Moves
    PROVE  /\ job'.offers = job.offers /\ job'.seen = job.seen /\ job'.pc = job.pc
           /\ UNCHANGED <<source, spent>>
           /\ gone' = IF Watched \in Current(listed') THEN 0 ELSE gone
<1>1. job \in JobType
    BY Folded DEF Shapes
<1>2. PICK list, slides : Changes(list, slides)
    BY DEF Moves, Appear, Vanish, Reprice
<1> QED BY <1>1, <1>2 DEF Changes, JobType

\* A new fetch, and none, have taken nothing.
LEMMA FreshJob ==
    /\ NewJob.offers = {} /\ NewJob.seen = {} /\ NewJob.pc = "asking"
    /\ Rest => job'.offers = {} /\ job'.seen = {} /\ job'.pc = "idle" /\ spent' = 0
    BY DEF NewJob, Rest

\* Time leaves what was taken; it passes for a fetch that is under way or for none.
LEMMA TickLeaves ==
    ASSUME TypeInv, Tick
    PROVE  /\ job'.offers = job.offers /\ job'.seen = job.seen /\ job'.pc = job.pc
           /\ \/ job.pc \in {"asking", "waiting"} /\ spent' = spent + 1
              \/ job.pc = "idle" /\ spent' = 0
<1>1. job \in JobType
    BY Folded DEF Shapes
<1>2. job.pc \in {"asking", "waiting", "idle"}
    BY <1>1 DEF Tick, Urgent, JobType
<1>3. job'.offers = job.offers /\ job'.seen = job.seen /\ job'.pc = job.pc
    BY <1>1 DEF Tick, JobType
<1>4. spent' = IF Active THEN spent + 1 ELSE 0
    BY DEF Tick
<1> QED BY <1>2, <1>3, <1>4 DEF Active

-----------------------------------------------------------------------------
(* NoAdTwice: what was taken was seen, and nothing that was seen is taken. *)

TakenSeen == source \in Paged => AdsOf(job.offers) \subseteq job.seen
OnceInv   == NoAdTwice /\ TakenSeen

LEMMA OnceInit == Init => OnceInv
    BY FreshJob, RefreshAssumption DEF Init, OnceInv, NoAdTwice, TakenSeen, Single, AdsOf

\* A page adds advertisements that were not seen, each in one row.
LEMMA TakenOnce ==
    ASSUME NEW items \in Seq(Ads), NEW rows \in Nat
    PROVE  /\ Single(Taken(items, rows))
           /\ \A o \in Taken(items, rows) :
                 o.ad \notin job.seen /\ o.ad \in {items[i] : i \in DOMAIN items}
<1>1. DOMAIN items = 1..Len(items) /\ Len(items) \in Nat
    BY LenProperties
<1>2. ASSUME NEW o \in Taken(items, rows)
      PROVE  \E i \in NewOf(items) : o = [row |-> rows + i, ad |-> items[i]]
    BY DEF Taken
<1>3. \A i \in NewOf(items) : /\ i \in DOMAIN items /\ items[i] \notin job.seen
                              /\ \A k \in 1..(i - 1) : items[k] # items[i]
    BY DEF NewOf
<1>4. ASSUME NEW o \in Taken(items, rows), NEW p \in Taken(items, rows), o.ad = p.ad PROVE o = p
    <2>1. PICK i \in NewOf(items) : o = [row |-> rows + i, ad |-> items[i]]
        BY <1>2
    <2>2. PICK k \in NewOf(items) : p = [row |-> rows + k, ad |-> items[k]]
        BY <1>2
    <2>3. items[i] = items[k]
        BY <1>4, <2>1, <2>2
    <2>4. i \in Nat \ {0} /\ k \in Nat \ {0}
        BY <1>1, <1>3
    <2>5. ~(i < k) /\ ~(k < i)
        BY <1>3, <2>3, <2>4
    <2>6. i = k
        BY <2>4, <2>5
    <2> QED BY <2>1, <2>2, <2>6
<1>5. ASSUME NEW o \in Taken(items, rows)
      PROVE  o.ad \notin job.seen /\ o.ad \in {items[i] : i \in DOMAIN items}
    BY <1>2, <1>3
<1> QED BY <1>4, <1>5 DEF Single

LEMMA OnceNext == ASSUME TypeInv, OnceInv, [Next]_vars PROVE OnceInv'
<1>1. ASSUME job'.offers = job.offers, job'.seen = job.seen, UNCHANGED <<source, entry>> PROVE OnceInv'
    BY <1>1 DEF OnceInv, NoAdTwice, TakenSeen, AdsOf, Single
<1>2. ASSUME job'.offers = {}, job'.seen = {}, UNCHANGED source, Single(job.offers),
             entry' \in {None, entry} \/ \E age : entry' = [offers |-> job.offers, age |-> age]
      PROVE  OnceInv'
    BY <1>2 DEF OnceInv, NoAdTwice, TakenSeen, AdsOf, Single
<1>3. CASE Moves /\ UNCHANGED loop
    BY <1>1, <1>3, MovesLeave DEF loop
<1>4. CASE (Settle /\ UNCHANGED loop) \/ UNCHANGED vars
    BY <1>1, <1>4 DEF Settle, loop, vars, venue
<1>5. CASE GetPage /\ UNCHANGED loop
    <2> DEFINE items == Page(job.page)
               new   == Taken(items, job.rows)
    <2>1. /\ items \in Seq(Ads) /\ job.rows \in Nat /\ source \in Paged /\ source' = source
          /\ job'.offers = job.offers \cup new
          /\ job'.seen = job.seen \cup {items[i] : i \in DOMAIN items}
        BY <1>5, PageTaken DEF venue
    <2>2. Single(new) /\ \A o \in new : o.ad \notin job.seen /\ o.ad \in {items[i] : i \in DOMAIN items}
        BY <2>1, TakenOnce
    <2>3. Single(job.offers) /\ \A o \in job.offers : o.ad \in job.seen
        BY <2>1 DEF OnceInv, NoAdTwice, TakenSeen, AdsOf
    <2> HIDE DEF items, new
    <2>4. Single(job'.offers)
        BY <2>1, <2>2, <2>3 DEF Single
    <2>5. AdsOf(job'.offers) \subseteq job'.seen
        BY <2>1, <2>2, <2>3 DEF AdsOf
    <2> QED BY <1>5, <2>1, <2>4, <2>5 DEF OnceInv, NoAdTwice, TakenSeen, loop, Single, AdsOf
<1>6. CASE GetOne /\ UNCHANGED loop
    <2>1. source \notin Paged /\ source' = source
        BY <1>6, OneTaken DEF venue
    <2>2. Single(job'.offers)
        BY <1>6, OneTaken DEF Single, OnceInv, NoAdTwice
    <2> QED BY <1>6, <2>1, <2>2 DEF OnceInv, NoAdTwice, TakenSeen, loop, Single
<1>7. CASE Client /\ UNCHANGED loop
    BY <1>1, <1>5, <1>6, <1>7, ClientSteps DEF loop, venue
<1>8. CASE Begin
    BY <1>2, <1>8, FreshJob DEF Begin, venue, OnceInv, NoAdTwice
<1>9. CASE Publish
    BY <1>2, <1>9, FreshJob DEF Publish, venue, OnceInv, NoAdTwice
<1>10. CASE Keep
    BY <1>2, <1>10, FreshJob DEF Keep, AfterError, venue, OnceInv, NoAdTwice
<1>11. CASE Tick
    <2>1. job'.offers = job.offers /\ job'.seen = job.seen /\ source' = source
        BY <1>11, TickLeaves DEF Tick
    <2>2. entry # None => entry'.offers = entry.offers
        BY <1>11, Folded DEF Tick, Shapes, EntryType
    <2>3. entry = None => entry' = None
        BY <1>11 DEF Tick
    <2> QED BY <2>1, <2>2, <2>3 DEF OnceInv, NoAdTwice, TakenSeen, AdsOf, Single
<1> QED BY <1>3, <1>4, <1>7, <1>8, <1>9, <1>10, <1>11 DEF Next

\* An offer's liquidity is never counted twice, however the advertisements move between the
\* pages while they are read: on any list, with any page size and any number of changes.
THEOREM AdsAreTakenOnce == Spec => []NoAdTwice
<1>1. OnceInv => NoAdTwice
    BY DEF OnceInv
<1> QED BY OnceInit, OnceNext, Typed, <1>1, PTL DEF Spec

-----------------------------------------------------------------------------
(* FeesConfirmed: how old a fee can be in each part of the loop. *)

\* Between two ticks it was published in this interval; while it is being fetched again it is
\* older by what the fetch has taken so far.
FeeAges ==
    source = "fee" /\ entry # None =>
        /\ job.pc = "idle" => entry.age <= Interval
        /\ job.pc = "idle" /\ ~due => entry.age <= phase
        /\ entry.age <= Interval + spent

LEMMA FeeInit == Init => FeeAges
    BY DEF Init, FeeAges

\* A new entry of a fee has age zero.
LEMMA Published ==
    ASSUME TypeInv, Publish
    PROVE  /\ entry'.age \in Ages /\ entry'.offers = job.offers /\ entry' # None
<1>1. PICK age \in Ages : entry' = [offers |-> job.offers, age |-> age]
    BY DEF Publish
<1>2. age \in Int /\ job.offers \subseteq OfferType
    BY Folded, Numbers DEF Ages, Shapes, JobType
<1>3. entry' \in [offers : SUBSET OfferType, age : Int]
    BY <1>1, <1>2
<1> QED BY <1>1, <1>3, RefreshAssumption

LEMMA FeeNext == ASSUME TypeInv, FeeAges, [Next]_vars PROVE FeeAges'
<1>0. /\ phase \in 0..(Interval - 1) /\ spent \in 0..Deadline /\ Interval \in Nat \ {0} /\ Deadline \in Nat
      /\ entry # None => entry.age \in Int /\ entry.age <= Horizon
      /\ Horizon \in Nat
    BY Folded, Numbers DEF Shapes, EntryType
<1>1. ASSUME UNCHANGED <<source, spent, entry, phase, due>>, job'.pc = job.pc \/ job'.pc # "idle"
      PROVE  FeeAges'
    BY <1>1 DEF FeeAges
<1>2. CASE Moves /\ UNCHANGED loop
    BY <1>1, <1>2, MovesLeave DEF loop
<1>3. CASE (Settle /\ UNCHANGED loop) \/ UNCHANGED vars
    BY <1>1, <1>3 DEF Settle, loop, vars, venue
<1>4. CASE Client /\ UNCHANGED loop
    BY <1>1, <1>4, ClientSteps, PageTaken, OneTaken DEF loop, venue
<1>5. CASE Begin
    <2>1. job.pc = "idle" /\ job'.pc # "idle" /\ spent' = 0 /\ UNCHANGED <<source, entry>>
        BY <1>5, FreshJob DEF Begin, venue
    <2> QED BY <1>0, <2>1 DEF FeeAges
<1>6. CASE Publish
    <2>1. source = "fee" => entry'.age = 0
        BY <1>6, Published DEF Ages
    <2>2. spent' = 0 /\ UNCHANGED <<source, phase>>
        BY <1>6, FreshJob DEF Publish, venue
    <2> QED BY <1>0, <2>1, <2>2 DEF FeeAges
<1>7. CASE Keep
    BY <1>7 DEF Keep, AfterError, FeeAges, venue
<1>8. CASE Tick
    <2>1. ~Urgent /\ source' = source /\ phase' = (phase + 1) % Interval
          /\ due' = (due \/ phase + 1 = Interval)
        BY <1>8 DEF Tick
    <2>2. entry = None => entry' = None
        BY <1>8 DEF Tick
    <2>3. entry # None => entry'.age = Older(entry.age) /\ entry'.age <= entry.age + 1 /\ entry'.age \in Int
        <3>1. entry # None => entry' = [entry EXCEPT !.age = Older(@)] /\ entry \in EntryType
            BY <1>8, Folded DEF Tick, Shapes
        <3> QED BY <1>0, <3>1, OlderTyped DEF EntryType
    <2>4. CASE job.pc \in {"asking", "waiting"}
        <3>1. spent' = spent + 1 /\ job'.pc # "idle"
            BY <1>8, <2>4, TickLeaves
        <3> QED BY <1>0, <2>1, <2>2, <2>3, <3>1 DEF FeeAges
    <2>5. CASE job.pc = "idle"
        <3>1. spent' = 0 /\ ~due
            BY <1>8, <2>1, <2>5, TickLeaves DEF Urgent
        <3>2. source = "fee" /\ entry # None => entry.age <= phase
            BY <2>5, <3>1 DEF FeeAges
        <3>3. phase + 1 < Interval => phase' = phase + 1
            BY <1>0, <2>1
        <3>4. phase + 1 = Interval \/ phase + 1 < Interval
            BY <1>0
        <3>5. source = "fee" /\ entry # None => entry'.age <= phase + 1
            BY <1>0, <2>3, <3>2
        <3>6. due' = (phase + 1 = Interval)
            BY <2>1, <3>1
        <3> SUFFICES ASSUME source = "fee", entry # None
                     PROVE  /\ entry'.age <= Interval
                            /\ ~due' => entry'.age <= phase'
                            /\ entry'.age <= Interval + spent'
            BY <2>1, <2>2 DEF FeeAges
        <3>7. entry'.age <= Interval
            BY <1>0, <2>3, <3>4, <3>5
        <3>8. ~due' => entry'.age <= phase'
            BY <3>3, <3>4, <3>5, <3>6
        <3> QED BY <1>0, <3>1, <3>7, <3>8
    <2> QED BY <1>8, <2>4, <2>5, TickLeaves
<1> QED BY <1>2, <1>3, <1>4, <1>5, <1>6, <1>7, <1>8 DEF Next

\* A fee is confirmed or gone: none is older than an interval and one fetch, for every interval
\* and deadline.
THEOREM FeesAreConfirmed == Spec => []FeesConfirmed
<1>1. TypeInv /\ FeeAges => FeesConfirmed
    <2> SUFFICES ASSUME TypeInv, FeeAges, source = "fee", entry # None
                 PROVE  entry.age <= Interval + Deadline
        BY DEF FeesConfirmed
    <2>1. spent \in 0..Deadline /\ entry.age \in Int /\ Interval \in Nat /\ Deadline \in Nat
        BY Folded, Numbers DEF Shapes, EntryType
    <2> QED BY <2>1 DEF FeeAges
<1> QED BY FeeInit, FeeNext, Typed, <1>1, PTL DEF Spec

-----------------------------------------------------------------------------
(* NoGhosts: how long ago what was taken, or published, stood on the list. *)

Recent ==
    /\ Watched \in Current(listed) => gone = 0
    /\ Watched \in AdsOf(job.offers) => gone <= spent
    /\ entry # None /\ Watched \in AdsOf(entry.offers) => gone <= entry.age + Ahead + Deadline
    /\ job.pc = "idle" => job.offers = {}

LEMMA RecentInit == Init => Recent
<1>1. NewJob.pc = "asking" /\ AdsOf(NewJob.offers) = {}
    BY FreshJob DEF AdsOf
<1> QED BY <1>1 DEF Init, Recent

LEMMA RecentNext == ASSUME TypeInv, Recent, [Next]_vars PROVE Recent'
<1>0. /\ spent \in 0..Deadline /\ gone \in 0..Horizon
      /\ Ahead \in Nat /\ Deadline \in Nat /\ Horizon \in Nat
      /\ entry # None => entry.age \in (-Ahead)..Horizon
    BY Folded, Numbers DEF Shapes, EntryType
<1>1. ASSUME job'.offers = job.offers, job'.pc = job.pc \/ job'.pc # "idle",
             UNCHANGED <<source, listed, gone, spent, entry>>
      PROVE  Recent'
    BY <1>1 DEF Recent, Current, AdsOf
<1>2. ASSUME job'.offers = {}, UNCHANGED <<source, listed, gone, entry>>
      PROVE  Recent'
    BY <1>2 DEF Recent, Current, AdsOf
<1>3. CASE Moves /\ UNCHANGED loop
    <2>1. /\ job'.offers = job.offers /\ job'.pc = job.pc /\ UNCHANGED <<source, spent, entry>>
          /\ gone' = IF Watched \in Current(listed') THEN 0 ELSE gone
        BY <1>3, MovesLeave DEF loop
    <2>2. gone' \in Nat /\ gone' <= gone /\ (Watched \in Current(listed)' => gone' = 0)
        BY <1>0, <2>1 DEF Current
    <2>3. /\ Watched \in AdsOf(job.offers)' => gone' <= spent'
          /\ job'.pc = "idle" => job'.offers = {}
        BY <1>0, <2>1, <2>2 DEF Recent, AdsOf
    <2>4. entry' # None /\ Watched \in AdsOf(entry.offers)' => gone' <= entry'.age + Ahead + Deadline
        BY <1>0, <2>1, <2>2 DEF Recent, AdsOf
    <2> QED BY <2>2, <2>3, <2>4 DEF Recent
<1>4. CASE (Settle /\ UNCHANGED loop) \/ UNCHANGED vars
    BY <1>1, <1>4 DEF Settle, loop, vars, venue
<1>5. CASE GetPage /\ UNCHANGED loop
    <2> DEFINE items == Page(job.page)
               new   == Taken(items, job.rows)
    <2>1. /\ items \in Seq(Ads) /\ job.rows \in Nat /\ \A i \in DOMAIN items : items[i] \in Current(listed)
          /\ job'.offers = job.offers \cup new /\ job'.pc # "idle"
          /\ UNCHANGED <<source, listed, gone, spent, entry>>
        BY <1>5, PageTaken DEF venue, loop
    <2>2. \A o \in new : o.ad \in {items[i] : i \in DOMAIN items}
        BY <2>1, TakenOnce
    <2>3. \A o \in new : o.ad \in Current(listed)
        BY <2>1, <2>2
    <2> HIDE DEF items, new
    <2>4. Watched \in AdsOf(job'.offers) => Watched \in AdsOf(job.offers) \/ Watched \in Current(listed)
        BY <2>1, <2>3 DEF AdsOf
    <2>5. Watched \in AdsOf(job'.offers) => gone <= spent
        BY <1>0, <2>4 DEF Recent
    <2> QED BY <2>1, <2>5 DEF Recent, Current, AdsOf
<1>6. CASE GetOne /\ UNCHANGED loop
    <2>1. /\ source \notin Paged /\ job'.pc # "idle" /\ UNCHANGED <<source, listed, gone, spent, entry>>
          /\ \/ job'.offers = job.offers
             \/ listed # <<>> /\ job'.offers = {[row |-> 1, ad |-> listed[1]]}
        BY <1>6, OneTaken DEF venue, loop
    <2>2. CASE job'.offers = job.offers
        BY <1>1, <2>1, <2>2
    <2>3. CASE listed # <<>> /\ job'.offers = {[row |-> 1, ad |-> listed[1]]}
        <3>1. listed \in Seq(Ads)
            BY Folded DEF Shapes
        <3>2. 1 \in DOMAIN listed
            BY <2>3, <3>1, EmptySeq, LenProperties
        <3>3. listed[1] \in Current(listed)
            BY <2>1, <3>2 DEF Current
        <3>4. AdsOf(job'.offers) = {listed[1]}
            BY <2>3 DEF AdsOf
        <3>5. Watched \in AdsOf(job'.offers) => gone <= spent
            BY <1>0, <3>3, <3>4 DEF Recent
        <3> QED BY <2>1, <3>5 DEF Recent, Current, AdsOf
    <2> QED BY <2>1, <2>2, <2>3
<1>7. CASE Client /\ UNCHANGED loop
    BY <1>1, <1>5, <1>6, <1>7, ClientSteps DEF loop, venue, Client
<1>8. CASE Begin
    BY <1>2, <1>8, FreshJob DEF Begin, venue
<1>9. CASE Publish
    <2>1. /\ job'.offers = {} /\ entry'.offers = job.offers /\ entry'.age \in Ages
          /\ UNCHANGED <<source, listed, gone>>
        BY <1>9, FreshJob, Published DEF Publish, venue
    <2>2. entry'.age \in Int /\ -Ahead <= entry'.age
        BY <1>0, <2>1 DEF Ages
    <2>3. Watched \in AdsOf(job.offers) => gone <= entry'.age + Ahead + Deadline
        BY <1>0, <2>2 DEF Recent
    <2> QED BY <2>1, <2>3 DEF Recent, Current, AdsOf
<1>10. CASE Keep
    <2>1. job'.offers = {} /\ UNCHANGED <<source, listed, gone>> /\ entry' \in {None, entry}
        BY <1>10, FreshJob DEF Keep, AfterError, venue
    <2> QED BY <2>1 DEF Recent, Current, AdsOf
<1>11. CASE Tick
    <2>1. UNCHANGED <<source, listed>> /\ job'.offers = job.offers /\ job'.pc = job.pc
        BY <1>11, TickLeaves DEF Tick
    <2>2. gone' = IF Watched \in Current(listed) THEN 0 ELSE Older(gone)
        BY <1>11 DEF Tick
    <2>3. Older(gone) \in Int /\ Older(gone) <= gone + 1 /\ Older(gone) <= Horizon
        BY <1>0, OlderTyped
    <2>4. Watched \in AdsOf(job.offers) => gone' <= spent'
        <3>1. job.pc = "idle" => AdsOf(job.offers) = {}
            BY DEF Recent, AdsOf
        <3>2. job.pc = "idle" \/ spent' = spent + 1
            BY <1>11, TickLeaves
        <3> QED BY <1>0, <2>2, <2>3, <3>1, <3>2 DEF Recent
    <2>5. entry # None /\ Watched \in AdsOf(entry.offers) => gone' <= entry'.age + Ahead + Deadline
        <3> SUFFICES ASSUME entry # None, Watched \in AdsOf(entry.offers)
                     PROVE  gone' <= entry'.age + Ahead + Deadline
            OBVIOUS
        <3>1. entry'.age = Older(entry.age)
            BY <1>11, Folded DEF Tick, Shapes, EntryType
        <3>2. gone <= entry.age + Ahead + Deadline /\ entry.age \in Int /\ entry.age <= Horizon /\ -Ahead <= entry.age
            BY <1>0 DEF Recent
        <3>3. CASE entry.age < Horizon
            <4>1. entry'.age = entry.age + 1
                BY <3>1, <3>2, <3>3, OlderTyped
            <4> QED BY <1>0, <2>2, <2>3, <3>2, <4>1
        <3>4. CASE entry.age = Horizon
            <4>1. entry'.age >= Horizon /\ entry'.age \in Int
                BY <3>1, <3>2, <3>4, OlderTyped
            <4> QED BY <1>0, <2>2, <2>3, <4>1
        <3> QED BY <1>0, <3>2, <3>3, <3>4
    <2>6. /\ entry = None => entry' = None
          /\ entry # None => entry'.offers = entry.offers
        BY <1>11, Folded DEF Tick, Shapes, EntryType
    <2>7. Watched \in Current(listed)' => gone' = 0
        BY <2>1, <2>2 DEF Current
    <2> QED BY <2>1, <2>4, <2>5, <2>6, <2>7 DEF Recent, AdsOf
<1> QED BY <1>3, <1>4, <1>7, <1>8, <1>9, <1>10, <1>11 DEF Next

\* What a calculation uses, the provider had a time to live, one fetch and the error of its
\* clock ago at most; nothing that failed in between makes it younger.
THEOREM NothingOutlivesItsTime == Spec => []NoGhosts
<1>1. TypeInv /\ Recent => NoGhosts
    <2> SUFFICES ASSUME TypeInv, Recent, Fresh(entry), Watched \in AdsOf(entry.offers)
                 PROVE  gone < Horizon
        BY DEF NoGhosts
    <2>1. /\ entry # None /\ entry.age <= TTL /\ entry.age \in Int /\ gone \in Int
          /\ TTL \in Nat /\ Ahead \in Nat /\ Deadline \in Nat /\ Horizon > Deadline + Ahead + TTL
          /\ Horizon \in Nat
        BY Folded, Numbers DEF Fresh, Shapes, EntryType
    <2>2. gone <= entry.age + Ahead + Deadline
        BY <2>1 DEF Recent
    <2> QED BY <2>1, <2>2
<1> QED BY RecentInit, RecentNext, Typed, <1>1, PTL DEF Spec

-----------------------------------------------------------------------------
(* WholeUnlessSlid: what stood on the list all the time, on the pages that were read, was seen. *)

\* A page after which no row is left ends the list; the rows of full pages are a multiple.
ReadPart ==
    source \in Paged /\ ~job.slid =>
        /\ job.stayed \subseteq Current(listed)
        /\ job.seen \cap Sound \subseteq AdsOf(job.offers)
        /\ job.pc \in {"asking", "waiting"} =>
              /\ job.rows <= (job.page - 1) * PageSize
              /\ \A k \in DOMAIN listed :
                    k <= (job.page - 1) * PageSize /\ listed[k] \in job.stayed => listed[k] \in job.seen
        /\ job.pc = "done" => job.stayed \subseteq job.seen

LEMMA ReadInit == Init => ReadPart
<1> SUFFICES ASSUME Init PROVE ReadPart
    OBVIOUS
<1>1. /\ job.stayed = Current(listed) /\ job.seen = {} /\ job.pc = "asking"
      /\ job.page = 1 /\ job.rows = 0
    BY DEF Init, NewJob
<1>2. listed \in Seq(Ads)
    BY FetchAssumption DEF Init
<1>3. (1 - 1) * PageSize = 0 /\ \A k \in DOMAIN listed : ~(k <= 0)
    BY <1>2, Numbers, LenProperties
<1> QED BY <1>1, <1>3 DEF ReadPart

\* In a page the first row of an advertisement that was not seen is new.
LEMMA FirstIsNew ==
    ASSUME NEW items \in Seq(Ads), NEW k \in DOMAIN items, items[k] \notin job.seen
    PROVE  \E i \in NewOf(items) : items[i] = items[k]
<1> DEFINE T == {i \in DOMAIN items : items[i] = items[k]}
<1>1. DOMAIN items = 1..Len(items) /\ Len(items) \in Nat
    BY LenProperties
<1>2. T \subseteq Nat /\ T # {}
    BY <1>1
<1>3. \E i \in T : \A j \in T : ~(<<j, i>> \in OpToRel(<, Nat))
    BY <1>2, NatLessThanWellFounded, WFMin
<1>4. PICK i \in T : \A j \in T : ~(j < i)
    BY <1>2, <1>3 DEF OpToRel
<1>5. \A j \in 1..(i - 1) : items[j] # items[i]
    BY <1>1, <1>4
<1> QED BY <1>4, <1>5 DEF NewOf

\* Where an insertion puts the elements of a list.
LEMMA Inserted ==
    ASSUME NEW S, NEW s \in Seq(S), NEW i \in 1..(Len(s) + 1), NEW e \in S,
           NEW k \in DOMAIN InsertAt(s, i, e)
    PROVE  /\ k \in Nat \ {0}
           /\ \/ k < i /\ k \in DOMAIN s /\ InsertAt(s, i, e)[k] = s[k]
              \/ k = i /\ InsertAt(s, i, e)[k] = e
              \/ k > i /\ k - 1 \in DOMAIN s /\ InsertAt(s, i, e)[k] = s[k - 1]
<1> DEFINE a == SubSeq(s, 1, i - 1)
           b == SubSeq(s, i, Len(s))
<1>0. Len(s) \in Nat /\ DOMAIN s = 1..Len(s) /\ (\A j \in 1..Len(s) : s[j] \in S) /\ i \in Nat \ {0}
    BY LenProperties
<1>1. a \in Seq(S) /\ Len(a) = i - 1 /\ \A j \in 1..(i - 1) : a[j] = s[j]
    BY <1>0, SubSeqProperties
<1>2. b \in Seq(S) /\ Len(b) = Len(s) - i + 1 /\ \A j \in 1..(Len(s) - i + 1) : b[j] = s[i + j - 1]
    BY <1>0, SubSeqProperties
<1>3. InsertAt(s, i, e) = (a \o <<e>>) \o b
    BY DEF InsertAt
<1> HIDE DEF a, b
<1>4. <<e>> \in Seq(S) /\ Len(<<e>>) = 1 /\ <<e>>[1] = e
    OBVIOUS
<1>5. /\ a \o <<e>> \in Seq(S) /\ Len(a \o <<e>>) = i
      /\ \A j \in 1..i : (a \o <<e>>)[j] = IF j < i THEN s[j] ELSE e
    <2>1. /\ a \o <<e>> \in Seq(S) /\ Len(a \o <<e>>) = Len(a) + Len(<<e>>)
          /\ \A j \in 1..(Len(a) + Len(<<e>>)) :
                (a \o <<e>>)[j] = IF j <= Len(a) THEN a[j] ELSE <<e>>[j - Len(a)]
        BY <1>1, <1>4, ConcatProperties
    <2> QED BY <1>0, <1>1, <1>4, <2>1
<1> DEFINE c == a \o <<e>>
<1>11. c \in Seq(S) /\ Len(c) = i /\ \A j \in 1..i : c[j] = IF j < i THEN s[j] ELSE e
    BY <1>5
<1>12. InsertAt(s, i, e) = c \o b
    BY <1>3
<1> HIDE DEF c
<1>6. /\ c \o b \in Seq(S) /\ Len(c \o b) = Len(s) + 1
      /\ \A j \in 1..(Len(s) + 1) : (c \o b)[j] = IF j <= i THEN c[j] ELSE b[j - i]
    <2>1. /\ c \o b \in Seq(S) /\ Len(c \o b) = Len(c) + Len(b)
          /\ \A j \in 1..(Len(c) + Len(b)) :
                (c \o b)[j] = IF j <= Len(c) THEN c[j] ELSE b[j - Len(c)]
        BY <1>2, <1>11, ConcatProperties
    <2>2. Len(c) + Len(b) = Len(s) + 1
        BY <1>0, <1>2, <1>11
    <2> QED BY <1>11, <2>1, <2>2
<1>7. k \in 1..(Len(s) + 1) /\ InsertAt(s, i, e)[k] = IF k <= i THEN c[k] ELSE b[k - i]
    BY <1>12, <1>6, LenProperties
<1>8. CASE k < i
    BY <1>0, <1>11, <1>7, <1>8
<1>9. CASE k = i
    BY <1>0, <1>11, <1>7, <1>9
<1>10. CASE k > i
    <2>1. k - i \in 1..(Len(s) - i + 1) /\ k - 1 \in 1..Len(s)
        BY <1>0, <1>7, <1>10
    <2>2. b[k - i] = s[i + (k - i) - 1] /\ i + (k - i) - 1 = k - 1
        BY <1>0, <1>2, <1>7, <2>1
    <2>3. InsertAt(s, i, e)[k] = b[k - i]
        BY <1>0, <1>7, <1>10
    <2> QED BY <1>0, <1>7, <1>10, <2>1, <2>2, <2>3
<1> QED BY <1>0, <1>7, <1>8, <1>9, <1>10

\* An advertisement that appears moves others to later places only.
LEMMA ReadMoves == ASSUME TypeInv, ReadPart, Moves, UNCHANGED loop PROVE ReadPart'
<1>0. listed \in Seq(Ads) /\ job \in JobType /\ PageSize \in Nat /\ job.page \in Nat \ {0}
    BY Folded, Numbers DEF Shapes, JobType
<1>1. ASSUME NEW list, Changes(list, TRUE) PROVE ReadPart'
    BY <1>0, <1>1 DEF Changes, ReadPart, JobType
<1>2. CASE Appear
    <2>1. PICK a \in Ads \ {listed[i] : i \in DOMAIN listed}, i \in 1..(Len(listed) + 1) :
              Changes(InsertAt(listed, i, a), FALSE)
        BY <1>2 DEF Appear
    <2> DEFINE list == InsertAt(listed, i, a)
    <2>2. /\ source' = source /\ listed' = list /\ job'.slid = job.slid
          /\ job'.stayed = job.stayed \cap Current(list)
          /\ job'.offers = job.offers /\ job'.seen = job.seen /\ job'.pc = job.pc
          /\ job'.rows = job.rows /\ job'.page = job.page
        BY <1>0, <2>1 DEF Changes, JobType
    <2> SUFFICES ASSUME source \in Paged, ~job.slid PROVE ReadPart'
        BY <2>2 DEF ReadPart
    <2> HIDE DEF list
    <2>3. job'.stayed \subseteq Current(listed)'
        BY <2>2 DEF Current
    <2>4. a \notin Current(listed) /\ job.stayed \subseteq Current(listed)
        BY <2>1 DEF Current, ReadPart
    <2>5. (job.page - 1) * PageSize \in Nat
        BY <1>0, NatTimes
    <2>6. ASSUME job.pc \in {"asking", "waiting"}, NEW k \in DOMAIN list,
                 k <= (job.page - 1) * PageSize, list[k] \in job'.stayed
          PROVE  list[k] \in job.seen
        <3>1. /\ k \in Nat \ {0}
              /\ \/ k < i /\ k \in DOMAIN listed /\ list[k] = listed[k]
                 \/ k = i /\ list[k] = a
                 \/ k > i /\ k - 1 \in DOMAIN listed /\ list[k] = listed[k - 1]
            BY <1>0, <2>1, <2>6, Inserted DEF list
        <3>2. list[k] \in job.stayed
            BY <2>2, <2>6
        <3>3. \A j \in DOMAIN listed :
                 j <= (job.page - 1) * PageSize /\ listed[j] \in job.stayed => listed[j] \in job.seen
            BY <2>6 DEF ReadPart
        <3>4. CASE k = i /\ list[k] = a
            BY <2>4, <3>2, <3>4
        <3>5. CASE k < i /\ k \in DOMAIN listed /\ list[k] = listed[k]
            BY <2>6, <3>2, <3>3, <3>5
        <3>6. CASE k > i /\ k - 1 \in DOMAIN listed /\ list[k] = listed[k - 1]
            <4>1. k - 1 <= (job.page - 1) * PageSize
                BY <2>5, <2>6, <3>1
            <4> QED BY <3>2, <3>3, <3>6, <4>1
        <3> QED BY <3>1, <3>4, <3>5, <3>6
    <2> QED BY <2>2, <2>3, <2>6 DEF ReadPart, AdsOf
<1>3. CASE Vanish \/ Reprice
    BY <1>1, <1>3 DEF Vanish, Reprice
<1> QED BY <1>2, <1>3 DEF Moves

\* A page holds the rows of the list that follow the old ones, and is full unless they end.
LEMMA RowsOfPage ==
    ASSUME NEW S, NEW s \in Seq(S), NEW old \in Nat, NEW size \in Nat \ {0}
    PROVE  LET items == SubSeq(s, old + 1, Lesser(old + size, Len(s))) IN
           /\ Len(items) \in Nat /\ Len(items) <= size
           /\ Len(items) < size => old + Len(items) >= Len(s)
           /\ \A k \in DOMAIN s : k > old /\ k <= old + size =>
                  k - old \in DOMAIN items /\ items[k - old] = s[k]
<1> DEFINE last  == Lesser(old + size, Len(s))
           items == SubSeq(s, old + 1, last)
           n     == Len(s)
<1>1. n \in Nat /\ DOMAIN s = 1..n
    BY LenProperties
<1>2. /\ last \in Nat /\ last <= n /\ last <= old + size
      /\ last = n \/ last = old + size
    <2> HIDE DEF n
    <2>1. last = Lesser(old + size, n)
        BY DEF n
    <2> HIDE DEF last
    <2> QED BY <1>1, <2>1 DEF Lesser
<1>3. \A i \in 1..n : s[i] \in S
    BY ElementOfSeq
<1> HIDE DEF last, n
<1>4. \A i \in (old + 1)..last : s[i] \in S
    <2>1. \A i \in (old + 1)..last : i \in 1..n
        BY <1>1, <1>2
    <2> QED BY <1>3, <2>1
<1>5. /\ items \in Seq(S)
      /\ Len(items) = IF old + 1 <= last THEN last - (old + 1) + 1 ELSE 0
      /\ \A i \in 1..(last - (old + 1) + 1) : items[i] = s[old + 1 + i - 1]
    <2>1. old + 1 \in Int /\ last \in Int
        BY <1>2
    <2> QED BY <1>4, <2>1, SubSeqProperties
<1> HIDE DEF items
<1>6. DOMAIN items = 1..Len(items)
    BY <1>5, LenProperties
<1>7. ASSUME NEW k \in DOMAIN s, k > old, k <= old + size
      PROVE  k - old \in DOMAIN items /\ items[k - old] = s[k]
    <2>1. k <= last /\ k \in Nat
        BY <1>1, <1>2, <1>7
    <2>2. k - old \in 1..(last - (old + 1) + 1) /\ old + 1 + (k - old) - 1 = k
        BY <1>2, <1>7, <2>1
    <2>3. Len(items) = last - (old + 1) + 1
        BY <1>2, <1>5, <1>7, <2>1
    <2> QED BY <1>5, <1>6, <2>2, <2>3
<1>8. Len(items) \in Nat /\ Len(items) <= size
    BY <1>2, <1>5
<1>9. Len(items) < size => old + Len(items) >= n
    BY <1>1, <1>2, <1>5
<1>10. /\ Len(items) \in Nat /\ Len(items) <= size
       /\ Len(items) < size => old + Len(items) >= Len(s)
       /\ \A k \in DOMAIN s : k > old /\ k <= old + size =>
              k - old \in DOMAIN items /\ items[k - old] = s[k]
    BY <1>7, <1>8, <1>9 DEF n
<1> QED BY <1>10 DEF items, last

\* A page that was read: its rows follow the earlier ones, and what is new in it is seen.
LEMMA ReadPage == ASSUME TypeInv, ReadPart, GetPage, UNCHANGED loop PROVE ReadPart'
<1> DEFINE items == Page(job.page)
           new   == Taken(items, job.rows)
           rows  == job.rows + Len(items)
           old   == (job.page - 1) * PageSize
<1>0. /\ listed \in Seq(Ads) /\ job \in JobType /\ PageSize \in Nat \ {0} /\ job.page \in Nat \ {0}
      /\ job.rows \in Nat /\ Len(listed) \in Nat /\ DOMAIN listed = 1..Len(listed)
    BY Folded, Numbers, LenProperties DEF Shapes, JobType
<1>1. /\ items \in Seq(Ads) /\ source \in Paged
      /\ job'.offers = job.offers \cup new
      /\ job'.seen = job.seen \cup {items[i] : i \in DOMAIN items}
      /\ job.pc = "asking" /\ job'.pc \in {"asking", "done", "failed"}
      /\ UNCHANGED <<venue, spent>>
    BY PageTaken
<1>2. /\ job'.page = job.page + 1 /\ job'.rows = rows
      /\ job'.stayed = job.stayed /\ job'.slid = job.slid
      /\ job'.pc = Verdict(items, rows, job'.offers)
    BY <1>0, <1>1 DEF GetPage, JobType
<1>3. old \in Nat /\ job.page * PageSize = old + PageSize
    BY <1>0, NatTimes
<1>4. items = SubSeq(listed, old + 1, Lesser(old + PageSize, Len(listed)))
    BY <1>3 DEF Page
<1>5. /\ Len(items) \in Nat /\ Len(items) <= PageSize
      /\ Len(items) < PageSize => old + Len(items) >= Len(listed)
      /\ \A k \in DOMAIN listed : k > old /\ k <= old + PageSize =>
             k - old \in DOMAIN items /\ items[k - old] = listed[k]
    <2>1. old \in Nat
        BY <1>3
    <2>2. listed \in Seq(Ads) /\ PageSize \in Nat \ {0}
        BY <1>0
    <2> HIDE DEF old, new, rows, items
    <2>3. LET page == SubSeq(listed, old + 1, Lesser(old + PageSize, Len(listed))) IN
          /\ Len(page) \in Nat /\ Len(page) <= PageSize
          /\ Len(page) < PageSize => old + Len(page) >= Len(listed)
          /\ \A k \in DOMAIN listed : k > old /\ k <= old + PageSize =>
                 k - old \in DOMAIN page /\ page[k - old] = listed[k]
        BY <2>1, <2>2, RowsOfPage, Zenon
    <2> QED BY <1>4, <2>3, Zenon
<1> SUFFICES ASSUME ~job.slid PROVE ReadPart'
    BY <1>2 DEF ReadPart
<1>6. /\ job.stayed \subseteq Current(listed) /\ job.seen \cap Sound \subseteq AdsOf(job.offers)
      /\ job.rows <= old
      /\ \A k \in DOMAIN listed : k <= old /\ listed[k] \in job.stayed => listed[k] \in job.seen
    BY <1>1 DEF ReadPart
<1> HIDE DEF items, new, rows, old
<1>7. job'.stayed \subseteq Current(listed)'
    BY <1>1, <1>2, <1>6 DEF Current, venue
<1>8. job'.seen \cap Sound \subseteq AdsOf(job'.offers)
    <2> SUFFICES ASSUME NEW x \in job'.seen, x \in Sound PROVE \E o \in job'.offers : o.ad = x
        BY DEF AdsOf
    <2>1. CASE x \in job.seen
        BY <1>1, <1>6, <2>1 DEF AdsOf
    <2>2. CASE x \notin job.seen
        <3>1. PICK k \in DOMAIN items : items[k] = x
            BY <1>1, <2>2
        <3>2. PICK i \in NewOf(items) : items[i] = x
            BY <1>1, <2>2, <3>1, FirstIsNew
        <3>3. [row |-> job.rows + i, ad |-> x] \in new
            BY <3>2 DEF new, Taken
        <3> QED BY <1>1, <3>3
    <2> QED BY <2>1, <2>2
<1>9. \A k \in DOMAIN listed :
         k <= old + PageSize /\ listed[k] \in job.stayed => listed[k] \in job'.seen
    <2> SUFFICES ASSUME NEW k \in DOMAIN listed, k <= old + PageSize, listed[k] \in job.stayed
                 PROVE  listed[k] \in job'.seen
        OBVIOUS
    <2>1. k \in Nat
        BY <1>0
    <2>2. CASE k <= old
        BY <1>1, <1>6, <2>2
    <2>3. CASE k > old
        BY <1>1, <1>5, <2>3
    <2> QED BY <1>3, <2>1, <2>2, <2>3
<1>10. rows <= old + PageSize /\ rows \in Nat
    BY <1>0, <1>3, <1>5, <1>6 DEF rows
<1>11. (job'.page - 1) * PageSize = old + PageSize
    <2>1. job'.page - 1 = job.page
        BY <1>0, <1>2
    <2> QED BY <1>3, <2>1
<1>12. ASSUME job'.pc = "done" PROVE job'.stayed \subseteq job'.seen
    <2>1. Complete(items, rows)
        BY <1>2, <1>12 DEF Verdict, Asking
    <2>2. Len(listed) <= old + PageSize
        BY <1>0, <1>3, <1>5, <1>10, <2>1 DEF Complete
    <2>3. ASSUME NEW x \in job.stayed PROVE x \in job'.seen
        <3>1. PICK k \in DOMAIN listed : x = listed[k]
            BY <1>1, <1>6 DEF Current
        <3>2. k <= old + PageSize
            BY <1>0, <1>3, <2>2
        <3> QED BY <1>9, <2>3, <3>1, <3>2
    <2> QED BY <1>2, <2>3
<1>13. listed' = listed /\ source' = source
    BY <1>1 DEF venue
<1> QED BY <1>2, <1>7, <1>8, <1>9, <1>10, <1>11, <1>12, <1>13 DEF ReadPart

LEMMA ReadNext == ASSUME TypeInv, ReadPart, [Next]_vars PROVE ReadPart'
<1>1. CASE Moves /\ UNCHANGED loop
    BY <1>1, ReadMoves
<1>2. CASE (Settle /\ UNCHANGED loop) \/ UNCHANGED vars
    BY <1>2 DEF Settle, loop, vars, venue, ReadPart, Current, AdsOf
<1>3. CASE Client /\ UNCHANGED loop
    <2>1. CASE GetPage
        BY <1>3, <2>1, ReadPage
    <2>2. CASE GetOne
        BY <2>2, OneTaken DEF ReadPart, venue
    <2>3. CASE /\ job'.offers = job.offers /\ job'.seen = job.seen
               /\ job'.page = job.page /\ job'.rows = job.rows
               /\ job'.stayed = job.stayed /\ job'.slid = job.slid
               /\ job.pc \in {"asking", "waiting"} /\ job'.pc \in {"asking", "waiting", "failed"}
               /\ UNCHANGED <<venue, spent>>
        BY <2>3 DEF ReadPart, venue, Current, AdsOf
    <2> QED BY <1>3, <2>1, <2>2, <2>3, ClientSteps
<1>4. CASE Begin
    <2>1. /\ job'.stayed = Current(listed) /\ job'.seen = {} /\ job'.pc = "asking"
          /\ job'.page = 1 /\ job'.rows = 0 /\ UNCHANGED venue
        BY <1>4 DEF Begin, NewJob
    <2>2. listed \in Seq(Ads)
        BY Folded DEF Shapes
    <2>3. (1 - 1) * PageSize = 0 /\ \A k \in DOMAIN listed : ~(k <= 0)
        BY <2>2, Numbers, LenProperties
    <2> QED BY <2>1, <2>3 DEF ReadPart, venue, Current
<1>5. CASE Publish \/ Keep
    <2>1. job'.stayed = {} /\ job'.seen = {} /\ job'.pc = "idle"
        BY <1>5 DEF Publish, Keep, Rest, NewJob
    <2> QED BY <2>1 DEF ReadPart
<1>6. CASE Tick
    <2>1. job \in JobType
        BY Folded DEF Shapes
    <2>2. /\ job'.offers = job.offers /\ job'.seen = job.seen /\ job'.pc = job.pc
          /\ job'.page = job.page /\ job'.rows = job.rows
          /\ job'.stayed = job.stayed /\ job'.slid = job.slid
          /\ UNCHANGED <<source, listed>>
        BY <1>6, <2>1 DEF Tick, JobType
    <2> QED BY <2>2 DEF ReadPart, Current, AdsOf
<1> QED BY <1>1, <1>2, <1>3, <1>4, <1>5, <1>6 DEF Next

\* Of the advertisements that stood on the list all the time a fetch that succeeds misses none,
\* unless one vanished or changed its place meanwhile: advertisements that appear do not matter.
THEOREM NothingStayingIsMissed == Spec => []WholeUnlessSlid
<1>1. ReadPart => WholeUnlessSlid
    BY DEF ReadPart, WholeUnlessSlid, Missed
<1> QED BY ReadInit, ReadNext, Typed, <1>1, PTL DEF Spec
=============================================================================
