------------------------------- MODULE Fetch -------------------------------
(***************************************************************************)
(* One fetch of a source by its refresher: the P2P advertisements of Bybit *)
(* or Wallet, page after page, or a fee or an order book in one request.   *)
(* Every request goes through httpclient.Read, which tries again while the *)
(* provider is busy; the whole fetch has one deadline.  The provider goes  *)
(* on changing what it lists meanwhile.                                    *)
(*                                                                         *)
(* An advertisement is its ID; an offer is the row in which one was found, *)
(* so it can be taken twice.  A fee or an order book is what stands first  *)
(* on the provider's list.                                                 *)
(***************************************************************************)
EXTENDS Integers, Sequences, FiniteSets, SequencesExt

CONSTANTS
    Ads,
    Sound,         \* the advertisements that can be used: free, in the right direction, valid
    Starts,        \* bound: sources, and what the provider lists at the start
    PageSize,
    MaxPages,      \* for each source that has pages
    Deadline,      \* of a fetch (12 s)
    CallTimeout,   \* of one request (8 s)
    Backoff,       \* the wait after each attempt but the last (200 ms, 400 ms)
    MaxWait,       \* the longest wait (10 s)
    Delays,        \* what Retry-After may say; 0 if it says nothing
    Watched,       \* the advertisement whose presence is watched
    MaxMoves       \* bound: changes of the provider's list

VARIABLES
    source, listed,
    moves,     \* number of changes so far
    steady,    \* from now on the list stands still and requests are answered at once
    gone,      \* history: time since Watched was on the list
    job,       \* the fetch, see NewJob
    spent      \* time since it began

venue == <<source, listed, moves, steady, gone>>

Paged == {"bybit", "wallet"}

ASSUME FetchAssumption ==
    /\ Sound \subseteq Ads /\ Watched \in Ads
    /\ \A s \in Starts : s.source \in Paged \cup {"fee", "book"} /\ s.listed \in Seq(Ads)
    /\ PageSize \in Nat \ {0} /\ MaxPages \in [Paged -> Nat \ {0}]
    /\ Deadline \in Nat \ {0} /\ CallTimeout \in Nat \ {0}
    /\ Backoff \in Seq(Nat) /\ MaxWait \in Nat /\ Delays \subseteq Nat /\ MaxMoves \in Nat

-----------------------------------------------------------------------------
(* The provider. *)

\* What a request could find.
Current(list) ==
    IF source \in Paged THEN {list[i] : i \in DOMAIN list} ELSE {list[i] : i \in DOMAIN list \cap {1}}

Lesser(a, b) == IF a < b THEN a ELSE b
Page(n) == SubSeq(listed, (n - 1) * PageSize + 1, Lesser(n * PageSize, Len(listed)))

\* An advertisement that stayed on the list is still there; it may have slid to an earlier page.
Changes(list, slides) ==
    /\ ~steady /\ moves < MaxMoves
    /\ listed' = list /\ moves' = moves + 1
    /\ gone' = IF Watched \in Current(list) THEN 0 ELSE gone
    /\ job' = [job EXCEPT !.stayed = @ \cap Current(list), !.slid = @ \/ slides]
    /\ UNCHANGED <<source, steady, spent>>

Appear == \E a \in Ads \ {listed[i] : i \in DOMAIN listed}, i \in 1..(Len(listed) + 1) :
             Changes(InsertAt(listed, i, a), FALSE)
Vanish == \E i \in DOMAIN listed : Changes(RemoveAt(listed, i), TRUE)
\* A new price gives it another place.
Reprice == \E i, j \in DOMAIN listed :
             i # j /\ Changes(InsertAt(RemoveAt(listed, i), j, listed[i]), TRUE)

Settle == ~steady /\ steady' = TRUE /\ UNCHANGED <<source, listed, moves, gone, job, spent>>

-----------------------------------------------------------------------------
(* httpclient.Read. *)

Attempts == Len(Backoff) + 1

\* slid and stayed are history: what happened to the list since the fetch began.
NewJob == [pc |-> "asking", page |-> 1, attempt |-> 1, left |-> CallTimeout, rows |-> 0,
           seen |-> {}, offers |-> {}, stayed |-> Current(listed), slid |-> FALSE]

Active == job.pc \in {"asking", "waiting"}
Goes(pc, left) == job' = [job EXCEPT !.pc = pc, !.left = left] /\ UNCHANGED <<venue, spent>>
Fails == Goes("failed", 0)

\* A request made when the deadline is over fails at once.
Asking == IF spent < Deadline THEN "asking" ELSE "failed"

\* No answer in time, no connection, an answer that cannot be read, a status that is final.
Broken ==
    /\ job.pc = "asking"
    /\ ~steady \/ job.left = 0 \/ spent >= Deadline
    /\ Fails

\* 429 or 5xx: wait and try again, unless it was the last attempt or the wait is too long.
TooLong(delay) == delay > MaxWait

Busy ==
    /\ job.pc = "asking" /\ ~steady
    /\ \E after \in Delays :
         IF job.attempt = Attempts THEN Fails
         ELSE LET delay == IF after > 0 THEN after ELSE Backoff[job.attempt] IN
              IF TooLong(delay) THEN Fails ELSE Goes("waiting", delay)

Again ==
    /\ job.pc = "waiting" /\ job.left = 0
    /\ job' = [job EXCEPT !.pc = Asking, !.left = CallTimeout, !.attempt = @ + 1]
    /\ UNCHANGED <<venue, spent>>

\* Mutant: the timer is waited for although the context is done.
Sleeps    == FALSE
Cancelled == job.pc = "waiting" /\ spent >= Deadline

GiveUp == Cancelled /\ Fails

-----------------------------------------------------------------------------
(* GetOffers: pages are read until the source says that there are no more. *)

\* The items of a page that were not met before.
\* Mutant: an advertisement that was met on an earlier page is taken again.
AllOf(items) == DOMAIN items
NewOf(items) ==
    {i \in DOMAIN items : items[i] \notin job.seen /\ \A k \in 1..(i - 1) : items[k] # items[i]}

\* Bybit tells how many there are, and rows are counted also if they were met before; Wallet
\* ends with a page that is not full.
\* Mutant: the rows of the last page are counted twice.
CountsTwice(items, rows) == rows + Len(items) >= Len(listed)
Complete(items, rows) ==
    IF source = "bybit" THEN rows >= Len(listed) ELSE Len(items) < PageSize

\* Mutant: an empty page, which ends the list of Wallet, is taken for a repeated one.
NoNew(items) == NewOf(items) = {}
Repeated(items) ==
    /\ NewOf(items) = {}
    /\ IF source = "bybit" THEN items # <<>> ELSE Len(items) >= PageSize

Unusable(offers, rows) == offers = {} /\ (source = "wallet" \/ rows > 0)

Taken(items, rows) ==
    {[row |-> rows + i, ad |-> items[i]] : i \in {k \in NewOf(items) : items[k] \in Sound}}
AdsOf(offers) == {o.ad : o \in offers}

\* What becomes of the fetch when a page has been read.
Verdict(items, rows, offers) ==
    IF \/ source = "bybit" /\ Len(listed) > MaxPages["bybit"] * PageSize
       \/ Repeated(items)
    THEN "failed"
    ELSE IF Complete(items, rows) THEN (IF Unusable(offers, rows) THEN "failed" ELSE "done")
    ELSE IF (source = "bybit" /\ items = <<>>) \/ job.page = MaxPages[source] THEN "failed"
    ELSE Asking

GetPage ==
    LET items  == Page(job.page)
        rows   == job.rows + Len(items)
        offers == job.offers \cup Taken(items, job.rows)
    IN
    /\ job.pc = "asking" /\ source \in Paged
    /\ job' = [job EXCEPT !.pc = Verdict(items, rows, offers), !.page = @ + 1, !.attempt = 1,
                          !.left = CallTimeout, !.rows = rows, !.offers = offers,
                          !.seen = @ \cup {items[i] : i \in DOMAIN items}]
    /\ UNCHANGED <<venue, spent>>

\* GetOrderBook, GetWithdrawalFee and their like.
GetOne ==
    /\ job.pc = "asking" /\ source \notin Paged
    /\ IF listed # <<>> /\ listed[1] \in Sound
       THEN /\ job' = [job EXCEPT !.pc = "done", !.left = 0, !.offers = {[row |-> 1, ad |-> listed[1]]}]
            /\ UNCHANGED <<venue, spent>>
       ELSE Fails

Moves  == Appear \/ Vanish \/ Reprice
Client == Broken \/ Busy \/ Again \/ GiveUp \/ GetPage \/ GetOne
=============================================================================
