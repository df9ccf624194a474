------------------------------ MODULE Refresh ------------------------------
(***************************************************************************)
(* A refresher (the loop of market.Run with a Fetch of app.Workers): it    *)
(* fetches its source, puts the result into the market or reacts to the    *)
(* failure, and waits for the ticker.  Calculations use an entry of the    *)
(* market while it is fresh.                                               *)
(*                                                                         *)
(* Time is discrete and relative: what has to happen at a moment happens   *)
(* before time goes on.                                                    *)
(***************************************************************************)
EXTENDS Fetch

CONSTANTS
    Interval,  \* of the ticker
    TTL,       \* how old an entry may be when it is used
    Ahead,     \* how far the clock of a provider may be ahead (tolerated: Slack)
    Slack,     \* an entry dated this much in the future is used (1 s)
    None

VARIABLES
    phase, due,   \* time since the last tick; a tick waits to be received
    entry         \* what the market has of the source

loop == <<phase, due, entry>>
vars == <<venue, job, spent, loop>>

OfferType == [row : Nat, ad : Ads]

ASSUME RefreshAssumption ==
    /\ Interval \in Nat \ {0} /\ TTL \in Nat /\ Ahead \in Nat /\ Slack \in Nat
    /\ None \notin [offers : SUBSET OfferType, age : Int]

\* An entry this old, or gone for so long, is as good as one that is older still.
Horizon == TTL + Deadline + Ahead + 1
Older(t) == IF t < Horizon THEN t + 1 ELSE t

Init ==
    /\ \E s \in Starts : source = s.source /\ listed = s.listed
    /\ moves = 0 /\ steady = FALSE
    /\ job = NewJob /\ spent = 0
    /\ phase = 0 /\ due = FALSE
    /\ entry = None
    /\ gone = IF Watched \in Current(listed) THEN 0 ELSE Horizon

-----------------------------------------------------------------------------
(* The loop. *)

Begin ==
    /\ job.pc = "idle" /\ due
    /\ due' = FALSE /\ job' = NewJob /\ spent' = 0
    /\ UNCHANGED <<venue, phase, entry>>

Rest == job' = [NewJob EXCEPT !.pc = "idle", !.stayed = {}] /\ spent' = 0

\* The entry is dated when it is published; an order book bears the date of its provider.
Ages == IF source = "book" THEN (-Ahead)..0 ELSE {0}

Publish ==
    /\ job.pc = "done" /\ Rest
    /\ \E age \in Ages : entry' = [offers |-> job.offers, age |-> age]
    /\ UNCHANGED <<venue, phase, due>>

\* Offers and order books stay with their date; a fee that could not be confirmed is deleted.
\* Mutants: nothing is deleted; what is kept is dated anew.
KeepsAll(e)   == e
DatesAnew(e)  == IF e = None THEN None ELSE [e EXCEPT !.age = 0]
AfterError(e) == IF source = "fee" THEN None ELSE e

Keep ==
    /\ job.pc = "failed" /\ Rest
    /\ entry' = AfterError(entry)
    /\ UNCHANGED <<venue, phase, due>>

\* Something has to happen now.
Urgent ==
    \/ job.pc \in {"done", "failed"}
    \/ job.pc = "idle" /\ due
    \/ job.pc = "asking" /\ (job.left = 0 \/ spent >= Deadline \/ steady)
    \/ job.pc = "waiting" /\ (job.left = 0 \/ Cancelled)

\* The channel of the ticker holds one tick.
Tick ==
    /\ ~Urgent
    /\ spent' = IF Active THEN spent + 1 ELSE 0
    /\ job' = IF Active THEN [job EXCEPT !.left = @ - 1] ELSE job
    /\ phase' = (phase + 1) % Interval
    /\ due' = (due \/ phase + 1 = Interval)
    /\ entry' = IF entry = None THEN None ELSE [entry EXCEPT !.age = Older(@)]
    /\ gone' = IF Watched \in Current(listed) THEN 0 ELSE Older(gone)
    /\ UNCHANGED <<source, listed, moves, steady>>

Next ==
    \/ (Moves \/ Settle \/ Client) /\ UNCHANGED loop
    \/ Begin \/ Publish \/ Keep \/ Tick

\* Time goes on, the refresher runs, and requests are answered or time out.
Spec == Init /\ [][Next]_vars
             /\ WF_vars(Tick) /\ WF_vars(Client /\ UNCHANGED loop)
             /\ WF_vars(Begin) /\ WF_vars(Publish \/ Keep)

-----------------------------------------------------------------------------
(* Properties *)

\* fresh of package route.
Fresh(e) == e # None /\ -e.age <= Slack /\ e.age <= TTL

\* The shape of the fetch, the ticker and the entry; a fetch keeps its deadline.
TypeOK ==
    /\ source \in Paged \cup {"fee", "book"} /\ listed \in Seq(Ads)
    /\ moves \in 0..MaxMoves /\ steady \in BOOLEAN
    /\ job \in [pc : {"idle", "asking", "waiting", "done", "failed"}, page : Nat \ {0},
                attempt : 1..Attempts, left : Nat, rows : Nat, seen : SUBSET Ads,
                offers : SUBSET OfferType, stayed : SUBSET Ads, slid : BOOLEAN]
    /\ spent \in 0..Deadline
    /\ phase \in 0..(Interval - 1) /\ due \in BOOLEAN
    /\ entry \in [offers : SUBSET OfferType, age : (-Ahead)..Horizon] \cup {None}
    /\ gone \in 0..Horizon

\* Comment in bybit/p2p.go: an offer's liquidity is never counted twice, however the
\* advertisements move between pages while they are read.
Single(offers) == \A o, p \in offers : o.ad = p.ad => o = p
NoAdTwice == Single(job.offers) /\ (entry # None => Single(entry.offers))

Missed == (job.stayed \cap Sound) \ AdsOf(job.offers)

\* Of the advertisements that stood on the list all the time none is missed, unless one
\* before them vanished or changed its place.
WholeUnlessSlid == job.pc = "done" /\ source \in Paged /\ ~job.slid => Missed = {}

\* BYBIT_SETUP.md: a partial list is not passed off as the whole market.
WholeMarket == job.pc = "done" /\ source = "bybit" => Missed = {}

\* README: data beyond their time to live are excluded, and a failed refresh makes none of
\* them younger.  What a calculation uses, the provider had a time to live and one fetch ago.
NoGhosts == Fresh(entry) /\ Watched \in AdsOf(entry.offers) => gone < Horizon

\* A fee is confirmed or gone: no calculation uses one that its last refresh did not see.
FeesConfirmed == source = "fee" /\ entry # None => entry.age <= Interval + Deadline

\* Once a provider behaves, its data become fresh and stay so.
Recovers == steady /\ Current(listed) \cap Sound # {} ~> []Fresh(entry)
=============================================================================
