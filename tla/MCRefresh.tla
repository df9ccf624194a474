----------------------------- MODULE MCRefresh -----------------------------
(* Instances of Refresh for TLC: lists of two pages, of one page and of one entry. *)
EXTENDS Refresh

Lists == {[source |-> s, listed |-> <<1, 2, 3>>] : s \in Paged}
Lone  == {[source |-> s, listed |-> <<1, 2>>] : s \in {"fee", "book"}}

SomeStarts  == Lists \cup Lone
BybitStarts == {s \in Lists : s.source = "bybit"}
SomePages   == [s \in Paged |-> IF s = "bybit" THEN 2 ELSE 3]
Pauses      == <<1, 1>>
=============================================================================
