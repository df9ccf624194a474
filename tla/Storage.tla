------------------------------ MODULE Storage ------------------------------
(***************************************************************************)
(* The SQLite file: the schema with the list of its migrations, and the    *)
(* history of calculations.  The process has one connection, so there is   *)
(* one transaction at a time; it works on a copy which a commit makes the  *)
(* contents of the file and a crash forgets.                               *)
(*                                                                         *)
(* Migration n is the n-th file, a calculation a number.                   *)
(***************************************************************************)
EXTENDS Integers, Sequences, FiniteSets

CONSTANTS
    Users,
    Keep,          \* calculations kept of a user (100)
    Migrations,    \* number of migrations there are (5)
    Repeatable,    \* those that may be applied again (CREATE TABLE IF NOT EXISTS)
    None

VARIABLES
    disk,   \* what is committed
    tx      \* the open transaction: whose it is and what it sees; or None

storage == <<disk, tx>>

ASSUME StorageAssumption ==
    /\ Keep \in Nat \ {0} /\ Migrations \in Nat \ {0}
    /\ Repeatable \subseteq 1..Migrations

RowType  == [id : Nat, user : Users, calc : Nat]
DiskType == [tables : SUBSET (1..Migrations), applied : SUBSET (1..Migrations),
             rows : SUBSET RowType, last : Nat]

\* last is the AUTOINCREMENT counter, part of the file like any table.
NewDisk == [tables |-> {}, applied |-> {}, rows |-> {}, last |-> 0]

-----------------------------------------------------------------------------
(* Transactions. *)

Connected == tx = None

BeginTx(who) == Connected /\ tx' = [owner |-> who, data |-> disk] /\ UNCHANGED disk

\* Mutant: statements are executed outside the transaction.
WritesThrough(data) == tx' = [tx EXCEPT !.data = data] /\ disk' = data
Write(data)         == tx' = [tx EXCEPT !.data = data] /\ UNCHANGED disk

Commit == disk' = tx.data /\ tx' = None

\* The deferred Rollback; a crash does the same.
\* Mutant: a statement that fails leaves its transaction open.
LeavesOpen(who) == tx
AfterError(who) == IF tx # None /\ tx.owner = who THEN None ELSE tx
Rollback(who)   == tx' = AfterError(who) /\ UNCHANGED disk

-----------------------------------------------------------------------------
(* Migrations. *)

Skips(f)   == f \in tx.data.applied
Applies(f) == f \notin tx.data.tables \/ f \in Repeatable
Exec(f)    == Applies(f) /\ Write([tx.data EXCEPT !.tables = @ \cup {f}])
Record(f)  == Write([tx.data EXCEPT !.applied = @ \cup {f}])

-----------------------------------------------------------------------------
(* The history. *)

Insert(user, calc) ==
    LET id == tx.data.last + 1 IN
    Write([tx.data EXCEPT !.rows = @ \cup {[id |-> id, user |-> user, calc |-> calc]}, !.last = id])

\* The user's rows that a number of newer ones follow are deleted.
\* Mutant: everybody's.
TrimsAll(user, rows) == {r \in rows : r.user # user => Cardinality({s \in rows : s.id > r.id}) < Keep}
Kept(user, rows) ==
    {r \in rows : r.user = user => Cardinality({s \in rows : s.user = user /\ s.id > r.id}) < Keep}
Trim(user) == Write([tx.data EXCEPT !.rows = Kept(user, @)])

Load(user, id) == {r \in disk.rows : r.user = user /\ r.id = id}
=============================================================================
