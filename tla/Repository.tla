----------------------------- MODULE Repository -----------------------------
(* db/repository.ts: the shared operations on one workspace-scoped table,    *)
(* with the pages of core/paging.ts.  Processes share the database file, and *)
(* update() and restore() read a row before they write it, so such a call is *)
(* two steps; inside one process nothing comes between them.                 *)
EXTENDS Integers, FiniteSets

CONSTANTS
  Id,           \* ids for rows, ordered as the ids are compared
  Proc,         \* processes that share the database file
  Stamp,        \* values of the sort column
  Limit,        \* rows on a page
  MaxVersion    \* bound: no version above it

RepositoryAssumption ==
  Id \subseteq Nat /\ Stamp \subseteq Nat \ {0} /\ Limit \in Nat \ {0} /\ MaxVersion \in Nat

VARIABLES
  rows,         \* the table
  stmt,         \* the statement a process is about to execute
  walk          \* a reader that follows nextCursor from page to page: the
                \* cursor, and for history the rows it was given

vars == <<rows, stmt, walk>>

(* An id is used once, a hard-deleted row is purged.                         *)
Row == [st: {"absent", "live", "deleted", "purged"}, at: Stamp \cup {0}, version: Nat]
NoRow == [st |-> "absent", at |-> 0, version |-> 0]
Idle == [op |-> "none"]
Statement == {Idle} \cup [op: {"update", "softDelete", "restore"}, id: Id]
NoCursor == 0
Walk == [cursor: Stamp \cup {NoCursor}, given: SUBSET Id, twice: BOOLEAN, done: BOOLEAN]

TypeOK ==
  /\ rows \in [Id -> Row]
  /\ stmt \in [Proc -> Statement]
  /\ walk \in Walk

NoWalk == [cursor |-> NoCursor, given |-> {}, twice |-> FALSE, done |-> FALSE]

Init ==
  /\ rows = [i \in Id |-> NoRow]
  /\ stmt = [p \in Proc |-> Idle]
  /\ walk = NoWalk

(* scope(): rows that are not soft-deleted.                                  *)
Scope == {i \in Id : rows[i].st = "live"}

-----------------------------------------------------------------------------
(* Writes                                                                    *)

insert(i, at) ==
  /\ rows[i] = NoRow
  /\ rows' = [rows EXCEPT ![i] = [st |-> "live", at |-> at, version |-> 1]]
  /\ UNCHANGED <<stmt, walk>>

(* The reading half: the row is in scope and has the version that was        *)
(* expected, if one was; restore() also finds deleted rows.                  *)
Begin(p, op, i, expected) ==
  /\ stmt[p] = Idle
  /\ i \in Scope \/ (op = "restore" /\ rows[i].st = "deleted")
  /\ expected # 0 => rows[i].version = expected
  /\ stmt' = [stmt EXCEPT ![p] = [op |-> op, id |-> i]]
  /\ UNCHANGED <<rows, walk>>

(* Mutant of Matched: the UPDATE goes by the id alone.                       *)
MatchedById(s) == {i \in {s.id} : rows[i].st # "purged"}

(* The rows the UPDATE applies to: update() repeats the scope, not the       *)
(* version; restore() goes by the id.                                        *)
Matched(s) ==
  {i \in {s.id} : i \in Scope \/ (s.op = "restore" /\ rows[i].st = "deleted")}

Written(s, row) ==
  [row EXCEPT !.version = @ + 1,
              !.st = CASE s.op = "softDelete" -> "deleted"
                       [] s.op = "restore" -> "live" [] OTHER -> @]

Execute(p) ==
  LET s == stmt[p]
  IN /\ s # Idle /\ rows[s.id].version < MaxVersion
     /\ rows' = [i \in Id |-> IF i \in Matched(s) THEN Written(s, rows[i]) ELSE rows[i]]
     /\ stmt' = [stmt EXCEPT ![p] = Idle]
     /\ UNCHANGED walk

hardDelete(i) ==
  /\ rows[i].st \in {"live", "deleted"}
  /\ rows' = [rows EXCEPT ![i].st = "purged"]
  /\ UNCHANGED <<stmt, walk>>

-----------------------------------------------------------------------------
(* list(), newest first, by the creation time or the last interaction        *)

(* ORDER BY the sort column DESC, id DESC                                    *)
Before(i, j) == rows[i].at > rows[j].at \/ (rows[i].at = rows[j].at /\ i > j)

(* The WHERE clause.  An empty cursor is no cursor.                          *)
Behind(cursor) == {i \in Scope : cursor = NoCursor \/ rows[i].at < cursor}

PageOf(ids) == {i \in ids : Cardinality({j \in ids : Before(j, i)}) < Limit}

(* The cursor is taken from the row under the name the column has in the     *)
(* database (created_at, last_interaction_at), and the row has its values    *)
(* under the names of the code (createdAt, lastInteractionAt): what is found *)
(* there is nothing, and nothing is encoded as the empty string.             *)
cursorOf(row) == NoCursor

(* A client that follows hasMore and nextCursor.                             *)
NextPage ==
  LET ids == Behind(walk.cursor)
      page == PageOf(ids)
      last == CHOOSE i \in page : \A j \in page : ~Before(i, j)
  IN /\ ~walk.done
     /\ walk' = [given |-> walk.given \cup page,
                 twice |-> walk.twice \/ walk.given \cap page # {},
                 done |-> page = ids,
                 cursor |-> IF page = ids THEN NoCursor ELSE cursorOf(rows[last])]
     /\ UNCHANGED <<rows, stmt>>

Next ==
  \/ \E i \in Id, at \in Stamp : insert(i, at)
  \/ \E p \in Proc, i \in Id, op \in {"update", "softDelete", "restore"} :
       Begin(p, op, i, 0)
  \/ \E p \in Proc, i \in Id, expected \in 1..MaxVersion : Begin(p, "update", i, expected)
  \/ \E p \in Proc : Execute(p)
  \/ \E i \in Id : hardDelete(i)
  \/ NextPage

Spec == Init /\ [][Next]_vars

-----------------------------------------------------------------------------
(* A soft-deleted row is out of reach of an update that read it while it was *)
(* there: only restore() and hardDelete() change it.                         *)
DeletedIsUntouched ==
  [][\A i \in Id : rows[i].st = "deleted" /\ rows'[i] # rows[i] =>
       \/ rows'[i].st = "purged"
       \/ \E p \in Proc : stmt[p] = [op |-> "restore", id |-> i] /\ stmt'[p] = Idle]_vars

(* db/repository.ts:67-68: "Keyset pagination: the cursor is the last row's  *)
(* sort value, so a page is stable even while rows are being inserted ahead  *)
(* of it."  A reader who follows the cursors is given no row twice.          *)
NoRowTwice == ~walk.twice
=============================================================================
