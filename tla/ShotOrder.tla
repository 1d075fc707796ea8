------------------------------ MODULE ShotOrder ------------------------------
(* The shots of one content project (ContentProjectService): numbered rows   *)
(* under a unique index on the number, appended, copied, moved, reordered    *)
(* and softly deleted.  The methods are synchronous and one server runs      *)
(* them, so a call is a step.                                                *)
EXTENDS Integers, Sequences, FiniteSetsExt, Functions

CONSTANTS
  Shot,         \* ids for rows
  Order,        \* lists of ids clients send to reorderShots
  Number,       \* numbers clients patch in
  MaxPosition   \* bound: shots are appended up to it

ShotAssumption == Order \subseteq Seq(Shot) /\ Number \subseteq Int /\ MaxPosition \in Nat

VARIABLES
  rows,         \* the table content_shots
  reply         \* the last call and whether it went through

vars == <<rows, reply>>

(* A deleted row keeps its number, and the index goes over deleted rows too. *)
Row == [st: {"absent", "live", "deleted"}, position: Int, locked: BOOLEAN]
AbsentRow == [st |-> "absent", position |-> 0, locked |-> FALSE]

InTable == {s \in Shot : rows[s].st # "absent"}
Live == {s \in Shot : rows[s].st = "live"}

TypeOK ==
  /\ rows \in [Shot -> Row]
  /\ reply \in [op: {"none", "add", "update", "reorder", "delete"}, ok: BOOLEAN,
                ids: Order \cup {<<>>}]

Init ==
  /\ rows = [s \in Shot |-> AbsentRow]
  /\ reply = [op |-> "none", ok |-> TRUE, ids |-> <<>>]

Reply(op, ok, ids) == reply' = [op |-> op, ok |-> ok, ids |-> ids]

(* coalesce(max(position), 0)                                                *)
Last(S) == IF S = {} THEN 0 ELSE Max({rows[s].position : s \in S})

(* Mutant of NextPosition: the maximum is taken over the shots one sees.     *)
NextVisiblePosition == Last(Live) + 1

(* The maximum is over deleted rows as well.                                 *)
NextPosition == Last(InTable) + 1

(* An insert, which the unique index may refuse.                             *)
insertShot ==
  /\ NextPosition <= MaxPosition
  /\ \E s \in Shot \ InTable :
       IF \E t \in InTable : rows[t].position = NextPosition
       THEN Reply("add", FALSE, <<>>) /\ UNCHANGED rows
       ELSE /\ rows' = [rows EXCEPT ![s] = [st |-> "live", position |-> NextPosition,
                                            locked |-> FALSE]]
            /\ Reply("add", TRUE, <<>>)

addShot == insertShot

(* The copy loses the lock and goes to the end.                              *)
duplicateShot(source) == source \in Live /\ insertShot

Patched(row, patch) ==
  [row EXCEPT !.locked = IF "locked" \in DOMAIN patch THEN patch.locked ELSE @,
              !.position = IF "position" \in DOMAIN patch THEN patch.position ELSE @]

(* The patch comes from the client as it is: lock, any number, or anything   *)
(* else, which leaves both alone.  A locked shot takes only a patch that     *)
(* unlocks.                                                                  *)
updateShot(s, patch) ==
  /\ s \in Live
  /\ rows[s].locked => "locked" \in DOMAIN patch /\ ~patch.locked
  /\ IF "position" \in DOMAIN patch
        /\ \E t \in InTable \ {s} : rows[t].position = patch.position
     THEN Reply("update", FALSE, <<>>) /\ UNCHANGED rows
     ELSE /\ rows' = [rows EXCEPT ![s] = Patched(rows[s], patch)]
          /\ Reply("update", TRUE, <<>>)

(* One UPDATE of the transaction: nothing for an id of no row, and an end to *)
(* the transaction when another row has the number.                          *)
Assign(tx, s, n) ==
  IF ~tx.ok \/ tx.table[s].st = "absent" THEN tx
  ELSE IF \E t \in InTable \ {s} : tx.table[t].position = n THEN [tx EXCEPT !.ok = FALSE]
  ELSE [tx EXCEPT !.table[s].position = n]

(* The transaction after n of its UPDATEs, the ids in their order and then   *)
(* once more: first out of the way, below zero, then to the final numbers.   *)
Transaction(ids) ==
  LET after[n \in 0..2 * Len(ids)] ==
        IF n = 0 THEN [ok |-> TRUE, table |-> rows]
        ELSE IF n <= Len(ids) THEN Assign(after[n - 1], ids[n], -n)
        ELSE Assign(after[n - 1], ids[n - Len(ids)], n - Len(ids))
  IN after

(* Mutant of Renumber: out of the way, and left there.                       *)
RenumberAside(ids) == Transaction(ids)[Len(ids)]

Renumber(ids) == Transaction(ids)[2 * Len(ids)]

reorderShots(ids) ==
  LET tx == Renumber(ids)
  IN /\ rows' = IF tx.ok THEN tx.table ELSE rows
     /\ Reply("reorder", tx.ok, ids)

deleteShot(s) ==
  /\ s \in Live
  /\ rows' = [rows EXCEPT ![s].st = "deleted"]
  /\ Reply("delete", TRUE, <<>>)

Patch == [locked: BOOLEAN] \cup [position: Number]

Next ==
  \/ addShot
  \/ \E s \in Shot : duplicateShot(s) \/ deleteShot(s)
  \/ \E s \in Shot, patch \in Patch : updateShot(s, patch)
  \/ \E ids \in Order : reorderShots(ids)

Spec == Init /\ [][Next]_vars

-----------------------------------------------------------------------------
(* A new shot, or a copy, is never refused for its number, whatever was      *)
(* deleted, moved or renumbered before.                                      *)
AppendSucceeds == reply.op = "add" => reply.ok

(* When a reorder of existing shots goes through, they come first, in the    *)
(* order they were named in, before every shot left out, seen or deleted,    *)
(* that no client has moved below one.                                       *)
ListedFirst ==
  LET ids == reply.ids
      at(s) == rows[s].position
  IN reply.op = "reorder" /\ reply.ok /\ Range(ids) \subseteq InTable =>
       /\ IsInjective(ids) =>
            \A i, j \in DOMAIN ids : i < j => at(ids[i]) < at(ids[j])
       /\ \A s \in Range(ids), t \in InTable \ Range(ids) :
            at(t) > 0 => at(s) < at(t)

(* New shots are numbered, and reordered ones stand, where they should.      *)
NumbersHold == AppendSucceeds /\ ListedFirst

(* services/studio.ts:627-631 says that reordering rewrites positions in a   *)
(* transaction built to get past the unique index.  So naming every visible  *)
(* shot once should do; but a deleted shot may hold one of the numbers.      *)
ReorderSucceeds ==
  reply.op = "reorder" /\ IsInjective(reply.ids) /\ Range(reply.ids) = Live => reply.ok
=============================================================================
