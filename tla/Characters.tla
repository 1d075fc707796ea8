----------------------------- MODULE Characters -----------------------------
(* services/characters.ts: profiles, the locks on their fields, and the      *)
(* numbered snapshots a profile can be restored from.  One server runs the   *)
(* synchronous methods (that update() may ask for a version only makes it    *)
(* fail, see Repository); create and update write the row and then, in a     *)
(* statement of its own, the snapshot, and the server may die between the    *)
(* two.  A snapshot is the row as JSON, which turns a time into a string:    *)
(* a snapshot taken after a render of the character was collected holds a    *)
(* lastGeneratedAt that the column does not take back.                       *)
EXTENDS Naturals, Sequences, SequencesExt

CONSTANTS
  Character, NoCharacter,
  Column,       \* the guarded columns a run looks at
  Value,        \* what they can hold
  Username, NoUsername,
  MaxVersions   \* bound: snapshots of one character

(* Which lock guards which column.                                           *)
LOCK_GUARDS == [personality |-> "personality", visual |-> "style", brand |-> "brandColors"]
LockableField == {LOCK_GUARDS[col] : col \in Column}

ASSUME CharactersAssumption ==
  /\ NoCharacter \notin Character /\ NoUsername \notin Username
  /\ Column \subseteq DOMAIN LOCK_GUARDS /\ MaxVersions \in Nat

VARIABLES
  rows,         \* the table characters
  versions,     \* the table character_versions: per character, by number
  unsaved,      \* the character whose snapshot is about to be written
  cut,          \* history: characters whose latest snapshot was never written
  last          \* history: the last call and who made it

vars == <<rows, versions, unsaved, cut, last>>

Profile == [Column -> Value]
Row == [st: {"absent", "live", "deleted"}, profile: Profile, locks: SUBSET LockableField,
        username: Username \cup {NoUsername}, archived: BOOLEAN,
        generated: BOOLEAN]         \* lastGeneratedAt is set
Actor == {"user", "automation"}     \* automation stands for ai as well

TypeOK ==
  /\ rows \in [Character -> Row]
  /\ versions \in [Character -> Seq(Row)]
  /\ unsaved \in Character \cup {NoCharacter}
  /\ cut \subseteq Character
  /\ last \in [op: {"none", "create", "update", "setLock", "archive", "delete", "restore"},
               by: Actor]

Init ==
  /\ rows \in [Character -> {row \in Row : row.st = "absent" /\ row.locks = {}
                               /\ row.username = NoUsername /\ ~row.archived
                               /\ ~row.generated}]
  /\ \A c, d \in Character : rows[c] = rows[d]
  /\ versions = [c \in Character |-> <<>>]
  /\ unsaved = NoCharacter
  /\ cut = {}
  /\ last = [op |-> "none", by |-> "user"]

Live(c) == rows[c].st = "live" /\ unsaved = NoCharacter
Called(op, by) == last' = [op |-> op, by |-> by]

(* assertUsernameFree looks at live rows; the unique index at all of them,   *)
(* and it has the last word.                                                 *)
UsernameFree(c, name) ==
  name = NoUsername \/ \A d \in Character \ {c} :
                          rows[d].st = "absent" \/ rows[d].username # name

(* The write of create and update; the snapshot is still to come.            *)
Save(c, row) ==
  /\ Len(versions[c]) < MaxVersions
  /\ UsernameFree(c, row.username)
  /\ rows' = [rows EXCEPT ![c] = row]
  /\ unsaved' = c
  /\ UNCHANGED <<versions, cut>>

create(c, profile, name, by) ==
  /\ rows[c].st = "absent" /\ unsaved = NoCharacter
  /\ Save(c, [st |-> "live", profile |-> profile, locks |-> {}, username |-> name,
              archived |-> FALSE, generated |-> FALSE])
  /\ Called("create", by)

(* columns: those the patch names.  Automation may not name a locked one.    *)
LocksPermit(c, by, columns) ==
  by = "automation" => \A col \in columns : LOCK_GUARDS[col] \notin rows[c].locks

update(c, columns, profile, locks, name, by) ==
  /\ Live(c)
  /\ LocksPermit(c, by, columns)
  /\ Save(c, [rows[c] EXCEPT
       !.profile = [col \in Column |-> IF col \in columns THEN profile[col] ELSE @[col]],
       !.locks = locks, !.username = name])
  /\ Called("update", by)

(* Mutant of snapshot: what the update replaced, not what it wrote.          *)
snapshotOfLast ==
  /\ unsaved # NoCharacter
  /\ versions' = [versions EXCEPT ![unsaved] =
       Append(@, IF @ = <<>> THEN rows[unsaved] ELSE Last(@))]
  /\ unsaved' = NoCharacter
  /\ cut' = cut \ {unsaved}
  /\ UNCHANGED <<rows, last>>

(* max(versionNumber) + 1, which is the length plus one.                     *)
snapshot ==
  /\ unsaved # NoCharacter
  /\ versions' = [versions EXCEPT ![unsaved] = Append(@, rows[unsaved])]
  /\ unsaved' = NoCharacter
  /\ cut' = cut \ {unsaved}
  /\ UNCHANGED <<rows, last>>

Crash ==
  /\ unsaved # NoCharacter
  /\ cut' = cut \cup {unsaved}
  /\ unsaved' = NoCharacter
  /\ UNCHANGED <<rows, versions, last>>

(* archive, delete and setLock write the row and take no snapshot.           *)
Patch(c, row, op, by) ==
  /\ Live(c)
  /\ rows' = [rows EXCEPT ![c] = row]
  /\ Called(op, by)
  /\ cut' = IF op = "restore" THEN cut \ {c} ELSE cut
  /\ UNCHANGED <<versions, unsaved>>

archive(c, by) == Patch(c, [rows[c] EXCEPT !.archived = TRUE], "archive", by)
delete(c, by) == Patch(c, [rows[c] EXCEPT !.st = "deleted"], "delete", by)
setLock(c, field, locked, by) ==
  Patch(c, [rows[c] EXCEPT !.locks = IF locked THEN @ \cup {field} ELSE @ \ {field}],
        "setLock", by)

(* The UPDATE with which pollAndCollect ends.  It asks for the id alone.     *)
collected(c) ==
  /\ rows[c].st # "absent" /\ unsaved = NoCharacter
  /\ rows' = [rows EXCEPT ![c].generated = TRUE]
  /\ UNCHANGED <<versions, unsaved, cut, last>>

(* Everything but the row's identity comes back, the locks of then included, *)
(* and a lastGeneratedAt of null.  One that was set is a string by now, for  *)
(* which the UPDATE throws.                                                  *)
restoreVersion(c, n, by) ==
  LET old == versions[c][n]
  IN /\ UsernameFree(c, old.username)
     /\ ~old.generated
     /\ Patch(c, old, "restore", by)

Next ==
  \/ \E c \in Character, profile \in Profile, by \in Actor,
        name \in Username \cup {NoUsername} :
       \/ create(c, profile, name, by)
       \/ \E columns \in SUBSET Column, locks \in SUBSET LockableField :
            update(c, columns, profile, locks, name, by)
  \/ snapshot \/ Crash
  \/ \E c \in Character, by \in Actor :
       \/ archive(c, by) \/ delete(c, by) \/ collected(c)
       \/ \E field \in LockableField, locked \in BOOLEAN : setLock(c, field, locked, by)
       \/ \E n \in DOMAIN versions[c] : restoreVersion(c, n, by)

Spec == Init /\ [][Next]_vars

-----------------------------------------------------------------------------
(* What a profile holds is in a snapshot as well, unless the server died     *)
(* between the row and its snapshot, which costs the one write it was in.    *)
(* The snapshot can be restored as long as no render was collected for the   *)
(* character since it was created or last restored: from then on the new     *)
(* snapshots only keep the content, and restoreVersion throws on them.       *)
Keeps(old, row) == old.profile = row.profile /\ (old.generated => row.generated)

ContentIsVersioned ==
  \A c \in Character :
    rows[c].st = "absent" \/ c \in cut \cup {unsaved}
      \/ \E n \in DOMAIN versions[c] : Keeps(versions[c][n], rows[c])
=============================================================================
