-------------------------------- MODULE Fans --------------------------------
(* services/fans.ts: fans under a unique index on their identity, with tags, *)
(* and the global relationship every fan is given.  One server runs the      *)
(* synchronous methods; create() is two statements, between which the server *)
(* may die.  Counters are in Relationships; notes, which nothing looks at,   *)
(* are left out.                                                             *)
EXTENDS FiniteSets

CONSTANTS
  Fan, NoFan,           \* ids for rows
  Identity, NoIdentity, \* what platform and externalId say together
  Tag, Source           \* tags after trim and lower case; who put them on

FansAssumption == NoFan \notin Fan /\ NoIdentity \notin Identity

VARIABLES
  fans,         \* the table fans
  related,      \* fans with a global row in relationships
  tags,         \* the table fan_tags
  creating,     \* the fan create() is about to give a relationship
  cut,          \* history: fans whose creation the server did not live to end
  reply         \* the last call and what it came to

vars == <<fans, related, tags, creating, cut, reply>>

(* A deleted row keeps its identity, and the index goes over it too.         *)
Row == [st: {"absent", "live", "deleted"}, identity: Identity \cup {NoIdentity}]
(* Under a unique index on fan and tag.                                      *)
TagRow == [fan: Fan, tag: Tag, source: Source]
Op == {"none", "create", "findOrCreate", "update", "delete"}

TypeOK ==
  /\ fans \in [Fan -> Row]
  /\ related \subseteq Fan /\ cut \subseteq Fan
  /\ tags \subseteq TagRow
  /\ creating \in Fan \cup {NoFan}
  /\ reply \in [op: Op, ok: BOOLEAN, fan: Fan \cup {NoFan}, identity: Identity \cup {NoIdentity}]

Init ==
  /\ fans = [f \in Fan |-> [st |-> "absent", identity |-> NoIdentity]]
  /\ related = {} /\ tags = {} /\ cut = {}
  /\ creating = NoFan
  /\ reply = [op |-> "none", ok |-> TRUE, fan |-> NoFan, identity |-> NoIdentity]

Free == creating = NoFan
Reply(op, ok, f, i) == reply' = [op |-> op, ok |-> ok, fan |-> f, identity |-> i]
InTable == {f \in Fan : fans[f].st # "absent"}
Holders(i) == {f \in InTable : fans[f].identity = i}

(* The index lets any number of rows without an identity in.                 *)
Refused(i, f) == i # NoIdentity /\ Holders(i) \ {f} # {}

(* The first statement of create().                                          *)
Insert(op, i) ==
  /\ InTable # Fan
  /\ IF Refused(i, NoFan)
     THEN Reply(op, FALSE, NoFan, i) /\ UNCHANGED <<fans, creating>>
     ELSE \E f \in Fan \ InTable :
            /\ fans' = [fans EXCEPT ![f] = [st |-> "live", identity |-> i]]
            /\ creating' = f
            /\ Reply(op, TRUE, f, i)

create(i) == Free /\ Insert("create", i) /\ UNCHANGED <<related, tags, cut>>

ensureRelationship ==
  /\ ~Free
  /\ related' = related \cup {creating}
  /\ creating' = NoFan
  /\ UNCHANGED <<fans, tags, cut, reply>>

Crash ==
  /\ ~Free
  /\ cut' = cut \cup {creating}
  /\ creating' = NoFan
  /\ UNCHANGED <<fans, related, tags, reply>>

(* Mutant of Found: the trash is looked through as well.                     *)
FoundAnywhere(i) == Holders(i)
Found(i) == {f \in Holders(i) : fans[f].st = "live"}

findOrCreate(i) ==
  /\ Free
  /\ IF Found(i) # {}
     THEN /\ \E f \in Found(i) : Reply("findOrCreate", TRUE, f, i)
          /\ UNCHANGED <<fans, creating>>
     ELSE Insert("findOrCreate", i)
  /\ UNCHANGED <<related, tags, cut>>

(* The patch may hold another identity.                                      *)
update(f, i) ==
  /\ Free /\ fans[f].st = "live"
  /\ fans' = IF Refused(i, f) THEN fans ELSE [fans EXCEPT ![f].identity = i]
  /\ Reply("update", ~Refused(i, f), f, i)
  /\ UNCHANGED <<related, tags, creating, cut>>

(* The relationship and the tags of a deleted fan stay.                      *)
delete(f) ==
  /\ Free /\ fans[f].st = "live"
  /\ fans' = [fans EXCEPT ![f].st = "deleted"]
  /\ Reply("delete", TRUE, f, NoIdentity)
  /\ UNCHANGED <<related, tags, creating, cut>>

(* Nobody asks whether there is such a fan; the first source stays.          *)
addTag(f, tag, source) ==
  /\ Free /\ ~\E t \in tags : t.fan = f /\ t.tag = tag
  /\ tags' = tags \cup {[fan |-> f, tag |-> tag, source |-> source]}
  /\ UNCHANGED <<fans, related, creating, cut, reply>>

removeTag(f, tag) ==
  /\ Free
  /\ tags' = {t \in tags : t.fan # f \/ t.tag # tag}
  /\ UNCHANGED <<fans, related, creating, cut, reply>>

Next ==
  \/ ensureRelationship \/ Crash
  \/ \E i \in Identity \cup {NoIdentity} :
       create(i) \/ \E f \in Fan : update(f, i)
  \/ \E i \in Identity : findOrCreate(i)
  \/ \E f \in Fan : delete(f)
  \/ \E f \in Fan, tag \in Tag :
       removeTag(f, tag) \/ \E source \in Source : addTag(f, tag, source)

Spec == Init /\ [][Next]_vars

-----------------------------------------------------------------------------
(* Whatever was created, renamed and deleted before: an answer of            *)
(* findOrCreate is a fan one can see, the only one with that identity, and   *)
(* it has its global relationship, unless the server died creating it.       *)
FoundIsTheOne ==
  LET f == reply.fan
  IN Free /\ reply.op = "findOrCreate" /\ reply.ok =>
       /\ fans[f].st = "live" /\ Holders(reply.identity) = {f}
       /\ f \in related \cup cut

(* services/fans.ts:101-102: "Find by platform identity, creating on first   *)
(* sight. This is the entry point for inbound messages and imports, and it   *)
(* is idempotent per (platform, externalId)."  A deleted fan still holds its *)
(* identity, and is not found.                                               *)
FindOrCreateSucceeds == reply.op = "findOrCreate" => reply.ok
=============================================================================
