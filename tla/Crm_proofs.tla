------------------------------ MODULE Crm_proofs ------------------------------
(* Theorems about the CRM of a workspace: fans and their identities, what is *)
(* remembered of them, and how they stand with the characters.  They hold    *)
(* for every number of rows, every weight of an event and every bound.       *)
EXTENDS Studio_proofs, FiniteSetTheorems

-----------------------------------------------------------------------------
(* Fans                                                                      *)

LEMMA FanMembers ==
  ASSUME NEW row \in Fanbase!Row
  PROVE  /\ row.st \in {"absent", "live", "deleted"}
         /\ row.identity \in Identity \cup {NoIdentity}
BY DEF Fanbase!Row

LEMMA FanRows ==
  /\ \A i \in Identity \cup {NoIdentity} : [st |-> "live", identity |-> i] \in Fanbase!Row
  /\ \A row \in Fanbase!Row, i \in Identity \cup {NoIdentity} :
       /\ [row EXCEPT !.identity = i] \in Fanbase!Row
       /\ [row EXCEPT !.identity = i].st = row.st
       /\ [row EXCEPT !.identity = i].identity = i
  /\ \A row \in Fanbase!Row :
       /\ [row EXCEPT !.st = "deleted"] \in Fanbase!Row
       /\ [row EXCEPT !.st = "deleted"].st = "deleted"
       /\ [row EXCEPT !.st = "deleted"].identity = row.identity
BY DEF Fanbase!Row

(* A reply has the parts it is made of.                                      *)
LEMMA FanReplies ==
  ASSUME NEW op \in Fanbase!Op, NEW ok \in BOOLEAN, NEW f \in Fan \cup {NoFan},
         NEW i \in Identity \cup {NoIdentity}, Fanbase!Reply(op, ok, f, i)
  PROVE  /\ answer' \in [op: Fanbase!Op, ok: BOOLEAN, fan: Fan \cup {NoFan},
                         identity: Identity \cup {NoIdentity}]
         /\ answer'.op = op /\ answer'.ok = ok /\ answer'.fan = f /\ answer'.identity = i
BY DEF Fanbase!Reply

(* The unique index: rows that have an identity, deleted ones too, have one  *)
(* each.                                                                     *)
OneHolder ==
  \A f, g \in Fan :
    /\ fans[f].st # "absent" /\ fans[g].st # "absent"
    /\ fans[f].identity = fans[g].identity /\ fans[f].identity # NoIdentity
    => f = g

(* Every fan has its relationship, is about to get it, or was cut short.     *)
Introduced == \A f \in Fan : fans[f].st # "absent" => f \in related \cup unfinished \cup {creating}

(* What findOrCreate has answered, until the next call that answers.         *)
Answered ==
  answer.op = "findOrCreate" /\ answer.ok =>
    /\ answer.fan \in Fan /\ answer.identity \in Identity
    /\ fans[answer.fan].st = "live" /\ fans[answer.fan].identity = answer.identity

FanInv == Fanbase!TypeOK /\ OneHolder /\ Introduced /\ Answered

LEMMA FanInit == Fanbase!Init => FanInv
<1> SUFFICES ASSUME Fanbase!Init PROVE FanInv
  OBVIOUS
<1>1. fans = [f \in Fan |-> [st |-> "absent", identity |-> NoIdentity]]
  BY DEF Fanbase!Init
<1>2. fans \in [Fan -> Fanbase!Row] /\ \A f \in Fan : fans[f].st = "absent"
  BY <1>1 DEF Fanbase!Row
<1>3. /\ answer \in [op: Fanbase!Op, ok: BOOLEAN, fan: Fan \cup {NoFan},
                     identity: Identity \cup {NoIdentity}]
      /\ answer.op = "none"
  BY DEF Fanbase!Init, Fanbase!Op
<1>4. related = {} /\ tags = {} /\ unfinished = {} /\ creating = NoFan
  BY DEF Fanbase!Init
<1>5. Fanbase!TypeOK
  BY <1>2, <1>3, <1>4 DEF Fanbase!TypeOK
<1> QED BY <1>2, <1>3, <1>5 DEF FanInv, OneHolder, Introduced, Answered

LEMMA NoRowIsNoFan == NoFan \notin Fan /\ NoIdentity \notin Identity
BY WorkspaceAssumption DEF Fanbase!FansAssumption

(* An insert, whoever asks for it.                                           *)
LEMMA FanInsert ==
  ASSUME FanInv, NEW op \in {"create", "findOrCreate"},
         NEW i \in Identity \cup {NoIdentity}, op = "findOrCreate" => i \in Identity,
         creating = NoFan, Fanbase!Insert(op, i), UNCHANGED <<related, tags, unfinished>>
  PROVE  FanInv'
<1> USE DEF FanInv
<1>0. op \in Fanbase!Op /\ NoFan \in Fan \cup {NoFan} /\ TRUE \in BOOLEAN /\ FALSE \in BOOLEAN
  BY DEF Fanbase!Op
<1>1. CASE Fanbase!Refused(i, NoFan)
  <2>1. Fanbase!Reply(op, FALSE, NoFan, i) /\ UNCHANGED <<fans, creating>>
    BY <1>1 DEF Fanbase!Insert
  <2>2. /\ answer' \in [op: Fanbase!Op, ok: BOOLEAN, fan: Fan \cup {NoFan},
                        identity: Identity \cup {NoIdentity}]
        /\ answer'.ok = FALSE
    BY <1>0, <2>1, FanReplies
  <2>3. Fanbase!TypeOK'
    BY <2>1, <2>2 DEF Fanbase!TypeOK
  <2> QED BY <2>1, <2>2, <2>3 DEF OneHolder, Introduced, Answered
<1>2. CASE ~Fanbase!Refused(i, NoFan)
  <2>1. PICK f \in Fan \ Fanbase!InTable :
               /\ fans' = [fans EXCEPT ![f] = [st |-> "live", identity |-> i]]
               /\ creating' = f
               /\ Fanbase!Reply(op, TRUE, f, i)
    BY <1>2 DEF Fanbase!Insert
  <2>2. /\ fans \in [Fan -> Fanbase!Row] /\ fans' \in [Fan -> Fanbase!Row]
        /\ fans'[f].st = "live" /\ fans'[f].identity = i /\ fans[f].st = "absent"
        /\ \A g \in Fan : g # f => fans'[g] = fans[g]
    BY <2>1, FanRows DEF Fanbase!TypeOK, Fanbase!InTable
  <2>3. /\ answer' \in [op: Fanbase!Op, ok: BOOLEAN, fan: Fan \cup {NoFan},
                        identity: Identity \cup {NoIdentity}]
        /\ answer'.op = op /\ answer'.fan = f /\ answer'.identity = i
    BY <1>0, <2>1, FanReplies
  <2>4. Fanbase!TypeOK'
    BY <2>1, <2>2, <2>3 DEF Fanbase!TypeOK
  <2>5. i # NoIdentity => \A g \in Fan : fans[g].st # "absent" => fans[g].identity # i
    BY <1>2, NoRowIsNoFan DEF Fanbase!Refused, Fanbase!Holders, Fanbase!InTable
  <2>6. OneHolder'
    BY <2>2, <2>5 DEF OneHolder
  <2>7. Introduced'
    BY <2>1, <2>2, NoRowIsNoFan DEF Introduced
  <2>8. Answered'
    BY <2>2, <2>3 DEF Answered
  <2> QED BY <2>4, <2>6, <2>7, <2>8
<1> QED BY <1>1, <1>2

LEMMA FanStep == FanInv /\ [Fanbase!Next]_fanVars => FanInv'
<1> SUFFICES ASSUME FanInv, [Fanbase!Next]_fanVars PROVE FanInv'
  OBVIOUS
<1> USE DEF FanInv
<1>0. /\ fans \in [Fan -> Fanbase!Row]
      /\ \A f \in Fan : fans[f] \in Fanbase!Row
  BY DEF Fanbase!TypeOK
<1>1. CASE Fanbase!ensureRelationship
  <2>1. /\ creating \in Fan /\ related' = related \cup {creating} /\ creating' = NoFan
        /\ UNCHANGED <<fans, tags, unfinished, answer>>
    BY <1>1 DEF Fanbase!ensureRelationship, Fanbase!Free, Fanbase!TypeOK
  <2> QED BY <2>1 DEF Fanbase!TypeOK, OneHolder, Introduced, Answered
<1>2. CASE Fanbase!Crash
  <2>1. /\ creating \in Fan /\ unfinished' = unfinished \cup {creating} /\ creating' = NoFan
        /\ UNCHANGED <<fans, related, tags, answer>>
    BY <1>2 DEF Fanbase!Crash, Fanbase!Free, Fanbase!TypeOK
  <2> QED BY <2>1 DEF Fanbase!TypeOK, OneHolder, Introduced, Answered
<1>3. ASSUME NEW i \in Identity \cup {NoIdentity}, Fanbase!create(i) PROVE FanInv'
  BY <1>3, FanInsert DEF Fanbase!create, Fanbase!Free
<1>4. ASSUME NEW i \in Identity, Fanbase!findOrCreate(i) PROVE FanInv'
  <2>0. creating = NoFan /\ UNCHANGED <<related, tags, unfinished>>
    BY <1>4 DEF Fanbase!findOrCreate, Fanbase!Free
  <2>1. CASE Fanbase!Found(i) # {}
    <3>1. PICK f \in Fanbase!Found(i) : Fanbase!Reply("findOrCreate", TRUE, f, i)
      BY <1>4, <2>1 DEF Fanbase!findOrCreate
    <3>2. f \in Fan /\ fans[f].st = "live" /\ fans[f].identity = i
      BY DEF Fanbase!Found, Fanbase!Holders, Fanbase!InTable
    <3>3. UNCHANGED <<fans, creating>>
      BY <1>4, <2>1 DEF Fanbase!findOrCreate
    <3>4. /\ answer' \in [op: Fanbase!Op, ok: BOOLEAN, fan: Fan \cup {NoFan},
                          identity: Identity \cup {NoIdentity}]
          /\ answer'.fan = f /\ answer'.identity = i
      BY <3>1, <3>2, FanReplies DEF Fanbase!Op
    <3>5. Fanbase!TypeOK'
      BY <2>0, <3>3, <3>4 DEF Fanbase!TypeOK
    <3> QED BY <2>0, <3>2, <3>3, <3>4, <3>5 DEF OneHolder, Introduced, Answered
  <2>2. CASE Fanbase!Found(i) = {}
    <3>1. Fanbase!Insert("findOrCreate", i)
      BY <1>4, <2>2 DEF Fanbase!findOrCreate
    <3> QED BY <2>0, <3>1, FanInsert
  <2> QED BY <2>1, <2>2
<1>5. ASSUME NEW f \in Fan, NEW i \in Identity \cup {NoIdentity}, Fanbase!update(f, i)
      PROVE  FanInv'
  <2>1. /\ fans[f].st = "live" /\ UNCHANGED <<related, tags, creating, unfinished>>
        /\ fans' = IF Fanbase!Refused(i, f) THEN fans ELSE [fans EXCEPT ![f].identity = i]
        /\ Fanbase!Reply("update", ~Fanbase!Refused(i, f), f, i)
    BY <1>5 DEF Fanbase!update
  <2>2. /\ answer' \in [op: Fanbase!Op, ok: BOOLEAN, fan: Fan \cup {NoFan},
                        identity: Identity \cup {NoIdentity}]
        /\ answer'.op = "update"
    BY <2>1, FanReplies DEF Fanbase!Op, Fanbase!Refused
  <2>3. CASE Fanbase!Refused(i, f)
    <3>1. fans' = fans
      BY <2>1, <2>3
    <3>2. Fanbase!TypeOK'
      BY <2>1, <2>2, <3>1 DEF Fanbase!TypeOK
    <3>3. OneHolder' /\ Introduced'
      BY <2>1, <3>1 DEF OneHolder, Introduced
    <3>4. Answered'
      BY <2>2 DEF Answered
    <3> QED BY <3>2, <3>3, <3>4
  <2>4. CASE ~Fanbase!Refused(i, f)
    <3>1. fans' = [fans EXCEPT ![f] = [fans[f] EXCEPT !.identity = i]]
      BY <2>1, <2>4
    <3>2. /\ fans' \in [Fan -> Fanbase!Row] /\ fans'[f].st = "live" /\ fans'[f].identity = i
          /\ \A g \in Fan : g # f => fans'[g] = fans[g]
      <4>1. /\ [fans[f] EXCEPT !.identity = i] \in Fanbase!Row
            /\ [fans[f] EXCEPT !.identity = i].st = fans[f].st
            /\ [fans[f] EXCEPT !.identity = i].identity = i
        BY <1>0, FanRows
      <4>2. fans'[f] = [fans[f] EXCEPT !.identity = i] /\ fans' \in [Fan -> Fanbase!Row]
        BY <1>0, <3>1, <4>1
      <4> QED BY <1>0, <2>1, <3>1, <4>1, <4>2
    <3>3. Fanbase!TypeOK'
      BY <2>1, <2>2, <3>2 DEF Fanbase!TypeOK
    <3>4. i # NoIdentity =>
            \A g \in Fan : g # f /\ fans[g].st # "absent" => fans[g].identity # i
      BY <2>4 DEF Fanbase!Refused, Fanbase!Holders, Fanbase!InTable
    <3>5. OneHolder'
      BY <3>2, <3>4 DEF OneHolder
    <3>6. Introduced' /\ Answered'
      BY <2>1, <2>2, <3>2 DEF Introduced, Answered
    <3> QED BY <3>3, <3>5, <3>6
  <2> QED BY <2>3, <2>4
<1>6. ASSUME NEW f \in Fan, Fanbase!delete(f) PROVE FanInv'
  <2>1. /\ fans[f].st = "live" /\ UNCHANGED <<related, tags, creating, unfinished>>
        /\ fans' = [fans EXCEPT ![f] = [fans[f] EXCEPT !.st = "deleted"]]
        /\ Fanbase!Reply("delete", TRUE, f, NoIdentity)
    BY <1>6 DEF Fanbase!delete
  <2>2. /\ answer' \in [op: Fanbase!Op, ok: BOOLEAN, fan: Fan \cup {NoFan},
                        identity: Identity \cup {NoIdentity}]
        /\ answer'.op = "delete"
    BY <2>1, FanReplies DEF Fanbase!Op
  <2>3. /\ fans' \in [Fan -> Fanbase!Row]
        /\ fans'[f].st = "deleted" /\ fans'[f].identity = fans[f].identity
        /\ \A g \in Fan : g # f => fans'[g] = fans[g]
    BY <1>0, <2>1, FanRows
  <2>4. Fanbase!TypeOK'
    BY <2>1, <2>2, <2>3 DEF Fanbase!TypeOK
  <2>5. OneHolder'
    BY <2>1, <2>3 DEF OneHolder
  <2>6. Introduced' /\ Answered'
    BY <2>1, <2>2, <2>3 DEF Introduced, Answered
  <2> QED BY <2>4, <2>5, <2>6
<1>7. ASSUME tags' \subseteq Fanbase!TagRow,
             UNCHANGED <<fans, related, creating, unfinished, answer>>
      PROVE  FanInv'
  BY <1>7 DEF Fanbase!TypeOK, OneHolder, Introduced, Answered
<1>8. ASSUME NEW f \in Fan, NEW t \in Tag, NEW source \in Source,
             Fanbase!addTag(f, t, source)
      PROVE  FanInv'
  <2>1. [fan |-> f, tag |-> t, source |-> source] \in Fanbase!TagRow
    BY DEF Fanbase!TagRow
  <2> QED BY <1>7, <1>8, <2>1 DEF Fanbase!addTag, Fanbase!TypeOK
<1>9. ASSUME NEW f \in Fan, NEW t \in Tag, Fanbase!removeTag(f, t) PROVE FanInv'
  BY <1>7, <1>9 DEF Fanbase!removeTag, Fanbase!TypeOK
<1>10. CASE UNCHANGED fanVars
  BY <1>10 DEF fanVars, Fanbase!TypeOK, OneHolder, Introduced, Answered
<1> QED BY <1>1, <1>2, <1>3, <1>4, <1>5, <1>6, <1>8, <1>9, <1>10 DEF Fanbase!Next, fanVars

LEMMA FanTyping == AllSpec => []FanInv
BY FanInit, FanStep, Steps, PTL DEF AllSpec, AllInit

(* findOrCreate answers with the one holder of the identity, which is to be  *)
(* seen and has its relationship, whatever was renamed and deleted.          *)
THEOREM Found == AllSpec => []FoundIsTheOne
<1>1. FanInv => FoundIsTheOne
  <2> SUFFICES ASSUME FanInv, creating = NoFan, answer.op = "findOrCreate", answer.ok
               PROVE  /\ fans[answer.fan].st = "live"
                      /\ Fanbase!Holders(answer.identity) = {answer.fan}
                      /\ answer.fan \in related \cup unfinished
    BY DEF FoundIsTheOne, Fanbase!FoundIsTheOne, Fanbase!Free
  <2>1. /\ answer.fan \in Fan /\ answer.identity \in Identity
        /\ fans[answer.fan].st = "live" /\ fans[answer.fan].identity = answer.identity
    BY DEF FanInv, Answered
  <2>2. NoFan \notin Fan /\ NoIdentity \notin Identity
    BY NoRowIsNoFan
  <2>3. answer.fan \in related \cup unfinished
    BY <2>1, <2>2 DEF FanInv, Introduced
  <2>4. Fanbase!Holders(answer.identity) = {answer.fan}
    BY <2>1, <2>2 DEF FanInv, OneHolder, Fanbase!Holders, Fanbase!InTable
  <2> QED BY <2>1, <2>3, <2>4
<1> QED BY <1>1, FanTyping, PTL

-----------------------------------------------------------------------------
(* Memory                                                                    *)

LEMMA MemoryConstants == NoMem \notin Mem /\ MaxAge \in Nat
BY WorkspaceAssumption DEF Memories!MemoryAssumption

LEMMA LiveRows ==
  ASSUME NEW row \in Memories!Row \cup Memories!Gone \cup {Memories!NoRow}
  PROVE  /\ row.st \in {"absent", "live", "deleted"}
         /\ row.st = "live" => row \in Memories!Row
         /\ row.st = "deleted" => row.into \in Mem \cup {NoMem}
         /\ row = Memories!NoRow => row.st = "absent"
BY DEF Memories!Row, Memories!Gone, Memories!NoRow

LEMMA GoneRows ==
  ASSUME NEW m \in Mem \cup {NoMem}
  PROVE  /\ Memories!Deleted(m) \in Memories!Gone
         /\ Memories!Deleted(m).st = "deleted" /\ Memories!Deleted(m).into = m
BY DEF Memories!Deleted, Memories!Gone

(* What a patch of a memory may do: it stays, of the same fact and scope.    *)
Kept(row, new) ==
  /\ new \in Memories!Row /\ new.st = "live"
  /\ new.key = row.key /\ new.scope = row.scope

LEMMA MemoryPatches ==
  ASSUME NEW row \in Memories!Row, NEW b \in BOOLEAN, NEW c \in BOOLEAN,
         NEW time \in 0..MaxAge
  PROVE  /\ Kept(row, [row EXCEPT !.sure = b, !.updated = time])
         /\ Kept(row, [row EXCEPT !.sure = b, !.pinned = c, !.updated = time])
         /\ Kept(row, [row EXCEPT !.suppressed = b, !.updated = time])
         /\ Kept(row, [row EXCEPT !.wasUsed = b])
         /\ row.sure \in BOOLEAN
BY DEF Memories!Row, Kept

(* What a merge has before it: the target is still there, and not a source.  *)
MergeAhead ==
  merging.on =>
    /\ merging.target \in Mem /\ mems[merging.target].st = "live"
    /\ merging.target \notin merging.sources
    /\ \A m \in merging.sources : mems[m].st = "live"

MemoryInv ==
  /\ Memories!TypeOK /\ MergeAhead
  /\ Memories!OneRowPerFact /\ Memories!MergesLead

LEMMA MemoryInit == Memories!Init => MemoryInv
<1> SUFFICES ASSUME Memories!Init PROVE MemoryInv
  OBVIOUS
<1>1. mems = [m \in Mem |-> Memories!NoRow] /\ merging = Memories!NoMerge /\ clock = 0
  BY DEF Memories!Init
<1>2. \A m \in Mem : mems[m].st = "absent"
  BY <1>1 DEF Memories!NoRow
<1>3. /\ merging \in [on: BOOLEAN, target: Mem \cup {NoMem}, sources: SUBSET Mem,
                      sure: BOOLEAN]
      /\ ~merging.on
  BY <1>1 DEF Memories!NoMerge
<1>4. Memories!TypeOK
  BY <1>1, <1>3, MemoryConstants DEF Memories!TypeOK
<1>5. Memories!OneRowPerFact
  BY <1>2 DEF Memories!OneRowPerFact, Memories!Live
<1>6. Memories!MergesLead
  BY <1>2, MemoryConstants DEF Memories!MergesLead, Memories!Into
<1> QED BY <1>3, <1>4, <1>5, <1>6 DEF MemoryInv, MergeAhead

(* Rows that are patched, all of them the ones they were.                    *)
LEMMA MemoryKept ==
  ASSUME MemoryInv, mems' \in [Mem -> Memories!Row \cup Memories!Gone \cup {Memories!NoRow}],
         UNCHANGED <<merging, clock>>,
         \A m \in Mem : mems'[m] = mems[m] \/ (Memories!Live(m) /\ Kept(mems[m], mems'[m]))
  PROVE  MemoryInv'
<1> USE DEF MemoryInv
<1>1. \A m \in Mem :
        /\ mems'[m].st = mems[m].st
        /\ mems[m].st = "live" => mems'[m].key = mems[m].key /\ mems'[m].scope = mems[m].scope
        /\ mems[m].st = "deleted" => mems'[m] = mems[m]
  BY DEF Kept, Memories!Live
<1>2. Memories!TypeOK' /\ MergeAhead'
  BY <1>1 DEF Memories!TypeOK, MergeAhead
<1>3. Memories!OneRowPerFact'
  BY <1>1 DEF Memories!OneRowPerFact, Memories!Live
<1>4. \A m \in Mem : Memories!Into(m)' = Memories!Into(m)
  BY <1>1 DEF Memories!Into
<1>5. Memories!MergesLead'
  BY <1>4 DEF Memories!MergesLead
<1> QED BY <1>2, <1>3, <1>5

(* Rows that go, into nothing.                                               *)
LEMMA MemoryGone ==
  ASSUME MemoryInv, Memories!Free, UNCHANGED <<merging, clock>>, NEW gone \in SUBSET Mem,
         mems' = [m \in Mem |-> IF m \in gone THEN Memories!Deleted(NoMem) ELSE mems[m]]
  PROVE  MemoryInv'
<1> USE DEF MemoryInv
<1>1. \A m \in Mem : mems'[m] = IF m \in gone THEN Memories!Deleted(NoMem) ELSE mems[m]
  OBVIOUS
<1>2. mems' \in [Mem -> Memories!Row \cup Memories!Gone \cup {Memories!NoRow}]
  BY GoneRows DEF Memories!TypeOK
<1>3. Memories!TypeOK' /\ MergeAhead'
  BY <1>2 DEF Memories!TypeOK, MergeAhead, Memories!Free
<1>4. Memories!OneRowPerFact'
  BY <1>1, GoneRows DEF Memories!OneRowPerFact, Memories!Live
<1>5. \A m \in Mem : Memories!Into(m)' = IF m \in gone THEN NoMem ELSE Memories!Into(m)
  BY <1>1, GoneRows DEF Memories!Into
<1>6. Memories!MergesLead'
  <2> SUFFICES ASSUME NEW chain \in SUBSET Mem, chain # {}
               PROVE  \E m \in chain : Memories!Into(m)' \notin chain
    BY DEF Memories!MergesLead
  <2>1. CASE chain \cap gone # {}
    BY <1>5, <2>1, MemoryConstants
  <2>2. CASE chain \cap gone = {}
    BY <1>5, <2>2 DEF Memories!MergesLead
  <2> QED BY <2>1, <2>2
<1> QED BY <1>3, <1>4, <1>6

LEMMA MemoryStep == MemoryInv /\ [Memories!Next]_memoryVars => MemoryInv'
<1> SUFFICES ASSUME MemoryInv, [Memories!Next]_memoryVars PROVE MemoryInv'
  OBVIOUS
<1> USE DEF MemoryInv
<1>0. /\ mems \in [Mem -> Memories!Row \cup Memories!Gone \cup {Memories!NoRow}]
      /\ \A m \in Mem : mems[m].st = "live" => mems[m] \in Memories!Row
      /\ clock \in 0..MaxAge
  BY LiveRows DEF Memories!TypeOK
<1>p. ASSUME NEW m \in Mem, NEW new, Memories!Live(m), Kept(mems[m], new),
             Memories!Put(m, new), Memories!Idle
      PROVE  MemoryInv'
  <2>1. mems' = [mems EXCEPT ![m] = new] /\ new \in Memories!Row
    BY <1>p DEF Memories!Put, Kept
  <2>2. mems' \in [Mem -> Memories!Row \cup Memories!Gone \cup {Memories!NoRow}]
    BY <1>0, <2>1
  <2> QED BY <1>0, <1>p, <2>1, <2>2, MemoryKept DEF Memories!Idle
<1>1. ASSUME NEW key \in Fact \cup {NoFact}, NEW scope \in MemScope, NEW sure \in BOOLEAN,
             NEW pinned \in BOOLEAN, NEW expires \in Expiry,
             Memories!create(key, scope, sure, pinned, expires)
      PROVE  MemoryInv'
  <2>1. CASE key # NoFact /\ Memories!Same(key, scope) # {}
    <3>0. PICK m \in Memories!Same(key, scope) : \E surer \in {mems[m].sure, TRUE} :
            Memories!Put(m, [mems[m] EXCEPT !.sure = surer, !.updated = clock])
      BY <1>1, <2>1 DEF Memories!create
    <3>1. PICK surer \in {mems[m].sure, TRUE} :
            Memories!Put(m, [mems[m] EXCEPT !.sure = surer, !.updated = clock])
      BY <3>0
    <3>2. m \in Mem /\ Memories!Live(m) /\ mems[m] \in Memories!Row
      BY <1>0 DEF Memories!Same, Memories!Live
    <3>3. surer \in BOOLEAN
      BY <1>0, <3>2, MemoryPatches
    <3>4. Kept(mems[m], [mems[m] EXCEPT !.sure = surer, !.updated = clock])
      BY <1>0, <3>2, <3>3, MemoryPatches
    <3> QED BY <1>1, <1>p, <3>1, <3>2, <3>4 DEF Memories!create
  <2>2. CASE key = NoFact \/ Memories!Same(key, scope) = {}
    <3> DEFINE new == [st |-> "live", key |-> key, scope |-> scope, sure |-> sure,
                       pinned |-> pinned, suppressed |-> FALSE,
                       expires |-> expires, updated |-> clock, wasUsed |-> FALSE]
    <3>1. PICK m \in Mem : mems[m] = Memories!NoRow /\ Memories!Put(m, new)
      BY <1>1, <2>2 DEF Memories!create
    <3>2. new \in Memories!Row /\ new.st = "live" /\ new.key = key /\ new.scope = scope
      BY <1>0 DEF Memories!Row
    <3>3. UNCHANGED <<merging, clock>> /\ Memories!Free
      BY <1>1 DEF Memories!create, Memories!Idle
    <3> HIDE DEF new
    <3>4. /\ mems' \in [Mem -> Memories!Row \cup Memories!Gone \cup {Memories!NoRow}]
          /\ mems'[m] = new /\ \A n \in Mem : n # m => mems'[n] = mems[n]
      BY <1>0, <3>1, <3>2 DEF Memories!Put
    <3>5. mems[m].st = "absent"
      BY <3>1 DEF Memories!NoRow
    <3>6. Memories!TypeOK' /\ MergeAhead'
      BY <3>3, <3>4 DEF Memories!TypeOK, MergeAhead, Memories!Free
    <3>7. Memories!OneRowPerFact'
      BY <2>2, <3>2, <3>4 DEF Memories!OneRowPerFact, Memories!Live, Memories!Same
    <3>8. \A n \in Mem : Memories!Into(n)' = Memories!Into(n)
      BY <3>2, <3>4, <3>5 DEF Memories!Into
    <3>9. Memories!MergesLead'
      BY <3>8 DEF Memories!MergesLead
    <3> QED BY <3>6, <3>7, <3>9
  <2> QED BY <2>1, <2>2
<1>2. ASSUME NEW m \in Mem, NEW b \in BOOLEAN, NEW c \in BOOLEAN, Memories!update(m, b, c)
      PROVE  MemoryInv'
  BY <1>0, <1>2, <1>p, MemoryPatches DEF Memories!update, Memories!Live
<1>3. ASSUME NEW m \in Mem, NEW b \in BOOLEAN, Memories!suppress(m, b) PROVE MemoryInv'
  BY <1>0, <1>3, <1>p, MemoryPatches DEF Memories!suppress, Memories!Live
<1>4. ASSUME NEW m \in Mem, Memories!delete(m) PROVE MemoryInv'
  <2>1. /\ Memories!Free /\ UNCHANGED <<merging, clock>>
        /\ mems' = [mems EXCEPT ![m] = Memories!Deleted(NoMem)]
    BY <1>4 DEF Memories!delete, Memories!Put, Memories!Idle
  <2>2. mems' = [n \in Mem |-> IF n \in {m} THEN Memories!Deleted(NoMem) ELSE mems[n]]
    BY <1>0, <2>1
  <2> QED BY <2>1, <2>2, MemoryGone
<1>5. ASSUME NEW m \in Mem, Memories!MergeSource(m) PROVE MemoryInv'
  <2>1. /\ merging.on /\ m \in merging.sources
        /\ mems' = [mems EXCEPT ![m] = Memories!Deleted(merging.target)]
        /\ merging' = [merging EXCEPT !.sources = @ \ {m}, !.sure = @ \/ mems[m].sure]
        /\ clock' = clock
    BY <1>5 DEF Memories!MergeSource, Memories!Put
  <2>2. /\ merging.target \in Mem /\ mems[merging.target].st = "live" /\ m # merging.target
        /\ \A n \in merging.sources : mems[n].st = "live"
        /\ merging.target \notin merging.sources
    BY <2>1 DEF MergeAhead
  <2>3. /\ mems' \in [Mem -> Memories!Row \cup Memories!Gone \cup {Memories!NoRow}]
        /\ mems'[m].st = "deleted" /\ mems'[m].into = merging.target
        /\ \A n \in Mem : n # m => mems'[n] = mems[n]
    BY <1>0, <2>1, <2>2, GoneRows
  <2>4. /\ merging' \in [on: BOOLEAN, target: Mem \cup {NoMem}, sources: SUBSET Mem,
                         sure: BOOLEAN]
        /\ merging'.on = merging.on /\ merging'.target = merging.target
        /\ merging'.sources = merging.sources \ {m}
    <3>1. mems[m].sure \in BOOLEAN
      BY <1>0, <2>1, <2>2, MemoryPatches
    <3> QED BY <2>1, <3>1 DEF Memories!TypeOK
  <2>5. Memories!TypeOK'
    BY <2>1, <2>3, <2>4 DEF Memories!TypeOK
  <2>6. MergeAhead'
    BY <2>2, <2>3, <2>4 DEF MergeAhead, Memories!TypeOK
  <2>7. Memories!OneRowPerFact'
    BY <2>3 DEF Memories!OneRowPerFact, Memories!Live
  <2>8. /\ Memories!Into(m)' = merging.target
        /\ \A n \in Mem : n = merging.target => Memories!Into(n)' = NoMem
        /\ \A n \in Mem : n # m => Memories!Into(n)' = Memories!Into(n)
    BY <2>2, <2>3 DEF Memories!Into
  <2>9. Memories!MergesLead'
    <3> SUFFICES ASSUME NEW chain \in SUBSET Mem, chain # {}
                 PROVE  \E n \in chain : Memories!Into(n)' \notin chain
      BY DEF Memories!MergesLead
    <3>1. CASE merging.target \in chain
      BY <2>8, <3>1, MemoryConstants
    <3>2. CASE merging.target \notin chain /\ m \in chain
      BY <2>8, <3>2
    <3>3. CASE m \notin chain
      BY <2>8, <3>3 DEF Memories!MergesLead
    <3> QED BY <3>1, <3>2, <3>3
  <2> QED BY <2>5, <2>6, <2>7, <2>9
<1>6. ASSUME NEW m \in Mem, NEW ids \in SUBSET Mem, Memories!merge(m, ids) PROVE MemoryInv'
  <2>1. /\ mems[m].st = "live" /\ UNCHANGED <<mems, clock>>
        /\ merging' = [on |-> TRUE, target |-> m, sources |-> Memories!Others(m, ids),
                       sure |-> mems[m].sure]
    BY <1>6 DEF Memories!merge, Memories!Live
  <2>2. /\ Memories!Others(m, ids) \in SUBSET Mem /\ m \notin Memories!Others(m, ids)
        /\ \A n \in Memories!Others(m, ids) : mems[n].st = "live"
    BY DEF Memories!Others, Memories!Live
  <2>3. mems[m].sure \in BOOLEAN
    BY <1>0, <2>1, MemoryPatches
  <2>4. /\ merging' \in [on: BOOLEAN, target: Mem \cup {NoMem}, sources: SUBSET Mem,
                         sure: BOOLEAN]
        /\ merging'.target = m /\ merging'.sources = Memories!Others(m, ids)
    BY <2>1, <2>2, <2>3
  <2>5. Memories!TypeOK' /\ MergeAhead'
    BY <2>1, <2>2, <2>4 DEF Memories!TypeOK, MergeAhead
  <2>6. Memories!OneRowPerFact' /\ Memories!MergesLead'
    BY <2>1 DEF Memories!OneRowPerFact, Memories!MergesLead, Memories!Live, Memories!Into
  <2> QED BY <2>5, <2>6
<1>n. /\ Memories!NoMerge \in [on: BOOLEAN, target: Mem \cup {NoMem}, sources: SUBSET Mem,
                               sure: BOOLEAN]
      /\ ~Memories!NoMerge.on
  BY DEF Memories!NoMerge
<1>7. CASE Memories!Crash
  <2>1. merging' = Memories!NoMerge /\ UNCHANGED <<mems, clock>>
    BY <1>7 DEF Memories!Crash
  <2>2. Memories!TypeOK' /\ MergeAhead'
    BY <1>n, <2>1 DEF Memories!TypeOK, MergeAhead
  <2>3. Memories!OneRowPerFact' /\ Memories!MergesLead'
    BY <2>1 DEF Memories!OneRowPerFact, Memories!MergesLead, Memories!Live, Memories!Into
  <2> QED BY <2>2, <2>3
<1>8. CASE Memories!EndMerge
  <2>1. PICK sure \in {merging.sure, TRUE} :
          Memories!Put(merging.target,
                       [mems[merging.target] EXCEPT !.sure = sure, !.updated = clock])
    BY <1>8 DEF Memories!EndMerge
  <2>2. /\ merging.target \in Mem /\ mems[merging.target].st = "live"
        /\ merging' = Memories!NoMerge /\ clock' = clock
    BY <1>8 DEF Memories!EndMerge, MergeAhead
  <2>3. sure \in BOOLEAN
    BY DEF Memories!TypeOK
  <2> DEFINE new == [mems[merging.target] EXCEPT !.sure = sure, !.updated = clock]
  <2>4. Kept(mems[merging.target], new)
    BY <1>0, <2>2, <2>3, MemoryPatches
  <2>5. mems' = [mems EXCEPT ![merging.target] = new] /\ new \in Memories!Row
    BY <2>1, <2>4 DEF Memories!Put, Kept
  <2> HIDE DEF new
  <2>6. /\ mems' \in [Mem -> Memories!Row \cup Memories!Gone \cup {Memories!NoRow}]
        /\ mems'[merging.target] = new
        /\ \A m \in Mem : m # merging.target => mems'[m] = mems[m]
    BY <1>0, <2>2, <2>5
  <2>7. Memories!TypeOK' /\ MergeAhead'
    BY <1>n, <2>2, <2>6 DEF Memories!TypeOK, MergeAhead
  <2>8. Memories!OneRowPerFact'
    BY <2>2, <2>4, <2>6 DEF Memories!OneRowPerFact, Memories!Live, Kept
  <2>9. \A m \in Mem : Memories!Into(m)' = Memories!Into(m)
    BY <2>2, <2>4, <2>6 DEF Memories!Into, Kept
  <2>10. Memories!MergesLead'
    BY <2>9 DEF Memories!MergesLead
  <2> QED BY <2>7, <2>8, <2>10
<1>9. CASE Memories!Tick
  <2>1. clock' \in 0..MaxAge /\ UNCHANGED <<mems, merging>>
    BY <1>0, <1>9, MemoryConstants DEF Memories!Tick
  <2> QED BY <2>1 DEF Memories!TypeOK, MergeAhead, Memories!OneRowPerFact,
         Memories!MergesLead, Memories!Live, Memories!Into
<1>10. ASSUME NEW scope \in MemScope, Memories!retrieve(scope) PROVE MemoryInv'
  <2>1. PICK chosen \in SUBSET Memories!Retrievable(scope) :
          mems' = [m \in Mem |-> IF m \in chosen THEN [mems[m] EXCEPT !.wasUsed = TRUE]
                                 ELSE mems[m]]
    BY <1>10 DEF Memories!retrieve
  <2>2. UNCHANGED <<merging, clock>>
    BY <1>10 DEF Memories!retrieve, Memories!Idle
  <2>3. \A m \in chosen : m \in Mem /\ Memories!Live(m) /\ mems[m] \in Memories!Row
    BY <1>0 DEF Memories!Retrievable, Memories!Live
  <2>4. \A m \in chosen : Kept(mems[m], [mems[m] EXCEPT !.wasUsed = TRUE])
    BY <1>0, <2>3, MemoryPatches
  <2>5. \A m \in Mem : mems'[m] = mems[m] \/ (Memories!Live(m) /\ Kept(mems[m], mems'[m]))
    BY <2>1, <2>3, <2>4
  <2>6. mems' \in [Mem -> Memories!Row \cup Memories!Gone \cup {Memories!NoRow}]
    <3>1. \A m \in Mem : mems'[m] \in Memories!Row \cup Memories!Gone \cup {Memories!NoRow}
      BY <1>0, <2>5 DEF Kept
    <3>2. mems' = [m \in Mem |-> mems'[m]]
      BY <2>1
    <3> QED BY <3>1, <3>2
  <2> QED BY <2>2, <2>5, <2>6, MemoryKept
<1>11. ASSUME NEW olderThan, Memories!prune(olderThan) PROVE MemoryInv'
  <2>1. /\ Memories!Free /\ UNCHANGED <<merging, clock>>
        /\ Memories!Prunable(olderThan) \in SUBSET Mem
        /\ mems' = [m \in Mem |-> IF m \in Memories!Prunable(olderThan)
                                  THEN Memories!Deleted(NoMem) ELSE mems[m]]
    BY <1>11 DEF Memories!prune, Memories!Idle, Memories!Prunable
  <2> QED BY <2>1, MemoryGone
<1>12. CASE UNCHANGED memoryVars
  BY <1>12 DEF memoryVars, Memories!TypeOK, MergeAhead, Memories!OneRowPerFact,
     Memories!MergesLead, Memories!Live, Memories!Into
<1> QED BY <1>1, <1>2, <1>3, <1>4, <1>5, <1>6, <1>7, <1>8, <1>9, <1>10, <1>11, <1>12
       DEF Memories!Next, memoryVars

LEMMA MemoryTyping == AllSpec => []MemoryInv
BY MemoryInit, MemoryStep, Steps, PTL DEF AllSpec, AllInit

(* A fact that is told again does not pile up, and a merged memory leads to  *)
(* one that is there or was deleted in its own right, wherever the server    *)
(* died.                                                                     *)
THEOREM Remembered == AllSpec => []FactsAreKept
<1>1. MemoryInv => FactsAreKept
  BY DEF MemoryInv, FactsAreKept, Memories!FactsAreKept
<1> QED BY <1>1, MemoryTyping, PTL

-----------------------------------------------------------------------------
(* Relationships: the arithmetic of scores                                   *)

LEMMA FullIsMany == Feelings!Full \in Nat /\ Feelings!Full > 0
BY DEF Feelings!Full

LEMMA RelationshipConstants ==
  /\ Global \notin Character /\ Kind \subseteq DOMAIN Feelings!DELTAS
  /\ Weight \subseteq Nat /\ Wait \subseteq Nat
BY WorkspaceAssumption DEF Feelings!RelationshipsAssumption

(* Scores stay in their range.                                               *)
LEMMA Clamped == \A n \in Int : Feelings!clamp(n) \in 0..Feelings!Full
BY FullIsMany DEF Feelings!clamp

LEMMA DeltasAreWhole ==
  \A kind \in DOMAIN Feelings!DELTAS, s \in Feelings!Score : Feelings!DELTAS[kind][s] \in Int
BY DEF Feelings!DELTAS, Feelings!Score

LEMMA ZeroScores == Feelings!ZERO_SCORES \in Feelings!Scores
BY FullIsMany DEF Feelings!ZERO_SCORES, Feelings!Scores

LEMMA EventScores ==
  ASSUME NEW scores \in Feelings!Scores, NEW event \in Feelings!Event
  PROVE  Feelings!applyRelationshipEvent(scores, event) \in Feelings!Scores
<1>1. event.kind \in DOMAIN Feelings!DELTAS /\ event.weight \in Int
  <2>1. event.kind \in DOMAIN Feelings!DELTAS /\ event.weight \in Weight
    BY DEF Feelings!Event
  <2>2. Weight \subseteq Int
    BY RelationshipConstants
  <2> QED BY <2>1, <2>2
<1>2. ASSUME NEW s \in Feelings!Score
      PROVE  Feelings!clamp(scores[s] + Feelings!DELTAS[event.kind][s] * event.weight)
               \in 0..Feelings!Full
  <2>1. scores[s] \in Int /\ Feelings!DELTAS[event.kind][s] \in Int
    BY <1>1, DeltasAreWhole, FullIsMany DEF Feelings!Scores
  <2>2. scores[s] + Feelings!DELTAS[event.kind][s] * event.weight \in Int
    BY <1>1, <2>1
  <2> QED BY <2>2, Clamped
<1> QED BY <1>2 DEF Feelings!applyRelationshipEvent, Feelings!Scores

(* The factor of decay never exceeds one.                                    *)
LEMMA FactorFits == Feelings!Factor \in [Nat -> 0..Feelings!Full]
<1> DEFINE S == 0..Feelings!Full
           F == [n \in Nat |-> [v \in S |-> (v * 95) \div 100]]
<1>1. Feelings!Full \in S /\ \A v \in S : (v * 95) \div 100 \in S
  BY FullIsMany
<1> HIDE DEF S
<1>2. F \in [Nat -> [S -> S]] /\ \A n \in Nat, v \in S : F[n][v] = (v * 95) \div 100
  BY <1>1
<1> HIDE DEF F
<1>3. PICK g \in [Nat -> S] :
        g[0] = Feelings!Full /\ \A n \in Nat \ {0} : g[n] = F[n][g[n - 1]]
  BY <1>1, <1>2, Recursion
<1>4. \A n \in Nat \ {0} : n - 1 \in Nat /\ g[n - 1] \in S
  OBVIOUS
<1>5. \A n \in Nat \ {0} : g[n] = (g[n - 1] * 95) \div 100
  BY <1>2, <1>3, <1>4
<1>6. \A n \in Nat : g[n] = IF n = 0 THEN Feelings!Full ELSE (g[n - 1] * 95) \div 100
  BY <1>3, <1>5
<1> DEFINE Unfolds(h) ==
             h = [n \in Nat |-> IF n = 0 THEN Feelings!Full ELSE (h[n - 1] * 95) \div 100]
<1>7. Unfolds(g)
  BY <1>6
<1>8. Feelings!Factor = CHOOSE h : Unfolds(h)
  BY DEF Feelings!Factor
<1> HIDE DEF Unfolds
<1>9. Unfolds(Feelings!Factor)
  BY <1>7, <1>8
<1>10. ASSUME NEW h, Unfolds(h) PROVE h \in [Nat -> S]
  <2> DEFINE T == {n \in Nat : h[n] \in S}
  <2>0. h = [n \in Nat |-> IF n = 0 THEN Feelings!Full ELSE (h[n - 1] * 95) \div 100]
    BY <1>10 DEF Unfolds
  <2>1. 0 \in T
    BY <1>1, <2>0
  <2>2. ASSUME NEW n \in T PROVE n + 1 \in T
    <3>1. n + 1 # 0 /\ (n + 1) - 1 = n /\ n + 1 \in Nat
      OBVIOUS
    <3>2. h[n + 1] = (h[n] * 95) \div 100
      BY <2>0, <3>1
    <3> QED BY <1>1, <3>1, <3>2
  <2>3. T \in SUBSET Nat
    OBVIOUS
  <2> HIDE DEF T
  <2>4. T = Nat
    BY <2>1, <2>2, <2>3, Induction
  <2> QED BY <2>0, <2>4 DEF T
<1>11. Feelings!Factor \in [Nat -> S]
  BY <1>9, <1>10
<1> QED BY <1>11 DEF S

LEMMA Shrinks ==
  ASSUME NEW e \in 0..Feelings!Full, NEW f \in 0..Feelings!Full
  PROVE  (e * f) \div Feelings!Full \in 0..Feelings!Full
<1>1. e * f <= Feelings!Full * f
  BY FullIsMany
<1>2. Feelings!Full * f <= Feelings!Full * Feelings!Full
  BY FullIsMany
<1>3. e * f \in Nat /\ e * f <= Feelings!Full * Feelings!Full
  BY <1>1, <1>2, FullIsMany
<1>4. ASSUME NEW m \in Nat \ {0}, NEW x \in Nat, x <= m * m
      PROVE  x \div m <= m /\ x \div m \in Nat
  BY <1>4
<1> QED BY <1>3, <1>4, FullIsMany

LEMMA DecayedScores ==
  ASSUME NEW scores \in Feelings!Scores, NEW days \in Nat
  PROVE  Feelings!decayScores(scores, days) \in Feelings!Scores
<1> DEFINE periods == days \div 7
<1>1. periods \in Nat /\ periods * 150 \in Int
  OBVIOUS
<1> HIDE DEF periods
<1>2. \A s \in Feelings!Score : scores[s] \in 0..Feelings!Full
  BY DEF Feelings!Scores
<1>3. Feelings!Factor[periods] \in 0..Feelings!Full
  BY <1>1, FactorFits
<1>4. "engagement" \in Feelings!Score /\ "churnRisk" \in Feelings!Score
  BY DEF Feelings!Score
<1>5. (scores["engagement"] * Feelings!Factor[periods]) \div Feelings!Full \in 0..Feelings!Full
  BY <1>2, <1>3, <1>4, Shrinks
<1>6. Feelings!clamp(scores["churnRisk"] + periods * 150) \in 0..Feelings!Full
  <2>1. scores["churnRisk"] + periods * 150 \in Int
    BY <1>1, <1>2, <1>4, FullIsMany
  <2> QED BY <2>1, Clamped
<1>7. Feelings!decayScores(scores, days) =
        [scores EXCEPT !["engagement"] =
                          (scores["engagement"] * Feelings!Factor[periods]) \div Feelings!Full,
                       !["churnRisk"] = Feelings!clamp(scores["churnRisk"] + periods * 150)]
  BY <1>4 DEF Feelings!decayScores, Feelings!Scores, periods
<1> QED BY <1>5, <1>6, <1>7 DEF Feelings!Scores

LEMMA Written ==
  ASSUME NEW s, NEW scores \in Feelings!Scores
  PROVE  /\ Feelings!Write(s, scores) \in Feelings!Row
         /\ Feelings!Write(s, scores).scores = scores
         /\ Feelings!Write(s, scores) # Feelings!NoRow
<1>1. Feelings!deriveStage(scores) \in Feelings!RelationshipStage
  BY DEF Feelings!deriveStage, Feelings!RelationshipStage
<1>2. Feelings!deriveStage(scores) # "absent"
  BY <1>1 DEF Feelings!RelationshipStage
<1>3. /\ Feelings!Write(s, scores).scores = scores
      /\ Feelings!Write(s, scores).stage = Feelings!deriveStage(scores)
      /\ Feelings!Write(s, scores) \in Feelings!Row
  BY <1>1 DEF Feelings!Write, Feelings!Row
<1>4. Feelings!NoRow.stage = "absent"
  BY DEF Feelings!NoRow
<1> QED BY <1>2, <1>3, <1>4

-----------------------------------------------------------------------------
(* Replaying a log                                                           *)

Unfolds(h, q) ==
  h = [n \in 0..Len(q) |->
         IF n = 0 THEN Feelings!ZERO_SCORES
         ELSE Feelings!applyRelationshipEvent(h[n - 1], q[n])]
ReplayOf(q) == CHOOSE h : Unfolds(h, q)

LEMMA ReplayIsOfLog ==
  \A s : /\ Feelings!Replay(s) = ReplayOf(log[s])
         /\ Feelings!Replayed(s) = ReplayOf(log[s])[Len(log[s])]
BY DEF Feelings!Replay, Feelings!Replayed, ReplayOf, Unfolds

LEMMA ReplayIsOfLogNext ==
  \A s : Feelings!Replayed(s)' = ReplayOf(log'[s])[Len(log'[s])]
BY DEF Feelings!Replay, Feelings!Replayed, ReplayOf, Unfolds

LEMMA ReplayUnfolds ==
  ASSUME NEW q \in Seq(Feelings!Event)
  PROVE  Unfolds(ReplayOf(q), q)
<1> DEFINE S == Feelings!Scores
           F == [n \in Nat |-> [v \in S |->
                   IF n \in 1..Len(q) THEN Feelings!applyRelationshipEvent(v, q[n]) ELSE v]]
<1>1. \A v \in S, n \in 1..Len(q) : Feelings!applyRelationshipEvent(v, q[n]) \in S
  BY EventScores
<1>2. F \in [Nat -> [S -> S]]
  BY <1>1
<1>3. \A n \in 1..Len(q), v \in S : F[n][v] = Feelings!applyRelationshipEvent(v, q[n])
  OBVIOUS
<1>4. Feelings!ZERO_SCORES \in S /\ Len(q) \in Nat
  BY ZeroScores
<1> HIDE DEF F, S
<1>5. PICK g : Follows(g, Len(q), S, Feelings!ZERO_SCORES, F)
  BY <1>2, <1>4, Beginnings
<1>6. /\ g \in [0..Len(q) -> S] /\ g[0] = Feelings!ZERO_SCORES
      /\ \A n \in 1..Len(q) : g[n] = F[n][g[n - 1]]
  BY <1>5 DEF Follows
<1>7. \A n \in 1..Len(q) : n - 1 \in 0..Len(q) /\ g[n - 1] \in S
  BY <1>4, <1>6
<1>8. \A n \in 1..Len(q) : g[n] = Feelings!applyRelationshipEvent(g[n - 1], q[n])
  BY <1>3, <1>6, <1>7
<1>9. \A n \in 0..Len(q) : g[n] = IF n = 0 THEN Feelings!ZERO_SCORES
                                  ELSE Feelings!applyRelationshipEvent(g[n - 1], q[n])
  BY <1>4, <1>6, <1>8
<1>10. Unfolds(g, q)
  BY <1>6, <1>9 DEF Unfolds
<1> QED BY <1>10 DEF ReplayOf

LEMMA ReplayScores ==
  ASSUME NEW q \in Seq(Feelings!Event)
  PROVE  \A n \in 0..Len(q) : ReplayOf(q)[n] \in Feelings!Scores
<1> DEFINE h == ReplayOf(q)
           T == {n \in Nat : n <= Len(q) => h[n] \in Feelings!Scores}
<1>0. Unfolds(h, q) /\ Len(q) \in Nat
  BY ReplayUnfolds
<1> HIDE DEF h
<1>1. 0 \in T
  BY <1>0, ZeroScores DEF Unfolds
<1>2. ASSUME NEW n \in T PROVE n + 1 \in T
  <2> SUFFICES ASSUME n + 1 <= Len(q) PROVE h[n + 1] \in Feelings!Scores
    OBVIOUS
  <2>1. h[n] \in Feelings!Scores /\ n + 1 \in 0..Len(q) /\ n + 1 # 0 /\ (n + 1) - 1 = n
    BY <1>0
  <2>2. h[n + 1] = Feelings!applyRelationshipEvent(h[n], q[n + 1])
    BY <1>0, <2>1 DEF Unfolds
  <2>3. q[n + 1] \in Feelings!Event
    BY <1>0, <2>1
  <2> QED BY <2>1, <2>2, <2>3, EventScores
<1>3. T \in SUBSET Nat
  OBVIOUS
<1> HIDE DEF T
<1>4. T = Nat
  BY <1>1, <1>2, <1>3, Induction
<1> QED BY <1>0, <1>4 DEF T, h

(* An event more is one application more.                                    *)
LEMMA ReplayGrows ==
  ASSUME NEW q \in Seq(Feelings!Event), NEW event \in Feelings!Event
  PROVE  ReplayOf(Append(q, event))[Len(Append(q, event))]
           = Feelings!applyRelationshipEvent(ReplayOf(q)[Len(q)], event)
<1> DEFINE p == Append(q, event)
           g == ReplayOf(q)
           h == ReplayOf(p)
           T == {n \in Nat : n <= Len(q) => h[n] = g[n]}
<1>0. /\ p \in Seq(Feelings!Event) /\ Len(p) = Len(q) + 1 /\ Len(q) \in Nat
      /\ p[Len(q) + 1] = event /\ \A n \in 1..Len(q) : p[n] = q[n]
  BY AppendProperties
<1>1. Unfolds(g, q) /\ Unfolds(h, p)
  BY <1>0, ReplayUnfolds
<1> HIDE DEF p, g, h
<1>2. 0 \in T
  <2>1. g[0] = Feelings!ZERO_SCORES
    BY <1>0, <1>1 DEF Unfolds
  <2>2. h[0] = Feelings!ZERO_SCORES
    BY <1>0, <1>1 DEF Unfolds
  <2> QED BY <2>1, <2>2
<1>3. ASSUME NEW n \in T PROVE n + 1 \in T
  <2> SUFFICES ASSUME n + 1 <= Len(q) PROVE h[n + 1] = g[n + 1]
    OBVIOUS
  <2>1. /\ n + 1 \in 0..Len(q) /\ n + 1 \in 0..Len(p) /\ n + 1 # 0 /\ (n + 1) - 1 = n
        /\ n + 1 \in 1..Len(q) /\ h[n] = g[n]
    BY <1>0
  <2>2. g[n + 1] = Feelings!applyRelationshipEvent(g[n], q[n + 1])
    BY <1>1, <2>1 DEF Unfolds
  <2>3. h[n + 1] = Feelings!applyRelationshipEvent(h[n], p[n + 1])
    BY <1>1, <2>1 DEF Unfolds
  <2> QED BY <1>0, <2>1, <2>2, <2>3
<1>4. T \in SUBSET Nat
  OBVIOUS
<1> HIDE DEF T
<1>5. T = Nat
  BY <1>2, <1>3, <1>4, Induction
<1>6. h[Len(q)] = g[Len(q)]
  BY <1>0, <1>5 DEF T
<1>7. h[Len(q) + 1] = Feelings!applyRelationshipEvent(h[Len(q)], p[Len(q) + 1])
  <2>1. Len(q) + 1 \in 0..Len(p) /\ Len(q) + 1 # 0 /\ (Len(q) + 1) - 1 = Len(q)
    BY <1>0
  <2> QED BY <1>1, <2>1 DEF Unfolds
<1> QED BY <1>0, <1>6, <1>7 DEF p, g, h

LEMMA ReplayOfNothing == ReplayOf(<<>>)[Len(<<>>)] = Feelings!ZERO_SCORES
<1>1. <<>> \in Seq(Feelings!Event) /\ Len(<<>>) = 0
  OBVIOUS
<1>2. Unfolds(ReplayOf(<<>>), <<>>)
  BY <1>1, ReplayUnfolds
<1> DEFINE h == ReplayOf(<<>>)
<1>3. h = [n \in 0..0 |-> IF n = 0 THEN Feelings!ZERO_SCORES
                          ELSE Feelings!applyRelationshipEvent(h[n - 1], <<>>[n])]
  BY <1>1, <1>2 DEF Unfolds
<1> HIDE DEF h
<1>4. h[0] = Feelings!ZERO_SCORES
  BY <1>3
<1> QED BY <1>1, <1>4 DEF h

-----------------------------------------------------------------------------
(* Counting a log                                                            *)

LEMMA FeelingsCount == \A S : Feelings!Cardinality(S) = Cardinality(S)
BY DEF Feelings!Cardinality, Cardinality

(* The events of a kind in some scopes of a log.                             *)
EventsOf(l, kind, in) ==
  UNION {{<<s, i>> : i \in {n \in DOMAIN l[s] : l[s][n].kind = kind}} : s \in in}

LEMMA LoggedIsCounted ==
  \A kind, in : Feelings!Logged(kind, in) = Cardinality(EventsOf(log, kind, in))
BY FeelingsCount DEF Feelings!Logged, EventsOf

LEMMA OneMore ==
  ASSUME NEW l \in [Feelings!Scope -> Seq(Feelings!Event)], NEW t \in Feelings!Scope,
         NEW event \in Feelings!Event, NEW kind, NEW in \in SUBSET Feelings!Scope,
         IsFiniteSet(EventsOf(l, kind, in)),
         NEW new, new[t] = Append(l[t], event),
         \A s \in Feelings!Scope : s # t => new[s] = l[s]
  PROVE  /\ IsFiniteSet(EventsOf(new, kind, in))
         /\ Cardinality(EventsOf(new, kind, in)) =
              Cardinality(EventsOf(l, kind, in))
              + (IF t \in in /\ event.kind = kind THEN 1 ELSE 0)
<1> DEFINE k == Len(l[t]) + 1
<1>1. /\ l[t] \in Seq(Feelings!Event) /\ Len(l[t]) \in Nat /\ DOMAIN l[t] = 1..Len(l[t])
      /\ DOMAIN Append(l[t], event) = 1..k /\ Append(l[t], event)[k] = event
      /\ \A n \in 1..Len(l[t]) : Append(l[t], event)[n] = l[t][n]
  BY AppendProperties
<1>2. new[t] = Append(l[t], event) /\ \A s \in Feelings!Scope : s # t => new[s] = l[s]
  OBVIOUS
<1>3. CASE t \in in /\ event.kind = kind
  <2>1. <<t, k>> \notin EventsOf(l, kind, in)
    BY <1>1 DEF EventsOf
  <2>2. EventsOf(new, kind, in) = EventsOf(l, kind, in) \cup {<<t, k>>}
    <3>1. ASSUME NEW s \in in, NEW i
          PROVE  (i \in DOMAIN new[s] /\ new[s][i].kind = kind)
                 <=> (i \in DOMAIN l[s] /\ l[s][i].kind = kind) \/ (s = t /\ i = k)
      <4>1. CASE s = t
        <5>1. i \in 1..k <=> i \in 1..Len(l[t]) \/ i = k
          BY <1>1
        <5> QED BY <1>1, <1>2, <1>3, <4>1, <5>1
      <4>2. CASE s # t
        BY <1>2, <4>2
      <4> QED BY <4>1, <4>2
    <3> QED BY <1>3, <3>1 DEF EventsOf
  <2>3. /\ IsFiniteSet(EventsOf(l, kind, in) \cup {<<t, k>>})
        /\ Cardinality(EventsOf(l, kind, in) \cup {<<t, k>>})
             = Cardinality(EventsOf(l, kind, in)) + 1
    BY <2>1, FS_AddElement
  <2> QED BY <1>3, <2>2, <2>3
<1>4. CASE ~(t \in in /\ event.kind = kind)
  <2>1. EventsOf(new, kind, in) = EventsOf(l, kind, in)
    <3>1. ASSUME NEW s \in in, NEW i
          PROVE  (i \in DOMAIN new[s] /\ new[s][i].kind = kind)
                 <=> (i \in DOMAIN l[s] /\ l[s][i].kind = kind)
      <4>1. CASE s = t
        <5>1. i \in 1..k <=> i \in 1..Len(l[t]) \/ i = k
          BY <1>1
        <5> QED BY <1>1, <1>2, <1>4, <4>1, <5>1
      <4>2. CASE s # t
        BY <1>2, <4>2
      <4> QED BY <4>1, <4>2
    <3> QED BY <3>1 DEF EventsOf
  <2>2. Cardinality(EventsOf(l, kind, in)) \in Nat
    BY FS_CardinalityType
  <2> QED BY <1>4, <2>1, <2>2
<1> QED BY <1>3, <1>4

-----------------------------------------------------------------------------
(* Calls of apply()                                                          *)

(* What apply() does when k of its statements are to follow.                 *)
Statement(k, s, event) ==
  [do |-> IF k \in {0, 2} THEN "log" ELSE "update",
   scope |-> IF k \in {0, 1} THEN Global ELSE s, event |-> event]

(* What is left of a call, from the end.                                     *)
Left(p, s, event) ==
  /\ p \in Seq([do: {"update", "log"}, scope: Feelings!Scope, event: Feelings!Event])
  /\ Len(p) \in 0..4 /\ (Len(p) > 2 => s \in Character)
  /\ \A i \in 1..Len(p) : p[i] = Statement(Len(p) - i, s, event)

LEMMA Statements ==
  ASSUME NEW k \in 0..3, NEW s \in Feelings!Scope, NEW event \in Feelings!Event
  PROVE  /\ Statement(k, s, event)
              \in [do: {"update", "log"}, scope: Feelings!Scope, event: Feelings!Event]
         /\ Statement(k, s, event).event = event
         /\ Statement(k, s, event).scope = IF k \in {0, 1} THEN Global ELSE s
         /\ Statement(k, s, event).do = IF k \in {0, 2} THEN "log" ELSE "update"
BY DEF Statement, Feelings!Scope

LEMMA CallIsLeft ==
  ASSUME NEW s \in Feelings!Scope, NEW event \in Feelings!Event, Feelings!apply(s, event)
  PROVE  Left(pending', s, event) /\ Len(pending') \in {2, 4}
<1>1. CASE s = Global
  <2>1. Feelings!scopes(s) = <<Global>> /\ Len(Feelings!scopes(s)) = 1
    BY <1>1 DEF Feelings!scopes
  <2>2. pending' = [i \in 1..2 |->
                     [do |-> IF i % 2 = 1 THEN "update" ELSE "log",
                      scope |-> <<Global>>[(i + 1) \div 2], event |-> event]]
    BY <2>1 DEF Feelings!apply
  <2>3. ASSUME NEW i \in 1..2
        PROVE  (i % 2 = 1 <=> i = 1) /\ (i + 1) \div 2 = 1
    OBVIOUS
  <2>4. ASSUME NEW i \in 1..2
        PROVE  pending'[i] = Statement(2 - i, s, event)
    BY <2>2, <2>3 DEF Statement
  <2>5. Len(pending') = 2
    BY <2>2
  <2>6. ASSUME NEW i \in 1..2
        PROVE  pending'[i] \in [do: {"update", "log"}, scope: Feelings!Scope,
                                event: Feelings!Event]
    <3>1. 2 - i \in 0..3
      OBVIOUS
    <3> QED BY <2>4, <3>1, Statements
  <2>7. pending' \in Seq([do: {"update", "log"}, scope: Feelings!Scope, event: Feelings!Event])
    BY <2>2, <2>6
  <2> QED BY <2>4, <2>5, <2>7 DEF Left
<1>2. CASE s # Global
  <2>1. Feelings!scopes(s) = <<s, Global>> /\ Len(Feelings!scopes(s)) = 2 /\ s \in Character
    BY <1>2 DEF Feelings!scopes, Feelings!Scope
  <2>2. pending' = [i \in 1..4 |->
                     [do |-> IF i % 2 = 1 THEN "update" ELSE "log",
                      scope |-> <<s, Global>>[(i + 1) \div 2], event |-> event]]
    BY <2>1 DEF Feelings!apply
  <2>3. ASSUME NEW i \in 1..4
        PROVE  /\ i % 2 = 1 <=> i \in {1, 3}
               /\ (i + 1) \div 2 = IF i \in {1, 2} THEN 1 ELSE 2
    OBVIOUS
  <2>4. ASSUME NEW i \in 1..4
        PROVE  pending'[i] = Statement(4 - i, s, event)
    BY <2>2, <2>3 DEF Statement
  <2>5. Len(pending') = 4
    BY <2>2
  <2>6. ASSUME NEW i \in 1..4
        PROVE  pending'[i] \in [do: {"update", "log"}, scope: Feelings!Scope,
                                event: Feelings!Event]
    <3>1. 4 - i \in 0..3
      OBVIOUS
    <3> QED BY <2>4, <3>1, Statements
  <2>7. pending' \in Seq([do: {"update", "log"}, scope: Feelings!Scope, event: Feelings!Event])
    BY <2>2, <2>6
  <2> QED BY <2>1, <2>4, <2>5, <2>7 DEF Left
<1> QED BY <1>1, <1>2

(* The next statement of a call, and what is left then.                      *)
LEMMA NextStatement ==
  ASSUME NEW s \in Feelings!Scope, NEW event \in Feelings!Event,
         NEW p, Left(p, s, event), Len(p) # 0
  PROVE  /\ Len(p) \in 1..4 /\ Head(p) = Statement(Len(p) - 1, s, event)
         /\ Left(Tail(p), s, event) /\ Len(Tail(p)) = Len(p) - 1
<1> DEFINE Items == [do: {"update", "log"}, scope: Feelings!Scope, event: Feelings!Event]
<1>1. p \in Seq(Items) /\ Len(p) \in 1..4
  BY DEF Left
<1> HIDE DEF Items
<1>2. /\ Head(p) = p[1] /\ Tail(p) \in Seq(Items) /\ Len(Tail(p)) = Len(p) - 1
      /\ \A i \in 1..(Len(p) - 1) : Tail(p)[i] = p[i + 1]
  BY <1>1, HeadTailProperties
<1>3. ASSUME NEW i \in 1..Len(Tail(p))
      PROVE  Tail(p)[i] = Statement(Len(Tail(p)) - i, s, event)
  <2>1. i + 1 \in 1..Len(p) /\ Len(p) - (i + 1) = Len(Tail(p)) - i
    BY <1>1, <1>2
  <2> QED BY <1>2, <2>1 DEF Left
<1> QED BY <1>1, <1>2, <1>3 DEF Left, Items

-----------------------------------------------------------------------------
(* How a fan stands with the characters                                      *)

(* A statement that logs is under way: its scores are an event ahead.        *)
Ahead(s) == Len(pending) \in {1, 3} /\ Head(pending).scope = s

(* The scores of a scope that never decayed are those of its events.         *)
Explained ==
  \A s \in Feelings!Scope :
    faded[s] = 0 =>
      Feelings!ScoresOf(s) =
        IF Ahead(s)
        THEN Feelings!applyRelationshipEvent(ReplayOf(log[s])[Len(log[s])], Head(pending).event)
        ELSE ReplayOf(log[s])[Len(log[s])]

(* Events with a character that the global scope is still to get.            *)
Owed(kind) == IF Len(pending) \in {1, 2} /\ Head(pending).event.kind = kind THEN 1 ELSE 0

Counted ==
  \A kind \in Kind :
    /\ IsFiniteSet(EventsOf(log, kind, Character))
    /\ IsFiniteSet(EventsOf(log, kind, {Global}))
    /\ Cardinality(EventsOf(log, kind, Character))
         <= Cardinality(EventsOf(log, kind, {Global})) + Owed(kind)

FeelingInv ==
  /\ Feelings!TypeOK
  /\ pending = <<>> \/ \E s \in Feelings!Scope, event \in Feelings!Event :
                         Left(pending, s, event)
  /\ ~halved => Explained /\ Counted

LEMMA CallTypes ==
  ASSUME Feelings!TypeOK
  PROVE  /\ \A s \in Feelings!Scope : Feelings!ScoresOf(s) \in Feelings!Scores
         /\ \A s \in Feelings!Scope : rels[s] # Feelings!NoRow => rels[s] \in Feelings!Row
         /\ \A s \in Feelings!Scope : log[s] \in Seq(Feelings!Event)
         /\ Global \in Feelings!Scope /\ Character \subseteq Feelings!Scope
         /\ Feelings!Scope = Character \cup {Global}
<1>1. \A s \in Feelings!Scope : rels[s] # Feelings!NoRow => rels[s] \in Feelings!Row
  BY DEF Feelings!TypeOK
<1>2. \A row \in Feelings!Row : row.scores \in Feelings!Scores
  BY DEF Feelings!Row
<1>3. \A s \in Feelings!Scope : Feelings!ScoresOf(s) \in Feelings!Scores
  BY <1>1, <1>2, ZeroScores DEF Feelings!ScoresOf
<1> QED BY <1>1, <1>3 DEF Feelings!TypeOK, Feelings!Scope

(* The scores a row is written with are the scores it has.                   *)
LEMMA WrittenScores ==
  ASSUME Feelings!TypeOK, NEW s \in Feelings!Scope, NEW scores \in Feelings!Scores,
         rels' = [rels EXCEPT ![s] = Feelings!Write(s, scores)]
  PROVE  /\ rels' \in [Feelings!Scope -> Feelings!Row \cup {Feelings!NoRow}]
         /\ Feelings!ScoresOf(s)' = scores
         /\ \A t \in Feelings!Scope : t # s => Feelings!ScoresOf(t)' = Feelings!ScoresOf(t)
<1>1. /\ Feelings!Write(s, scores) \in Feelings!Row
      /\ Feelings!Write(s, scores).scores = scores
      /\ Feelings!Write(s, scores) # Feelings!NoRow
  BY Written
<1>2. /\ rels' \in [Feelings!Scope -> Feelings!Row \cup {Feelings!NoRow}]
      /\ rels'[s] = Feelings!Write(s, scores)
      /\ \A t \in Feelings!Scope : t # s => rels'[t] = rels[t]
  BY <1>1 DEF Feelings!TypeOK
<1> QED BY <1>1, <1>2 DEF Feelings!ScoresOf

LEMMA FeelingInit == Feelings!Init => FeelingInv
<1> SUFFICES ASSUME Feelings!Init PROVE FeelingInv
  OBVIOUS
<1>1. /\ log = [s \in Feelings!Scope |-> <<>>] /\ faded = [s \in Feelings!Scope |-> 0]
      /\ bought = 0 /\ today = 0 /\ halved = FALSE /\ pending = <<>>
      /\ fan = [last |-> Feelings!Never, messages |-> 0, purchases |-> 0]
  BY DEF Feelings!Init
<1>2. rels = [s \in Feelings!Scope |->
               IF s = Global THEN [scores |-> Feelings!ZERO_SCORES, stage |-> "new"]
               ELSE Feelings!NoRow]
  BY DEF Feelings!Init
<1>3. [scores |-> Feelings!ZERO_SCORES, stage |-> "new"] \in Feelings!Row
  BY ZeroScores DEF Feelings!Row, Feelings!RelationshipStage
<1>4. rels \in [Feelings!Scope -> Feelings!Row \cup {Feelings!NoRow}]
  BY <1>2, <1>3
<1>5. <<>> \in Seq(Feelings!Event)
      /\ <<>> \in Seq([do: {"update", "log"}, scope: Feelings!Scope, event: Feelings!Event])
  OBVIOUS
<1>6. /\ log \in [Feelings!Scope -> Seq(Feelings!Event)]
      /\ faded \in [Feelings!Scope -> Nat]
      /\ fan \in [last: Nat \cup {Feelings!Never}, messages: Nat, purchases: Nat]
  BY <1>1, <1>5
<1>7. Feelings!TypeOK
  BY <1>1, <1>4, <1>5, <1>6 DEF Feelings!TypeOK
<1>8. Explained
  <2>1. ASSUME NEW s \in Feelings!Scope
        PROVE  Feelings!ScoresOf(s) = ReplayOf(log[s])[Len(log[s])] /\ ~Ahead(s)
    <3>1. Feelings!ScoresOf(s) = Feelings!ZERO_SCORES
      <4>1. CASE s = Global
        <5>1. rels[s] = [scores |-> Feelings!ZERO_SCORES, stage |-> "new"]
          BY <1>2, <4>1
        <5>2. rels[s] # Feelings!NoRow /\ rels[s].scores = Feelings!ZERO_SCORES
          BY <5>1 DEF Feelings!NoRow
        <5> QED BY <5>2 DEF Feelings!ScoresOf
      <4>2. CASE s # Global
        BY <1>2, <4>2 DEF Feelings!ScoresOf
      <4> QED BY <4>1, <4>2
    <3>2. log[s] = <<>> /\ Len(pending) = 0
      BY <1>1
    <3>3. ~Ahead(s)
      BY <3>2 DEF Ahead
    <3> QED BY <3>1, <3>2, <3>3, ReplayOfNothing
  <2> QED BY <2>1 DEF Explained
<1>9. Counted
  <2>1. ASSUME NEW kind \in Kind, NEW in \in SUBSET Feelings!Scope
        PROVE  EventsOf(log, kind, in) = {}
    <3>1. \A s \in in : DOMAIN log[s] = {}
      BY <1>1
    <3> QED BY <3>1 DEF EventsOf
  <2>2. Character \in SUBSET Feelings!Scope /\ {Global} \in SUBSET Feelings!Scope
    BY DEF Feelings!Scope
  <2>3. \A kind \in Kind : Owed(kind) \in {0, 1}
    BY DEF Owed
  <2>4. IsFiniteSet({}) /\ Cardinality({}) = 0
    BY FS_EmptySet
  <2> QED BY <2>1, <2>2, <2>3, <2>4 DEF Counted
<1> QED BY <1>1, <1>7, <1>8, <1>9 DEF FeelingInv

(* A statement of a call.                                                    *)
LEMMA ApplyStepHolds == FeelingInv /\ Feelings!ApplyStep => FeelingInv'
<1> SUFFICES ASSUME FeelingInv, Feelings!ApplyStep PROVE FeelingInv'
  OBVIOUS
<1> DEFINE n == Len(pending)
           head == Head(pending)
<1>1. Len(pending) # 0 /\ Feelings!TypeOK
  BY EmptySeq DEF Feelings!ApplyStep, Feelings!Free, FeelingInv, Feelings!TypeOK
<1>2. PICK s \in Feelings!Scope, event \in Feelings!Event : Left(pending, s, event)
  BY <1>1 DEF FeelingInv
<1> DEFINE t == IF n \in {1, 2} THEN Global ELSE s
<1>3. /\ n \in 1..4 /\ head = Statement(n - 1, s, event)
      /\ Left(Tail(pending), s, event) /\ Len(Tail(pending)) = n - 1
  BY <1>1, <1>2, NextStatement
<1>d. n = Len(pending) /\ head = Head(pending)
  OBVIOUS
<1>5. /\ pending' = Tail(pending) /\ Len(pending') = n - 1 /\ Left(pending', s, event)
      /\ UNCHANGED <<fan, bought, halved, faded, today>>
  BY <1>3 DEF Feelings!ApplyStep
<1> HIDE DEF n, head
<1>4. head.event = event /\ head.scope = t /\ head.do = IF n \in {1, 3} THEN "log" ELSE "update"
  <2>1. n - 1 \in 0..3 /\ (n - 1 \in {0, 1} <=> n \in {1, 2}) /\ (n - 1 \in {0, 2} <=> n \in {1, 3})
    BY <1>3
  <2>2. /\ Statement(n - 1, s, event).event = event
        /\ Statement(n - 1, s, event).scope = IF n - 1 \in {0, 1} THEN Global ELSE s
        /\ Statement(n - 1, s, event).do = IF n - 1 \in {0, 2} THEN "log" ELSE "update"
    BY <2>1, Statements
  <2> QED BY <1>3, <2>1, <2>2
<1>6. n > 1 => /\ Head(pending').event = event
               /\ n \in {2, 4} => Head(pending').scope = t
  <2> SUFFICES ASSUME n > 1
               PROVE  /\ Head(pending').event = event
                      /\ n \in {2, 4} => Head(pending').scope = t
    OBVIOUS
  <2>1. /\ n - 2 \in 0..3 /\ (n \in {2, 4} => (n - 2 \in {0, 1} <=> n \in {1, 2}))
        /\ (n - 1) - 1 = n - 2 /\ n - 1 # 0
    BY <1>3
  <2>2. Head(pending') = Statement(n - 2, s, event)
    BY <1>5, <2>1, NextStatement
  <2>3. /\ Statement(n - 2, s, event).event = event
        /\ Statement(n - 2, s, event).scope = IF n - 2 \in {0, 1} THEN Global ELSE s
    BY <2>1, Statements
  <2> QED BY <2>1, <2>2, <2>3
<1>7. t \in Feelings!Scope /\ (n > 2 => t \in Character) /\ (n <= 2 => t = Global)
  BY <1>2, <1>3, <1>d DEF Left, Feelings!Scope
<1>8. pending' \in Seq([do: {"update", "log"}, scope: Feelings!Scope, event: Feelings!Event])
  BY <1>5 DEF Left
<1> HIDE DEF t
<1>9. CASE n \in {2, 4}
  <2>0. /\ Len(pending) \notin {1, 3} /\ Len(pending') \in {1, 3}
        /\ Head(pending').scope = t /\ Head(pending').event = event
        /\ n = 2 => /\ Len(pending) \in {1, 2} /\ Len(pending') \in {1, 2}
                    /\ Head(pending).event = event
        /\ n = 4 => Len(pending) \notin {1, 2} /\ Len(pending') \notin {1, 2}
    <3>1. Len(pending) = n /\ Len(pending') = n - 1
      BY <1>d, <1>5
    <3>2. Head(pending).event = event
      BY <1>d, <1>4
    <3>3. Head(pending').scope = t /\ Head(pending').event = event
      BY <1>6, <1>9
    <3> QED BY <1>9, <3>1, <3>2, <3>3
  <2>1. /\ rels' = [rels EXCEPT ![t] = Feelings!Write(t,
                     Feelings!applyRelationshipEvent(Feelings!ScoresOf(t), event))]
        /\ log' = log
    <3>1. head.do = "update"
      BY <1>4, <1>9
    <3>2. /\ rels' = [rels EXCEPT ![head.scope] = Feelings!Write(head.scope,
              Feelings!applyRelationshipEvent(Feelings!ScoresOf(head.scope), head.event))]
          /\ log' = log
      BY <3>1 DEF Feelings!ApplyStep, head
    <3> QED BY <1>4, <3>2
  <2>2. Feelings!applyRelationshipEvent(Feelings!ScoresOf(t), event) \in Feelings!Scores
    BY <1>1, <1>7, CallTypes, EventScores
  <2>3. /\ rels' \in [Feelings!Scope -> Feelings!Row \cup {Feelings!NoRow}]
        /\ \A u \in Feelings!Scope :
             Feelings!ScoresOf(u)' =
               IF u = t THEN Feelings!applyRelationshipEvent(Feelings!ScoresOf(t), event)
               ELSE Feelings!ScoresOf(u)
    BY <1>1, <1>7, <2>1, <2>2, WrittenScores
  <2>4. Feelings!TypeOK'
    BY <1>1, <1>5, <1>8, <2>1, <2>3 DEF Feelings!TypeOK
  <2>5. ASSUME ~halved PROVE Explained'
    <3>1. \A u \in Feelings!Scope : ~Ahead(u) /\ (Ahead(u)' <=> u = t)
      BY <2>0 DEF Ahead
    <3>2. ASSUME NEW u \in Feelings!Scope, faded'[u] = 0
          PROVE  Feelings!ScoresOf(u)' =
                   IF Ahead(u)'
                   THEN Feelings!applyRelationshipEvent(ReplayOf(log'[u])[Len(log'[u])],
                                                        Head(pending').event)
                   ELSE ReplayOf(log'[u])[Len(log'[u])]
      <4>1. Feelings!ScoresOf(u) = ReplayOf(log[u])[Len(log[u])]
        BY <1>5, <2>5, <3>1, <3>2 DEF FeelingInv, Explained
      <4> QED BY <1>6, <1>7, <1>9, <2>1, <2>3, <3>1, <4>1
    <3> QED BY <3>2 DEF Explained
  <2>6. ASSUME ~halved PROVE Counted'
    <3>1. \A kind \in Kind : Owed(kind)' \in {0, 1} /\ (n = 2 => Owed(kind)' = Owed(kind))
                            /\ (n = 4 => Owed(kind) = 0)
      BY <1>9, <2>0 DEF Owed
    <3>2. \A kind \in Kind : /\ Cardinality(EventsOf(log, kind, Character)) \in Nat
                             /\ Cardinality(EventsOf(log, kind, {Global})) \in Nat
      BY <2>6, FS_CardinalityType DEF FeelingInv, Counted
    <3>3. \A kind \in Kind : Owed(kind) \in {0, 1}
      BY DEF Owed
    <3>4. \A kind \in Kind :
            /\ IsFiniteSet(EventsOf(log, kind, Character))
            /\ IsFiniteSet(EventsOf(log, kind, {Global}))
            /\ Cardinality(EventsOf(log, kind, Character))
                 <= Cardinality(EventsOf(log, kind, {Global})) + Owed(kind)
      BY <2>6 DEF FeelingInv, Counted
    <3>5. \A kind \in Kind : Owed(kind) <= Owed(kind)'
      BY <1>9, <3>1
    <3>6. \A kind \in Kind :
            Cardinality(EventsOf(log, kind, Character))
              <= Cardinality(EventsOf(log, kind, {Global})) + Owed(kind)'
      BY <3>1, <3>2, <3>3, <3>4, <3>5
    <3> QED BY <2>1, <3>4, <3>6 DEF Counted
  <2> QED BY <1>5, <2>4, <2>5, <2>6 DEF FeelingInv
<1>10. CASE n \in {1, 3}
  <2>0. /\ Len(pending) \in {1, 3} /\ Len(pending') \notin {1, 3}
        /\ Head(pending).scope = t /\ Head(pending).event = event
        /\ n = 1 => Len(pending) \in {1, 2} /\ Len(pending') \notin {1, 2}
        /\ n = 3 => /\ Len(pending) \notin {1, 2} /\ Len(pending') \in {1, 2}
                    /\ Head(pending').event = event
    <3>1. Len(pending) = n /\ Len(pending') = n - 1
      BY <1>d, <1>5
    <3>2. Head(pending).event = event /\ Head(pending).scope = t
      BY <1>d, <1>4
    <3>3. n = 3 => Head(pending').event = event
      BY <1>6
    <3> QED BY <1>10, <3>1, <3>2, <3>3
  <2>1. log' = [log EXCEPT ![t] = Append(log[t], event)] /\ rels' = rels
    <3>1. head.do = "log"
      BY <1>4, <1>10
    <3>2. log' = [log EXCEPT ![head.scope] = Append(log[head.scope], head.event)] /\ rels' = rels
      BY <3>1 DEF Feelings!ApplyStep, head
    <3> QED BY <1>4, <3>2
  <2>2. /\ log \in [Feelings!Scope -> Seq(Feelings!Event)]
        /\ log' \in [Feelings!Scope -> Seq(Feelings!Event)]
        /\ log'[t] = Append(log[t], event)
        /\ \A u \in Feelings!Scope : u # t => log'[u] = log[u]
    BY <1>1, <1>7, <2>1, AppendProperties DEF Feelings!TypeOK
  <2>3. Feelings!TypeOK'
    BY <1>1, <1>5, <1>8, <2>1, <2>2 DEF Feelings!TypeOK
  <2>4. ASSUME ~halved PROVE Explained'
    <3>1. \A u \in Feelings!Scope : (Ahead(u) <=> u = t) /\ ~Ahead(u)'
      BY <2>0 DEF Ahead
    <3>2. ReplayOf(log'[t])[Len(log'[t])] =
            Feelings!applyRelationshipEvent(ReplayOf(log[t])[Len(log[t])], event)
      BY <1>7, <2>2, ReplayGrows
    <3>3. \A u \in Feelings!Scope : Feelings!ScoresOf(u)' = Feelings!ScoresOf(u)
      BY <2>1 DEF Feelings!ScoresOf
    <3>4. ASSUME NEW u \in Feelings!Scope, faded'[u] = 0
          PROVE  Feelings!ScoresOf(u)' = ReplayOf(log'[u])[Len(log'[u])]
      <4>1. Feelings!ScoresOf(u) =
              IF u = t
              THEN Feelings!applyRelationshipEvent(ReplayOf(log[u])[Len(log[u])], event)
              ELSE ReplayOf(log[u])[Len(log[u])]
        BY <1>d, <1>4, <1>5, <2>4, <3>1, <3>4 DEF FeelingInv, Explained
      <4> QED BY <2>2, <3>2, <3>3, <4>1
    <3> QED BY <3>1, <3>4 DEF Explained
  <2>5. ASSUME ~halved PROVE Counted'
    <3> SUFFICES ASSUME NEW kind \in Kind
                 PROVE  /\ IsFiniteSet(EventsOf(log', kind, Character))
                        /\ IsFiniteSet(EventsOf(log', kind, {Global}))
                        /\ Cardinality(EventsOf(log', kind, Character))
                             <= Cardinality(EventsOf(log', kind, {Global})) + Owed(kind)'
      BY DEF Counted
    <3>1. /\ IsFiniteSet(EventsOf(log, kind, Character))
          /\ IsFiniteSet(EventsOf(log, kind, {Global}))
          /\ Cardinality(EventsOf(log, kind, Character))
               <= Cardinality(EventsOf(log, kind, {Global})) + Owed(kind)
      BY <2>5 DEF FeelingInv, Counted
    <3>2. Character \in SUBSET Feelings!Scope /\ {Global} \in SUBSET Feelings!Scope
      BY DEF Feelings!Scope
    <3>3. \A in \in SUBSET Feelings!Scope :
            IsFiniteSet(EventsOf(log, kind, in)) =>
              /\ IsFiniteSet(EventsOf(log', kind, in))
              /\ Cardinality(EventsOf(log', kind, in)) =
                   Cardinality(EventsOf(log, kind, in))
                   + (IF t \in in /\ event.kind = kind THEN 1 ELSE 0)
      <4> SUFFICES ASSUME NEW in \in SUBSET Feelings!Scope,
                          IsFiniteSet(EventsOf(log, kind, in))
                   PROVE  /\ IsFiniteSet(EventsOf(log', kind, in))
                          /\ Cardinality(EventsOf(log', kind, in)) =
                               Cardinality(EventsOf(log, kind, in))
                               + (IF t \in in /\ event.kind = kind THEN 1 ELSE 0)
        OBVIOUS
      <4>1. /\ log \in [Feelings!Scope -> Seq(Feelings!Event)] /\ t \in Feelings!Scope
            /\ log'[t] = Append(log[t], event)
            /\ \A u \in Feelings!Scope : u # t => log'[u] = log[u]
        BY <1>7, <2>2
      <4>2. PICK l, new, at : l = log /\ new = log' /\ at = t
        OBVIOUS
      <4>3. /\ l \in [Feelings!Scope -> Seq(Feelings!Event)] /\ at \in Feelings!Scope
            /\ new[at] = Append(l[at], event)
            /\ \A u \in Feelings!Scope : u # at => new[u] = l[u]
        BY <4>1, <4>2
      <4>4. IsFiniteSet(EventsOf(l, kind, in))
        BY <4>2
      <4>5. IsFiniteSet(EventsOf(new, kind, in))
        BY <4>3, <4>4, OneMore
      <4>6. Cardinality(EventsOf(new, kind, in)) =
              Cardinality(EventsOf(l, kind, in))
              + (IF at \in in /\ event.kind = kind THEN 1 ELSE 0)
        BY <4>3, <4>4, OneMore
      <4> QED BY <4>2, <4>5, <4>6
    <3>4. /\ Cardinality(EventsOf(log, kind, Character)) \in Nat
          /\ Cardinality(EventsOf(log, kind, {Global})) \in Nat
      BY <3>1, FS_CardinalityType
    <3>5. /\ n = 1 => Owed(kind) = (IF event.kind = kind THEN 1 ELSE 0) /\ Owed(kind)' = 0
          /\ n = 3 => Owed(kind)' = (IF event.kind = kind THEN 1 ELSE 0) /\ Owed(kind) = 0
      BY <1>10, <2>0 DEF Owed
    <3>6. /\ n = 1 => t \notin Character /\ t \in {Global}
          /\ n = 3 => t \in Character /\ t \notin {Global}
      BY <1>7, RelationshipConstants
    <3> QED BY <1>10, <3>1, <3>2, <3>3, <3>4, <3>5, <3>6
  <2> QED BY <1>5, <2>3, <2>4, <2>5 DEF FeelingInv
<1> QED BY <1>3, <1>9, <1>10

(* What leaves scores, events and calls alone.                               *)
LEMMA FeelingsStay ==
  ASSUME FeelingInv, Feelings!TypeOK', UNCHANGED <<rels, log, pending, halved, faded>>
  PROVE  FeelingInv'
<1>1. Explained => Explained'
  BY DEF Explained, Ahead, Feelings!ScoresOf
<1>2. Counted => Counted'
  BY DEF Counted, Owed
<1> QED BY <1>1, <1>2 DEF FeelingInv

LEMMA FeelingStep == FeelingInv /\ [Feelings!Next]_feelingVars => FeelingInv'
<1> SUFFICES ASSUME FeelingInv, [Feelings!Next]_feelingVars PROVE FeelingInv'
  OBVIOUS
<1>0. Feelings!TypeOK
  BY DEF FeelingInv
<1>1. ASSUME NEW s \in Feelings!Scope, NEW event \in [kind: Kind, weight: Weight],
             Feelings!apply(s, event)
      PROVE  FeelingInv'
  <2>1. event \in Feelings!Event
    <3>1. event.kind \in DOMAIN Feelings!DELTAS
      BY RelationshipConstants
    <3> QED BY <3>1 DEF Feelings!Event
  <2>2. Left(pending', s, event) /\ Len(pending') \in {2, 4} /\ Len(pending) = 0
    BY <1>1, <2>1, CallIsLeft DEF Feelings!apply, Feelings!Free
  <2>3. UNCHANGED <<rels, log, fan, bought, halved, faded, today>>
    BY <1>1 DEF Feelings!apply
  <2>4. Feelings!TypeOK'
    BY <1>0, <2>2, <2>3 DEF Feelings!TypeOK, Left
  <2>5. Explained => Explained'
    <3>1. \A u \in Feelings!Scope : ~Ahead(u) /\ ~Ahead(u)'
      BY <2>2 DEF Ahead
    <3> QED BY <2>3, <3>1 DEF Explained, Feelings!ScoresOf
  <2>6. Counted => Counted'
    <3>1. \A kind \in Kind : Owed(kind) = 0 /\ Owed(kind)' \in {0, 1}
      BY <2>2 DEF Owed
    <3>2. Counted => \A kind \in Kind :
            /\ Cardinality(EventsOf(log, kind, Character)) \in Nat
            /\ Cardinality(EventsOf(log, kind, {Global})) \in Nat
      BY FS_CardinalityType DEF Counted
    <3> QED BY <2>3, <3>1, <3>2 DEF Counted
  <2> QED BY <2>1, <2>2, <2>3, <2>4, <2>5, <2>6 DEF FeelingInv
<1>2. CASE Feelings!Crash
  <2>1. /\ pending' = <<>> /\ halved' = TRUE
        /\ UNCHANGED <<rels, log, fan, bought, faded, today>>
    BY <1>2 DEF Feelings!Crash
  <2>2. Feelings!TypeOK'
    BY <1>0, <2>1 DEF Feelings!TypeOK
  <2> QED BY <2>1, <2>2 DEF FeelingInv
<1>3. CASE Feelings!decayInactive
  <2>0. PICK batch \in SUBSET {s \in Feelings!Scope : rels[s] # Feelings!NoRow
                                                     /\ faded[s] < MaxDecays} :
          /\ rels' = [s \in Feelings!Scope |->
                       IF s \in batch
                       THEN Feelings!Write(s, Feelings!decayScores(rels[s].scores, Feelings!Days))
                       ELSE rels[s]]
          /\ faded' = [s \in Feelings!Scope |-> IF s \in batch THEN faded[s] + 1 ELSE faded[s]]
    BY <1>3 DEF Feelings!decayInactive
  <2>1. /\ UNCHANGED <<log, fan, bought, pending, halved, today>> /\ Len(pending) = 0
        /\ Feelings!Days \in Nat
    BY <1>0, <1>3 DEF Feelings!decayInactive, Feelings!Free, Feelings!Quiet, Feelings!Days,
       Feelings!TypeOK
  <2>2. \A s \in batch :
          Feelings!Write(s, Feelings!decayScores(rels[s].scores, Feelings!Days)) \in Feelings!Row
    <3> SUFFICES ASSUME NEW s \in batch
                 PROVE  Feelings!Write(s, Feelings!decayScores(rels[s].scores, Feelings!Days))
                          \in Feelings!Row
      OBVIOUS
    <3>1. rels[s] \in Feelings!Row
      BY <1>0, CallTypes
    <3>2. rels[s].scores \in Feelings!Scores
      BY <3>1 DEF Feelings!Row
    <3> QED BY <2>1, <3>2, DecayedScores, Written
  <2>3. /\ rels' \in [Feelings!Scope -> Feelings!Row \cup {Feelings!NoRow}]
        /\ faded' \in [Feelings!Scope -> Nat]
    BY <1>0, <2>0, <2>2 DEF Feelings!TypeOK
  <2>4. Feelings!TypeOK'
    BY <1>0, <2>1, <2>3 DEF Feelings!TypeOK
  <2>5. \A s \in Feelings!Scope : faded'[s] = 0 => rels'[s] = rels[s] /\ faded[s] = 0
    BY <1>0, <2>0 DEF Feelings!TypeOK
  <2>6. Explained => Explained'
    BY <2>1, <2>5 DEF Explained, Ahead, Feelings!ScoresOf
  <2>7. Counted => Counted'
    BY <2>1 DEF Counted, Owed
  <2> QED BY <2>1, <2>4, <2>6, <2>7 DEF FeelingInv
<1>4. ASSUME NEW message \in BOOLEAN, Feelings!recordInteraction(message) PROVE FeelingInv'
  <2>1. /\ fan' = [fan EXCEPT !.last = today,
                             !.messages = IF message THEN fan.messages + 1 ELSE fan.messages]
        /\ UNCHANGED <<rels, log, bought, pending, halved, faded, today>>
    BY <1>4 DEF Feelings!recordInteraction
  <2>2. fan' \in [last: Nat \cup {Feelings!Never}, messages: Nat, purchases: Nat]
    <3> DEFINE messages == IF message THEN fan.messages + 1 ELSE fan.messages
    <3>1. messages \in Nat /\ today \in Nat
      BY <1>0 DEF Feelings!TypeOK
    <3>2. fan' = [fan EXCEPT !.last = today, !.messages = messages]
      BY <2>1
    <3> HIDE DEF messages
    <3> QED BY <1>0, <3>1, <3>2 DEF Feelings!TypeOK
  <2>3. Feelings!TypeOK'
    BY <1>0, <2>1, <2>2 DEF Feelings!TypeOK
  <2> QED BY <2>1, <2>3, FeelingsStay
<1>5. CASE Feelings!refreshFanCommercials
  <2>1. /\ fan' = [fan EXCEPT !.purchases = bought]
        /\ UNCHANGED <<rels, log, bought, pending, halved, faded, today>>
    BY <1>5 DEF Feelings!refreshFanCommercials
  <2>2. fan' \in [last: Nat \cup {Feelings!Never}, messages: Nat, purchases: Nat]
    BY <1>0, <2>1 DEF Feelings!TypeOK
  <2>3. Feelings!TypeOK'
    BY <1>0, <2>1, <2>2 DEF Feelings!TypeOK
  <2> QED BY <2>1, <2>3, FeelingsStay
<1>6. CASE Feelings!Buy
  <2>1. bought' = bought + 1 /\ UNCHANGED <<rels, log, fan, pending, halved, faded, today>>
    BY <1>6 DEF Feelings!Buy
  <2>2. Feelings!TypeOK'
    BY <1>0, <2>1 DEF Feelings!TypeOK
  <2> QED BY <2>1, <2>2, FeelingsStay
<1>7. ASSUME NEW days \in Wait, Feelings!Pass(days) PROVE FeelingInv'
  <2>1. /\ today' = today + days /\ days \in Nat
        /\ UNCHANGED <<rels, log, fan, bought, pending, halved, faded>>
    BY <1>7, RelationshipConstants DEF Feelings!Pass
  <2>2. Feelings!TypeOK'
    BY <1>0, <2>1 DEF Feelings!TypeOK
  <2> QED BY <2>1, <2>2, FeelingsStay
<1>8. CASE UNCHANGED feelingVars
  <2>1. UNCHANGED <<rels, log, fan, bought, pending, halved, faded, today>>
    BY <1>8 DEF feelingVars
  <2>2. Feelings!TypeOK'
    BY <1>0, <2>1 DEF Feelings!TypeOK
  <2> QED BY <2>1, <2>2, FeelingsStay
<1> QED BY <1>1, <1>2, <1>3, <1>4, <1>5, <1>6, <1>7, <1>8, ApplyStepHolds DEF Feelings!Next

LEMMA FeelingTyping == AllSpec => []FeelingInv
BY FeelingInit, FeelingStep, Steps, PTL DEF AllSpec, AllInit

(* Unless the server died half-way, what happened with any character is on   *)
(* the global record too, and replaying the events of a scope that has not   *)
(* decayed gives its scores, whatever their weights.                         *)
THEOREM Explains == AllSpec => []Accountable
<1>1. FeelingInv => Accountable
  <2> SUFFICES ASSUME FeelingInv, Feelings!Free, ~halved
               PROVE  /\ \A kind \in Kind :
                           Feelings!Logged(kind, Character) <= Feelings!Logged(kind, {Global})
                      /\ \A s \in Feelings!Scope :
                           faded[s] = 0 => Feelings!ScoresOf(s) = Feelings!Replayed(s)
    BY DEF Accountable, Feelings!Accountable
  <2>1. Len(pending) = 0
    BY DEF Feelings!Free
  <2>2. Explained /\ Counted
    BY DEF FeelingInv
  <2>3. \A s \in Feelings!Scope : faded[s] = 0 => Feelings!ScoresOf(s) = Feelings!Replayed(s)
    BY <2>1, <2>2, ReplayIsOfLog DEF Explained, Ahead
  <2>4. ASSUME NEW kind \in Kind
        PROVE  Feelings!Logged(kind, Character) <= Feelings!Logged(kind, {Global})
    <3>1. Owed(kind) = 0
      BY <2>1 DEF Owed
    <3>2. /\ Cardinality(EventsOf(log, kind, Character)) \in Nat
          /\ Cardinality(EventsOf(log, kind, {Global})) \in Nat
          /\ Cardinality(EventsOf(log, kind, Character))
               <= Cardinality(EventsOf(log, kind, {Global})) + Owed(kind)
      BY <2>2, FS_CardinalityType DEF Counted
    <3> QED BY <3>1, <3>2, LoggedIsCounted
  <2> QED BY <2>3, <2>4
<1> QED BY <1>1, FeelingTyping, PTL

-----------------------------------------------------------------------------
(* The whole workspace                                                       *)

(* The tables of the studio and the CRM hold rows of their schema, whatever  *)
(* component one looks at.                                                   *)
THEOREM WorkspaceTyping == AllSpec => []TypesOK
<1>1. FanInv => Fanbase!TypeOK
  BY DEF FanInv
<1>2. MemoryInv => Memories!TypeOK
  BY DEF MemoryInv
<1>3. FeelingInv => Feelings!TypeOK
  BY DEF FeelingInv
<1>4. ShotInv => Shots!TypeOK
  BY DEF ShotInv
<1>5. /\ TypeOK /\ Shots!TypeOK /\ Deals!TypeOK /\ Furniture!TypeOK
      /\ Fanbase!TypeOK /\ Feelings!TypeOK /\ Memories!TypeOK /\ Pools!TypeOK
      => TypesOK
  BY DEF TypesOK
<1> QED BY <1>1, <1>2, <1>3, <1>4, <1>5, CharactersTyping, ShotTyping, DealTyping,
          FurnitureTyping, FanTyping, FeelingTyping, MemoryTyping, PoolTyping, PTL
=============================================================================
