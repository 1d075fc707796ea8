------------------------------- MODULE Memory -------------------------------
(* services/memory.ts: what is remembered of one fan.  One server runs the   *)
(* synchronous methods; merge() is an UPDATE per memory without a            *)
(* transaction, so the server may die in the middle of it.  Confidence is    *)
(* low or high; kinds, and the rank retrieve() sorts by, are left open.      *)
EXTENDS Naturals, FiniteSets

CONSTANTS
  Mem, NoMem,           \* ids for rows
  Fact, NoFact,         \* keys
  Scope,                \* the characters, and all of them
  All,                  \* the scope of rows without a character
  Expiry,               \* times a memory may expire at; past MaxAge is never
  MaxAge, MaxPrompt     \* bounds: clock, and rows a retrieval asks for

MemoryAssumption == NoMem \notin Mem /\ MaxAge \in Nat

VARIABLES
  mems,         \* the table memories
  merging,      \* what merge() still has to write
  now           \* the clock

vars == <<mems, merging, now>>

NoRow == [st |-> "absent"]
Row == [st: {"live"}, key: Fact \cup {NoFact}, scope: Scope, sure: BOOLEAN,
        pinned: BOOLEAN, suppressed: BOOLEAN, expires: Expiry, updated: 0..MaxAge,
        wasUsed: BOOLEAN]
(* Of a deleted row only mergedIntoId is kept here: nothing brings it back.  *)
Gone == [st: {"deleted"}, into: Mem \cup {NoMem}]
Deleted(into) == [st |-> "deleted", into |-> into]
NoMerge == [on |-> FALSE, target |-> NoMem, sources |-> {}, sure |-> FALSE]

TypeOK ==
  /\ mems \in [Mem -> Row \cup Gone \cup {NoRow}]
  /\ merging \in [on: BOOLEAN, target: Mem \cup {NoMem}, sources: SUBSET Mem,
                  sure: BOOLEAN]
  /\ now \in 0..MaxAge

Init ==
  /\ mems = [m \in Mem |-> NoRow]
  /\ merging = NoMerge /\ now = 0

Free == ~merging.on
Live(m) == mems[m].st = "live"
Put(m, row) == mems' = [mems EXCEPT ![m] = row]
Idle == UNCHANGED <<merging, now>>

-----------------------------------------------------------------------------
(* Mutant of Same: what is suppressed is overlooked.                         *)
SameVisible(key, scope) ==
  {m \in Mem : Live(m) /\ ~mems[m].suppressed /\ mems[m].key = key /\ mems[m].scope = scope}
Same(key, scope) ==
  {m \in Mem : Live(m) /\ mems[m].key = key /\ mems[m].scope = scope}

(* A fact that is known is made surer, and keeps its pin, its suppression    *)
(* and its expiry; the ones that were asked for are not looked at.           *)
create(key, scope, sure, pinned, expires) ==
  /\ Free
  /\ IF key # NoFact /\ Same(key, scope) # {}
     THEN \E m \in Same(key, scope) : \E surer \in {mems[m].sure, TRUE} :
            Put(m, [mems[m] EXCEPT !.sure = surer, !.updated = now])
     ELSE \E m \in Mem :
            /\ mems[m] = NoRow
            /\ Put(m, [st |-> "live", key |-> key, scope |-> scope, sure |-> sure,
                       pinned |-> pinned, suppressed |-> FALSE,
                       expires |-> expires, updated |-> now, wasUsed |-> FALSE])
  /\ Idle

update(m, sure, pinned) ==
  /\ Free /\ Live(m)
  /\ Put(m, [mems[m] EXCEPT !.sure = sure, !.pinned = pinned, !.updated = now])
  /\ Idle

suppress(m, suppressed) ==
  /\ Free /\ Live(m)
  /\ Put(m, [mems[m] EXCEPT !.suppressed = suppressed, !.updated = now])
  /\ Idle

delete(m) ==
  /\ Free /\ Live(m)
  /\ Put(m, Deleted(NoMem))
  /\ Idle

-----------------------------------------------------------------------------
(* Mutant of Others: a memory may be merged into itself.                     *)
OthersAndSelf(target, ids) == {m \in ids : Live(m)}
(* The sources but for the target and what is not to be found.               *)
Others(target, ids) == {m \in ids \ {target} : Live(m)}

merge(target, ids) ==
  /\ Free /\ Live(target)
  /\ merging' = [on |-> TRUE, target |-> target, sources |-> Others(target, ids),
                 sure |-> mems[target].sure]
  /\ UNCHANGED <<mems, now>>

MergeSource(m) ==
  /\ merging.on /\ m \in merging.sources
  /\ Put(m, Deleted(merging.target))
  /\ merging' = [merging EXCEPT !.sources = @ \ {m}, !.sure = @ \/ mems[m].sure]
  /\ UNCHANGED now

(* The highest confidence, and a little more.                                *)
EndMerge ==
  /\ merging.on /\ merging.sources = {} /\ Live(merging.target)
  /\ \E sure \in {merging.sure, TRUE} :
       Put(merging.target, [mems[merging.target] EXCEPT !.sure = sure, !.updated = now])
  /\ merging' = NoMerge
  /\ UNCHANGED now

Crash ==
  /\ merging.on /\ merging' = NoMerge
  /\ UNCHANGED <<mems, now>>

-----------------------------------------------------------------------------
Expired(m) == mems[m].expires <= now
Retrievable(scope) ==
  {m \in Mem : Live(m) /\ ~mems[m].suppressed /\ ~Expired(m)
                 /\ mems[m].scope \in {scope, All}}

(* Some of the rows, the pinned ones before the others; lastUsedAt is set,   *)
(* and no other operation looks at it.                                       *)
retrieve(scope) ==
  /\ Free
  /\ \E chosen \in SUBSET Retrievable(scope) :
       /\ Cardinality(chosen) <= MaxPrompt
       /\ Cardinality(chosen) < MaxPrompt => chosen = Retrievable(scope)
       /\ \A m \in Retrievable(scope) \ chosen, c \in chosen :
            mems[m].pinned => mems[c].pinned
       /\ mems' = [m \in Mem |-> IF m \in chosen THEN [mems[m] EXCEPT !.wasUsed = TRUE]
                                 ELSE mems[m]]
  /\ Idle

(* Memories that have expired before now, and doubtful ones that were        *)
(* written before a time; when a memory was used is not looked at.           *)
Prunable(olderThan) ==
  {m \in Mem : /\ Live(m) /\ ~mems[m].pinned
               /\ mems[m].expires < now \/ (~mems[m].sure /\ mems[m].updated < olderThan)}

prune(olderThan) ==
  /\ Free
  /\ mems' = [m \in Mem |-> IF m \in Prunable(olderThan)
                            THEN Deleted(NoMem) ELSE mems[m]]
  /\ Idle

Tick == now < MaxAge /\ now' = now + 1 /\ UNCHANGED <<mems, merging>>

Next ==
  \/ \E key \in Fact \cup {NoFact}, scope \in Scope, sure, pinned \in BOOLEAN,
        expires \in Expiry : create(key, scope, sure, pinned, expires)
  \/ \E m \in Mem, b, c \in BOOLEAN : update(m, b, c)
  \/ \E m \in Mem, b \in BOOLEAN : suppress(m, b)
  \/ \E m \in Mem : delete(m) \/ MergeSource(m) \/ \E ids \in SUBSET Mem : merge(m, ids)
  \/ EndMerge \/ Crash \/ Tick
  \/ \E scope \in Scope : retrieve(scope)
  \/ \E olderThan \in 0..now : prune(olderThan)

Spec == Init /\ [][Next]_vars

-----------------------------------------------------------------------------
(* A repeated fact does not pile up: whatever was suppressed, merged, pruned *)
(* or deleted, a fact has one row per scope that can be seen.                *)
OneRowPerFact ==
  \A m, n \in Mem : Live(m) /\ Live(n) /\ mems[m].key # NoFact
    /\ mems[m].key = mems[n].key /\ mems[m].scope = mems[n].scope => m = n

(* A merge never swallows a fact: following mergedInto from a merged memory  *)
(* leads to one that was not merged, wherever the server died.               *)
Into(m) == IF mems[m].st = "deleted" THEN mems[m].into ELSE NoMem
MergesLead ==
  \A chain \in SUBSET Mem : chain # {} => \E m \in chain : Into(m) \notin chain

FactsAreKept == OneRowPerFact /\ MergesLead
=============================================================================
