----------------------------- MODULE References -----------------------------
(* The references of characters (MediaService): assets attached to them in   *)
(* roles, the ruling on an asset, and the approved pool a strict brief draws *)
(* on when it is submitted (GenerationService.resolveReferences).  One       *)
(* server runs the synchronous methods; setApproval() is two statements,     *)
(* between which the server may die.                                         *)
CONSTANTS
  Asset, NoAsset,       \* rows of media_assets
  Character,
  Role, PoolRole        \* the roles a run looks at; those the pool is made of

ReferencesAssumption == NoAsset \notin Asset /\ PoolRole \subseteq Role

VARIABLES
  assets,       \* what media_assets says of each asset
  refs,         \* keys of the rows of character_assets
  approved,     \* those whose row is flagged approved
  ruling,       \* the asset whose rows setApproval() is about to flag
  cut,          \* history: assets whose rows the server did not live to flag
  late,         \* history: rows attached since the last ruling on their asset
  vouched,      \* history: those of them attached as approved
  urls          \* what the last submission passed to the provider

refVars == <<assets, refs, approved, ruling, cut, late, vouched, urls>>

ApprovalState == {"pending", "approved", "rejected", "needs_changes"}
AssetRow == [st: {"live", "deleted", "gone"}, approval: ApprovalState]
(* Under a unique index, so a row is its key and its flag.                   *)
Ref == [character: Character, asset: Asset, role: Role]

TypeOK ==
  /\ assets \in [Asset -> AssetRow]
  /\ approved \subseteq refs /\ late \subseteq refs /\ vouched \subseteq late /\ refs \subseteq Ref
  /\ ruling \in Asset \cup {NoAsset}
  /\ cut \subseteq Asset /\ urls \subseteq Asset

Init ==
  /\ assets = [a \in Asset |-> [st |-> "live", approval |-> "pending"]]
  /\ refs = {} /\ approved = {} /\ late = {} /\ vouched = {}
  /\ ruling = NoAsset
  /\ cut = {} /\ urls = {}

Live(a) == assets[a].st = "live"
Of(a) == {r \in refs : r.asset = a}
Free == ruling = NoAsset

(* The first statement: the asset's own row.                                 *)
setApproval(a, state) ==
  /\ Free /\ Live(a)
  /\ assets' = [assets EXCEPT ![a].approval = state]
  /\ ruling' = a
  /\ UNCHANGED <<refs, approved, cut, late, vouched, urls>>

(* Mutant of FlagReferences: rows are flagged, and never cleared again.      *)
FlagOnApproval ==
  /\ ~Free
  /\ approved' = IF assets[ruling].approval = "approved"
                 THEN approved \cup Of(ruling) ELSE approved
  /\ ruling' = NoAsset
  /\ cut' = cut \ {ruling} /\ late' = late \ Of(ruling) /\ vouched' = vouched \ Of(ruling)
  /\ UNCHANGED <<assets, refs, urls>>

(* The second: every row the asset is referenced by, of any character.       *)
FlagReferences ==
  /\ ~Free
  /\ approved' = IF assets[ruling].approval = "approved"
                 THEN approved \cup Of(ruling) ELSE approved \ Of(ruling)
  /\ ruling' = NoAsset
  /\ cut' = cut \ {ruling} /\ late' = late \ Of(ruling) /\ vouched' = vouched \ Of(ruling)
  /\ UNCHANGED <<assets, refs, urls>>

Crash ==
  /\ ~Free
  /\ cut' = cut \cup {ruling} /\ ruling' = NoAsset
  /\ UNCHANGED <<assets, refs, approved, late, vouched, urls>>

(* A row that is there is returned as it is, whatever the caller says of     *)
(* approval; the asset's own state is not looked at.                         *)
attachToCharacter(ref, ok) ==
  /\ Free /\ Live(ref.asset) /\ ref \notin refs
  /\ refs' = refs \cup {ref} /\ late' = late \cup {ref}
  /\ approved' = IF ok THEN approved \cup {ref} ELSE approved
  /\ vouched' = IF ok THEN vouched \cup {ref} ELSE vouched
  /\ UNCHANGED <<assets, ruling, cut, urls>>

detachFromCharacter(ref) ==
  /\ Free
  /\ refs' = refs \ {ref} /\ approved' = approved \ {ref}
  /\ late' = late \ {ref} /\ vouched' = vouched \ {ref}
  /\ UNCHANGED <<assets, ruling, cut, urls>>

(* delete() and, from the trash or not, purge(); references stay.            *)
Remove(a, st) ==
  /\ Free /\ st \in {"deleted", "gone"}
  /\ Live(a) \/ (st = "gone" /\ assets[a].st = "deleted")
  /\ assets' = [assets EXCEPT ![a].st = st]
  /\ UNCHANGED <<refs, approved, ruling, cut, late, vouched, urls>>

approvedReferences(c) ==
  {r.asset : r \in {s \in approved : s.character = c /\ s.role \in PoolRole /\ Live(s.asset)}}

(* What the brief names goes along as well, approved or not, strict or not.  *)
resolveReferences(c, named, strict) ==
  /\ Free
  /\ urls' = {a \in named \cup (IF strict THEN approvedReferences(c) ELSE {}) : Live(a)}
  /\ UNCHANGED <<assets, refs, approved, ruling, cut, late, vouched>>

Next ==
  \/ FlagReferences \/ Crash
  \/ \E a \in Asset, state \in ApprovalState : setApproval(a, state)
  \/ \E ref \in Ref : detachFromCharacter(ref) \/ \E ok \in BOOLEAN : attachToCharacter(ref, ok)
  \/ \E a \in Asset, st \in {"deleted", "gone"} : Remove(a, st)
  \/ \E c \in Character, named \in SUBSET Asset, strict \in BOOLEAN :
       resolveReferences(c, named, strict)

RefSpec == Init /\ [][Next]_refVars

-----------------------------------------------------------------------------
(* The approved pool of a character holds exactly the live assets for which  *)
(* the last word said on one of their rows in roles of the pool was yes: the *)
(* ruling on the asset, for the rows that were there when it was made, and   *)
(* what the caller said of approval for those attached since.  Only for an   *)
(* asset whose last ruling a crash cut short is nothing said.  (This is the  *)
(* pool a strict brief draws on.  What goes to the provider are also the     *)
(* assets the brief names, on which no ruling is asked for.)                 *)
PoolFollowsRuling ==
  \A c \in Character, a \in Asset \ (cut \cup {ruling}) :
    a \in approvedReferences(c) <=>
      /\ Live(a)
      /\ \E r \in Of(a) : /\ r.character = c /\ r.role \in PoolRole
                         /\ IF r \in late THEN r \in vouched
                                          ELSE assets[a].approval = "approved"
=============================================================================
