------------------------------- MODULE Workspace -------------------------------
(* What the people of a workspace edit: eight components that share no       *)
(* state.  A behaviour is one of a component in Parts, so the states of a    *)
(* run add up and do not multiply, and a theorem about all behaviours is one *)
(* about each component.                                                     *)
EXTENDS Characters

CONSTANTS
  Parts,                                  \* components a run looks at
  Shot, Order, Number, MaxPosition,       \* of ShotOrder
  Deal, Script,                           \* of Pipeline
  Container, Item, Content,               \* of Collections
  Fan, NoFan, Identity, NoIdentity, Tag, Source,          \* of Fans
  Kind, Global, Weight, Amount, Wait, BatchSize,          \* of Relationships
  MaxEvents, MaxCount, MaxDay, MaxDecays,
  Mem, NoMem, Fact, NoFact, MemScope, All, Expiry, MaxAge, MaxPrompt,  \* of Memory
  Asset, NoAsset, Cast, Role, PoolRole    \* of References; Cast are characters

VARIABLES
  part,         \* the component of this behaviour
  shotRows, shotReply,
  deals, scripts, trail,
  containers, items, inserting,
  fans, related, tags, creating, unfinished, answer,
  rels, log, fan, bought, pending, halved, faded, today,
  mems, merging, clock,
  assets, refs, approved, ruling, unflagged, late, vouched, urls

Shots == INSTANCE ShotOrder WITH rows <- shotRows, reply <- shotReply
Deals == INSTANCE Pipeline
Furniture == INSTANCE Collections
Fanbase == INSTANCE Fans WITH cut <- unfinished, reply <- answer
Feelings == INSTANCE Relationships WITH cut <- halved
Memories == INSTANCE Memory WITH Scope <- MemScope, now <- clock
Pools == INSTANCE References WITH Character <- Cast, cut <- unflagged

ASSUME WorkspaceAssumption ==
  /\ Parts \subseteq {"characters", "shots", "pipeline", "collections", "fans",
                      "relationships", "memory", "references"}
  /\ Shots!ShotAssumption /\ Furniture!CollectionsAssumption
  /\ Fanbase!FansAssumption /\ Feelings!RelationshipsAssumption
  /\ Memories!MemoryAssumption /\ Pools!ReferencesAssumption

shotVars == <<shotRows, shotReply>>
dealVars == <<deals, scripts, trail>>
furnitureVars == <<containers, items, inserting>>
fanVars == <<fans, related, tags, creating, unfinished, answer>>
feelingVars == <<rels, log, fan, bought, pending, halved, faded, today>>
memoryVars == <<mems, merging, clock>>
poolVars == <<assets, refs, approved, ruling, unflagged, late, vouched, urls>>

(* The components that are not looked at start in one state.                 *)
AllInit ==
  /\ part \in Parts
  /\ Init /\ Shots!Init /\ Deals!Init /\ Furniture!Init
  /\ Fanbase!Init /\ Feelings!Init /\ Memories!Init /\ Pools!Init
  /\ part = "characters" \/ \A c \in Character :
                               rows[c].profile = CHOOSE profile \in Profile : TRUE

(* A step of one component.                                                  *)
Only(p) ==
  /\ part = p /\ UNCHANGED part
  /\ IF p = "characters" THEN TRUE ELSE UNCHANGED vars
  /\ IF p = "shots" THEN TRUE ELSE UNCHANGED shotVars
  /\ IF p = "pipeline" THEN TRUE ELSE UNCHANGED dealVars
  /\ IF p = "collections" THEN TRUE ELSE UNCHANGED furnitureVars
  /\ IF p = "fans" THEN TRUE ELSE UNCHANGED fanVars
  /\ IF p = "relationships" THEN TRUE ELSE UNCHANGED feelingVars
  /\ IF p = "memory" THEN TRUE ELSE UNCHANGED memoryVars
  /\ IF p = "references" THEN TRUE ELSE UNCHANGED poolVars

AllNext ==
  \/ Only("characters") /\ Next
  \/ Only("shots") /\ Shots!Next
  \/ Only("pipeline") /\ Deals!Next
  \/ Only("collections") /\ Furniture!Next
  \/ Only("fans") /\ Fanbase!Next
  \/ Only("relationships") /\ Feelings!Next
  \/ Only("memory") /\ Memories!Next
  \/ Only("references") /\ Pools!Next

allVars == <<part, vars, shotVars, dealVars, furnitureVars, fanVars, feelingVars,
             memoryVars, poolVars>>

AllSpec == AllInit /\ [][AllNext]_allVars

-----------------------------------------------------------------------------
(* Every component keeps to its types: the tables of the studio and the CRM  *)
(* hold rows of their schema.                                                *)
TypesOK ==
  /\ part = "characters" => TypeOK
  /\ part = "shots" => Shots!TypeOK
  /\ part = "pipeline" => Deals!TypeOK
  /\ part = "collections" => Furniture!TypeOK
  /\ part = "fans" => Fanbase!TypeOK
  /\ part = "relationships" => Feelings!TypeOK
  /\ part = "memory" => Memories!TypeOK
  /\ part = "references" => Pools!TypeOK

(* The properties of the components; each is stated and explained where it   *)
(* is defined.                                                               *)
(* ShotOrder: appends go through, and reordered shots stand as listed.       *)
NumbersHold == Shots!NumbersHold
(* ShotOrder, refuted: a reorder of all visible shots goes through.          *)
ReorderSucceeds == Shots!ReorderSucceeds
(* Pipeline: content goes out only reviewed and signed off, or by a raw      *)
(* patch.                                                                    *)
SignedOffBeforeOut == Deals!SignedOffBeforeOut
(* Pipeline, refuted: stages change by legal moves only.                     *)
WorkflowIsGuarded == Deals!WorkflowIsGuarded
(* References: the approved pool holds what the last word on a row admitted. *)
PoolFollowsRuling == Pools!PoolFollowsRuling
(* Collections: one default wardrobe per character.                          *)
OneDefault == Furniture!OneDefault
(* Fans: findOrCreate answers with the one live holder of the identity.      *)
FoundIsTheOne == Fanbase!FoundIsTheOne
(* Fans, refuted: findOrCreate succeeds.                                     *)
FindOrCreateSucceeds == Fanbase!FindOrCreateSucceeds
(* Relationships: scores are explained by logged events, in both scopes.     *)
Accountable == Feelings!Accountable
(* Memory: repeated facts do not pile up, merged ones are not swallowed.     *)
FactsAreKept == Memories!FactsAreKept
=============================================================================
