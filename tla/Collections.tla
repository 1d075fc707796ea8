----------------------------- MODULE Collections -----------------------------
(* What a character's studio is furnished with: wardrobes, inspiration       *)
(* boards and homes, and the items of the first two (WardrobeService,        *)
(* InspirationService, HomeService).  One server runs the synchronous        *)
(* methods; createWardrobe is two statements without a transaction, between  *)
(* which the server may die, the other methods are a step.                   *)
CONSTANTS
  Character, NoCharacter,
  Container, Item,      \* ids for rows
  Content               \* what the other columns of an item hold

CollectionsAssumption == NoCharacter \notin Character

VARIABLES
  containers,   \* the tables wardrobes, inspiration_boards and homes
  items,        \* the tables wardrobe_items and inspiration_assets
  inserting     \* the wardrobe createWardrobe is about to insert, if any

vars == <<containers, items, inserting>>

Owner == Character \cup {NoCharacter}
Wardrobe == [st: {"live"}, kind: {"wardrobe"}, owner: Owner, isDefault: BOOLEAN]
(* There is no operation that deletes a wardrobe.                            *)
Board == [st: {"live", "deleted"}, kind: {"board"}, owner: Owner, isDefault: {FALSE}]
Home == [st: {"live", "deleted"}, kind: {"home"}, owner: Owner, isDefault: {FALSE}]
NoRow == [st |-> "absent"]
ItemRow == [st: {"live", "deleted"}, in: Container, content: Content, locked: BOOLEAN]

TypeOK ==
  /\ containers \in [Container -> Wardrobe \cup Board \cup Home \cup {NoRow}]
  /\ items \in [Item -> ItemRow \cup {NoRow}]
  /\ inserting \in Wardrobe \cup {NoRow}

Init ==
  /\ containers = [c \in Container |-> NoRow]
  /\ items = [i \in Item |-> NoRow]
  /\ inserting = NoRow

Free == inserting = NoRow
IsWardrobe(c) == containers[c].st = "live" /\ containers[c].kind = "wardrobe"
InsertContainer(row) ==
  \E c \in Container :
    containers[c] = NoRow /\ containers' = [containers EXCEPT ![c] = row]

-----------------------------------------------------------------------------
(* Wardrobes                                                                 *)

Cleared(owner) ==
  [c \in Container |->
     IF IsWardrobe(c) /\ containers[c].owner = owner
     THEN [containers[c] EXCEPT !.isDefault = FALSE] ELSE containers[c]]

(* Mutant of ClearDefaults: the defaults that are there stay.                *)
ClearDefaultsNever(row) == containers' = containers

(* Only a default of a character displaces the others of that character.     *)
ClearDefaults(row) ==
  containers' = IF row.isDefault /\ row.owner # NoCharacter
                THEN Cleared(row.owner) ELSE containers

createWardrobe(row) ==
  /\ Free
  /\ ClearDefaults(row)
  /\ inserting' = row
  /\ UNCHANGED items

InsertWardrobe ==
  /\ ~Free
  /\ InsertContainer(inserting)
  /\ inserting' = NoRow
  /\ UNCHANGED items

(* The server dies, or the insert fails, and the defaults stay cleared.      *)
Abandon ==
  /\ ~Free
  /\ inserting' = NoRow
  /\ UNCHANGED <<containers, items>>

-----------------------------------------------------------------------------
(* Boards and homes                                                          *)

Create(row) ==
  /\ Free /\ row.st = "live"
  /\ InsertContainer(row)
  /\ UNCHANGED <<items, inserting>>

IsA(c, kind) == containers[c].st = "live" /\ containers[c].kind = kind
Change(c, row) ==
  /\ Free
  /\ containers' = [containers EXCEPT ![c] = row]
  /\ UNCHANGED <<items, inserting>>

createBoard(row) == row \in Board /\ Create(row)
updateBoard(c, owner) ==
  IsA(c, "board") /\ Change(c, [containers[c] EXCEPT !.owner = owner])
(* The items of a deleted board stay as they are.                            *)
deleteBoard(c) == IsA(c, "board") /\ Change(c, [containers[c] EXCEPT !.st = "deleted"])

createHome(row) == row \in Home /\ Create(row)
updateHome(c, owner) ==
  IsA(c, "home") /\ Change(c, [containers[c] EXCEPT !.owner = owner])
deleteHome(c) == IsA(c, "home") /\ Change(c, [containers[c] EXCEPT !.st = "deleted"])

-----------------------------------------------------------------------------
(* Items                                                                     *)

InsertItem(row) ==
  /\ \E i \in Item : items[i] = NoRow /\ items' = [items EXCEPT ![i] = row]
  /\ UNCHANGED <<containers, inserting>>

(* createItem of a wardrobe, addItem of a board: the parent has to be seen.  *)
createItem(c, content) ==
  /\ Free /\ containers[c].st = "live" /\ containers[c].kind # "home"
  /\ InsertItem([st |-> "live", in |-> c, content |-> content, locked |-> FALSE])

Editable(i) == items[i].st = "live" /\ containers[items[i].in].kind = "wardrobe"

(* A patch of a locked item goes through only when it unlocks the item; it   *)
(* may also move the item to another wardrobe.                               *)
updateItem(i, patch) ==
  /\ Free /\ Editable(i)
  /\ items[i].locked => ~patch.locked
  /\ IsWardrobe(patch.in)
  /\ items' = [items EXCEPT ![i] = [st |-> "live", in |-> patch.in,
                                     content |-> patch.content, locked |-> patch.locked]]
  /\ UNCHANGED <<containers, inserting>>

duplicateItem(i) ==
  /\ Free /\ Editable(i)
  /\ InsertItem([items[i] EXCEPT !.locked = FALSE])

Trash(i) ==
  /\ Free /\ items[i].st = "live"
  /\ items' = [items EXCEPT ![i].st = "deleted"]
  /\ UNCHANGED <<containers, inserting>>

deleteItem(i) == Trash(i) /\ containers[items[i].in].kind = "wardrobe"
removeItem(i) == Trash(i) /\ containers[items[i].in].kind = "board"

Next ==
  \/ \E row \in Wardrobe : createWardrobe(row)
  \/ InsertWardrobe \/ Abandon
  \/ \E row \in Board \cup Home : createBoard(row) \/ createHome(row)
  \/ \E c \in Container, owner \in Owner : updateBoard(c, owner) \/ updateHome(c, owner)
  \/ \E c \in Container : deleteBoard(c) \/ deleteHome(c)
  \/ \E c \in Container, content \in Content : createItem(c, content)
  \/ \E i \in Item, patch \in [in: Container, content: Content, locked: BOOLEAN] :
       updateItem(i, patch)
  \/ \E i \in Item : duplicateItem(i) \/ deleteItem(i) \/ removeItem(i)

Spec == Init /\ [][Next]_vars

-----------------------------------------------------------------------------
(* Whatever is created and whenever the server dies, a character has at most *)
(* one default wardrobe (services/studio.ts:62).                             *)
OneDefault ==
  \A c, d \in Container :
    IsWardrobe(c) /\ IsWardrobe(d) /\ containers[c].isDefault /\ containers[d].isDefault
      /\ containers[c].owner = containers[d].owner /\ containers[c].owner # NoCharacter
    => c = d
=============================================================================
