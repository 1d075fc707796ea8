---------------------------- MODULE Studio_proofs ----------------------------
(* Theorems about the studio: characters and their versions, the numbers of  *)
(* shots, the stages of deals, the furniture, the approved references.  They *)
(* hold for every set of rows, for lists of ids and bounds of any size.      *)
EXTENDS Workspace, TLAPS, SequenceTheorems, WellFoundedInduction

-----------------------------------------------------------------------------
(* Induction and recursion, with sets of numbers and functions in the place  *)
(* of predicates and operators                                               *)

LEMMA Induction ==
  ASSUME NEW T \in SUBSET Nat, 0 \in T, \A n \in T : n + 1 \in T
  PROVE  T = Nat
<1> SUFFICES ASSUME Nat \ T # {} PROVE FALSE
  OBVIOUS
<1> DEFINE R == {ss \in Nat \X Nat : ss[1] < ss[2]}
<1>1. IsWellFoundedOn(R, Nat)
  BY NatLessThanWellFounded DEF OpToRel
<1> HIDE DEF R
<1>2. PICK m \in Nat \ T : \A n \in Nat \ T : <<n, m>> \notin R
  BY <1>1, WFMin
<1>3. \A n \in Nat \ T : ~(n < m)
  BY <1>2 DEF R
<1>4. m # 0 /\ m - 1 \in Nat /\ m - 1 < m /\ (m - 1) + 1 = m
  BY <1>2
<1>5. m - 1 \in T
  BY <1>3, <1>4
<1> QED BY <1>2, <1>4, <1>5

(* The first n + 1 values of a recursive function.                           *)
Follows(g, n, S, a, F) ==
  /\ g \in [0..n -> S] /\ g[0] = a
  /\ \A i \in 1..n : g[i] = F[i][g[i - 1]]

LEMMA Beginnings ==
  ASSUME NEW S, NEW a \in S, NEW F \in [Nat -> [S -> S]]
  PROVE  \A n \in Nat : \E g : Follows(g, n, S, a, F)
<1> DEFINE T == {n \in Nat : \E g : Follows(g, n, S, a, F)}
<1>1. 0 \in T
  <2>1. Follows([i \in 0..0 |-> a], 0, S, a, F)
    BY DEF Follows
  <2> QED BY <2>1
<1>2. ASSUME NEW n \in T PROVE n + 1 \in T
  <2>1. PICK g : Follows(g, n, S, a, F)
    OBVIOUS
  <2>2. n \in Nat /\ g \in [0..n -> S] /\ g[0] = a
        /\ \A i \in 1..n : g[i] = F[i][g[i - 1]]
    BY <2>1 DEF Follows
  <2> DEFINE h == [i \in 0..(n + 1) |-> IF i = n + 1 THEN F[i][g[i - 1]] ELSE g[i]]
  <2>3. g[n] \in S /\ F[n + 1][g[n]] \in S
    BY <2>2
  <2>4. h \in [0..(n + 1) -> S] /\ h[0] = a
    BY <2>2, <2>3
  <2>5. ASSUME NEW i \in 1..(n + 1) PROVE h[i] = F[i][h[i - 1]]
    BY <2>2
  <2>6. Follows(h, n + 1, S, a, F)
    BY <2>4, <2>5 DEF Follows
  <2> QED BY <2>2, <2>6
<1> HIDE DEF T
<1>3. T = Nat
  <2>1. T \in SUBSET Nat
    BY DEF T
  <2> QED BY <1>1, <1>2, <2>1, Induction
<1> QED BY <1>3 DEF T

LEMMA Agree ==
  ASSUME NEW S, NEW a \in S, NEW F \in [Nat -> [S -> S]],
         NEW m \in Nat, NEW n \in Nat, m <= n, NEW g, NEW h,
         Follows(g, m, S, a, F), Follows(h, n, S, a, F)
  PROVE  \A i \in 0..m : g[i] = h[i]
<1> DEFINE T == {i \in Nat : i <= m => g[i] = h[i]}
<1>1. 0 \in T
  BY DEF Follows
<1>2. ASSUME NEW i \in T PROVE i + 1 \in T
  <2> SUFFICES ASSUME i + 1 <= m PROVE g[i + 1] = h[i + 1]
    OBVIOUS
  <2>1. g[i] = h[i] /\ i + 1 \in 1..m /\ i + 1 \in 1..n /\ (i + 1) - 1 = i
    OBVIOUS
  <2> QED BY <2>1 DEF Follows
<1> HIDE DEF T
<1>3. T = Nat
  <2>1. T \in SUBSET Nat
    BY DEF T
  <2> QED BY <1>1, <1>2, <2>1, Induction
<1> QED BY <1>3 DEF T

LEMMA Recursion ==
  ASSUME NEW S, NEW a \in S, NEW F \in [Nat -> [S -> S]]
  PROVE  \E g \in [Nat -> S] :
           g[0] = a /\ \A n \in Nat \ {0} : g[n] = F[n][g[n - 1]]
<1> DEFINE First(n) == CHOOSE g : Follows(g, n, S, a, F)
           g == [n \in Nat |-> First(n)[n]]
<1>1. \A n \in Nat : Follows(First(n), n, S, a, F)
  BY Beginnings
<1> HIDE DEF First
<1>2. g \in [Nat -> S]
  BY <1>1 DEF Follows
<1>3. g[0] = a
  BY <1>1 DEF Follows
<1>4. ASSUME NEW n \in Nat \ {0} PROVE g[n] = F[n][g[n - 1]]
  <2>1. n - 1 \in Nat /\ n - 1 <= n /\ n \in 1..n /\ n - 1 \in 0..(n - 1)
    OBVIOUS
  <2>2. First(n - 1)[n - 1] = First(n)[n - 1]
    BY <1>1, <2>1, Agree
  <2>3. First(n)[n] = F[n][First(n)[n - 1]]
    BY <1>1, <2>1 DEF Follows
  <2> QED BY <2>1, <2>2, <2>3
<1> QED BY <1>2, <1>3, <1>4

-----------------------------------------------------------------------------
(* A step of a workspace is a step of each component, or leaves it alone     *)

LEMMA Steps ==
  [AllNext]_allVars =>
    /\ [Next]_vars /\ [Shots!Next]_shotVars /\ [Deals!Next]_dealVars
    /\ [Furniture!Next]_furnitureVars /\ [Fanbase!Next]_fanVars
    /\ [Feelings!Next]_feelingVars /\ [Memories!Next]_memoryVars
    /\ [Pools!Next]_poolVars
BY DEF AllNext, Only, allVars

-----------------------------------------------------------------------------
(* What the operations write                                                 *)

LEMMA Members ==
  ASSUME NEW row \in Row
  PROVE  /\ row.st \in {"absent", "live", "deleted"} /\ row.profile \in Profile
         /\ row.locks \in SUBSET LockableField
         /\ row.username \in Username \cup {NoUsername} /\ row.archived \in BOOLEAN
         /\ row.generated \in BOOLEAN
BY DEF Row

(* A patch of a row is a row.                                                *)
LEMMA Collects ==
  ASSUME NEW row \in Row
  PROVE  /\ [row EXCEPT !.generated = TRUE] \in Row
         /\ \A old : Keeps(old, row) => Keeps(old, [row EXCEPT !.generated = TRUE])
BY DEF Row, Keeps

LEMMA Patches ==
  ASSUME NEW row \in Row, NEW profile \in Profile, NEW locks \in SUBSET LockableField,
         NEW name \in Username \cup {NoUsername}
  PROVE  /\ [row EXCEPT !.profile = profile, !.locks = locks, !.username = name] \in Row
         /\ [row EXCEPT !.archived = TRUE] \in Row
         /\ [row EXCEPT !.st = "deleted"] \in Row
         /\ [row EXCEPT !.locks = locks] \in Row
         /\ \A old : Keeps(old, row) => /\ Keeps(old, [row EXCEPT !.archived = TRUE])
                                       /\ Keeps(old, [row EXCEPT !.st = "deleted"])
                                       /\ Keeps(old, [row EXCEPT !.locks = locks])
BY DEF Row, Keeps

-----------------------------------------------------------------------------
(* Types                                                                     *)

LEMMA CharactersInit == Init => TypeOK
<1> SUFFICES ASSUME Init PROVE TypeOK
  OBVIOUS
<1>1. rows \in [Character -> Row]
  BY DEF Init
<1>2. versions \in [Character -> Seq(Row)]
  BY DEF Init
<1> QED BY <1>1, <1>2 DEF Init, TypeOK, Actor

LEMMA CharactersStep == TypeOK /\ [Next]_vars => TypeOK'
<1> SUFFICES ASSUME TypeOK, [Next]_vars PROVE TypeOK'
  OBVIOUS
<1>0. \A c \in Character : rows[c] \in Row /\ versions[c] \in Seq(Row)
  BY DEF TypeOK
<1>1. ASSUME NEW c \in Character, NEW row \in Row, NEW by \in Actor,
             NEW op \in {"create", "update"}, Save(c, row), Called(op, by)
      PROVE  TypeOK'
  BY <1>1 DEF Save, Called, TypeOK
<1>2. ASSUME NEW c \in Character, NEW row \in Row, NEW by \in Actor,
             NEW op \in {"setLock", "archive", "delete", "restore"},
               Patch(c, row, op, by)
      PROVE  TypeOK'
  BY <1>2 DEF Patch, Called, TypeOK
<1>3. ASSUME NEW c \in Character, NEW profile \in Profile, NEW by \in Actor,
             NEW name \in Username \cup {NoUsername}, create(c, profile, name, by)
      PROVE  TypeOK'
  <2>1. [st |-> "live", profile |-> profile, locks |-> {}, username |-> name,
         archived |-> FALSE, generated |-> FALSE] \in Row
    BY DEF Row
  <2> QED BY <1>1, <1>3, <2>1 DEF create
<1>4. ASSUME NEW c \in Character, NEW profile \in Profile, NEW by \in Actor,
             NEW name \in Username \cup {NoUsername},
             NEW columns \in SUBSET Column, NEW locks \in SUBSET LockableField,
             update(c, columns, profile, locks, name, by)
      PROVE  TypeOK'
  <2> DEFINE merged == [col \in Column |-> IF col \in columns THEN profile[col]
                                           ELSE rows[c].profile[col]]
  <2>1. merged \in Profile
    <3>1. rows[c].profile \in Profile
      BY <1>0, Members
    <3> QED BY <3>1 DEF Profile
  <2>2. [rows[c] EXCEPT !.profile = merged, !.locks = locks, !.username = name] \in Row
    BY <1>0, <2>1, Patches
  <2> QED BY <1>1, <1>4, <2>2 DEF update
<1>5. CASE snapshot
  <2>1. Append(versions[unsaved], rows[unsaved]) \in Seq(Row)
    BY <1>0, <1>5, AppendProperties DEF snapshot, TypeOK
  <2> QED BY <1>5, <2>1 DEF snapshot, TypeOK
<1>6. CASE Crash
  BY <1>6 DEF Crash, TypeOK
<1>7. ASSUME NEW c \in Character, NEW by \in Actor, archive(c, by) \/ delete(c, by)
      PROVE  TypeOK'
  BY <1>0, <1>2, <1>7, Patches, Members DEF archive, delete
<1>8. ASSUME NEW c \in Character, NEW by \in Actor,
             NEW field \in LockableField, NEW locked \in BOOLEAN,
             setLock(c, field, locked, by)
      PROVE  TypeOK'
  <2> DEFINE locks == IF locked THEN rows[c].locks \cup {field} ELSE rows[c].locks \ {field}
  <2>1. locks \in SUBSET LockableField
    BY <1>0, Members
  <2>2. ASSUME NEW s \in SUBSET LockableField PROVE [rows[c] EXCEPT !.locks = s] \in Row
    BY <1>0, Patches, Members
  <2>3. [rows[c] EXCEPT !.locks = locks] \in Row
    BY <2>1, <2>2
  <2> QED BY <1>2, <1>8, <2>3 DEF setLock
<1>9. ASSUME NEW c \in Character, NEW by \in Actor, NEW n \in DOMAIN versions[c],
             restoreVersion(c, n, by)
      PROVE  TypeOK'
  <2>1. versions[c][n] \in Row
    BY <1>0
  <2> QED BY <1>2, <1>9, <2>1 DEF restoreVersion
<1>10. ASSUME NEW c \in Character, collected(c)
       PROVE  TypeOK'
  <2>1. [rows[c] EXCEPT !.generated = TRUE] \in Row
    BY <1>0, Collects
  <2> QED BY <1>10, <2>1 DEF collected, TypeOK
<1>11. CASE UNCHANGED vars
  BY <1>11 DEF vars, TypeOK
<1> QED BY <1>3, <1>4, <1>5, <1>6, <1>7, <1>8, <1>9, <1>10, <1>11 DEF Next

(* Whatever is created, patched, restored and interrupted, rows are rows and *)
(* the versions of a character are a sequence of them.                       *)
THEOREM CharactersTyping == AllSpec => []TypeOK
BY CharactersInit, CharactersStep, Steps, PTL DEF AllSpec, AllInit

-----------------------------------------------------------------------------
(* Content is versioned                                                      *)

LEMMA VersionedInit == Init => ContentIsVersioned
BY DEF Init, ContentIsVersioned

LEMMA VersionedStep == TypeOK /\ ContentIsVersioned /\ [Next]_vars => ContentIsVersioned'
<1> SUFFICES ASSUME TypeOK, ContentIsVersioned, [Next]_vars PROVE ContentIsVersioned'
  OBVIOUS
<1>0. \A c \in Character : rows[c] \in Row /\ versions[c] \in Seq(Row)
  BY DEF TypeOK
(* A save replaces the row of a character nobody else is being saved for.    *)
<1>1. ASSUME NEW c \in Character, NEW row, Save(c, row), unsaved = NoCharacter
      PROVE  ContentIsVersioned'
  <2>1. \A d \in Character \ {c} : rows'[d] = rows[d]
    BY <1>1 DEF Save, TypeOK
  <2> QED BY <1>1, <2>1, CharactersAssumption DEF Save, ContentIsVersioned
(* A patch keeps the profile, or takes it from a snapshot.                   *)
<1>2. ASSUME NEW c \in Character, NEW row, NEW op, NEW by, Patch(c, row, op, by),
             \/ op # "restore" /\ \A old : Keeps(old, rows[c]) => Keeps(old, row)
             \/ \E n \in DOMAIN versions[c] : Keeps(versions[c][n], row)
      PROVE  ContentIsVersioned'
  <2>1. /\ rows'[c] = row /\ \A d \in Character \ {c} : rows'[d] = rows[d]
        /\ versions' = versions /\ unsaved' = unsaved /\ unsaved = NoCharacter
        /\ cut \ {c} \subseteq cut' /\ (op # "restore" => cut' = cut)
    BY <1>2 DEF Patch, Live, TypeOK
  <2>2. rows[c].st = "live"
    BY <1>2 DEF Patch, Live
  <2>3. ASSUME NEW d \in Character
        PROVE  \/ rows'[d].st = "absent" \/ d \in cut' \cup {unsaved'}
               \/ \E n \in DOMAIN versions'[d] : Keeps(versions'[d][n], rows'[d])
    <3>1. CASE d # c
      BY <2>1, <3>1 DEF ContentIsVersioned
    <3>2. CASE d = c /\ op # "restore" /\ \A old : Keeps(old, rows[c]) => Keeps(old, row)
      BY <2>1, <2>2, <3>2 DEF ContentIsVersioned
    <3>3. CASE d = c /\ \E n \in DOMAIN versions[c] : Keeps(versions[c][n], row)
      BY <2>1, <3>3
    <3> QED BY <1>2, <3>1, <3>2, <3>3
  <2> QED BY <2>3 DEF ContentIsVersioned
<1>3. ASSUME NEW c \in Character, NEW profile \in Profile, NEW by \in Actor,
             NEW name \in Username \cup {NoUsername}, create(c, profile, name, by)
      PROVE  ContentIsVersioned'
  BY <1>1, <1>3 DEF create
<1>4. ASSUME NEW c \in Character, NEW profile \in Profile, NEW by \in Actor,
             NEW name \in Username \cup {NoUsername},
             NEW columns \in SUBSET Column, NEW locks \in SUBSET LockableField,
             update(c, columns, profile, locks, name, by)
      PROVE  ContentIsVersioned'
  BY <1>1, <1>4 DEF update, Live
<1>5. CASE snapshot
  <2> DEFINE c == unsaved
             s == versions[c]
  <2>1. c \in Character /\ rows' = rows /\ unsaved' = NoCharacter /\ cut' = cut \ {c}
    BY <1>5 DEF snapshot, TypeOK
  <2>2. versions'[c] = Append(s, rows[c]) /\ \A d \in Character \ {c} : versions'[d] = versions[d]
    BY <1>5, <2>1 DEF snapshot, TypeOK
  <2>3. \E n \in DOMAIN versions'[c] : Keeps(versions'[c][n], rows'[c])
    <3>1. s \in Seq(Row) /\ rows[c] \in Row
      BY <1>0, <2>1
    <3>2. /\ Len(Append(s, rows[c])) = Len(s) + 1 /\ Len(s) \in Nat
          /\ Append(s, rows[c]) \in Seq(Row)
          /\ Append(s, rows[c])[Len(s) + 1] = rows[c]
      BY <3>1, AppendProperties
    <3>3. Len(s) + 1 \in DOMAIN Append(s, rows[c])
      BY <3>2
    <3> QED BY <2>1, <2>2, <3>2, <3>3 DEF Keeps
  <2> QED BY <2>1, <2>2, <2>3 DEF ContentIsVersioned
<1>6. CASE Crash
  BY <1>6 DEF Crash, ContentIsVersioned
<1>7. ASSUME NEW c \in Character, NEW by \in Actor, archive(c, by) \/ delete(c, by)
      PROVE  ContentIsVersioned'
  BY <1>0, <1>2, <1>7, Patches, Members DEF archive, delete
<1>8. ASSUME NEW c \in Character, NEW by \in Actor,
             NEW field \in LockableField, NEW locked \in BOOLEAN,
             setLock(c, field, locked, by)
      PROVE  ContentIsVersioned'
  <2> DEFINE locks == IF locked THEN rows[c].locks \cup {field} ELSE rows[c].locks \ {field}
  <2>1. locks \in SUBSET LockableField
    BY <1>0, Members
  <2>2. ASSUME NEW s \in SUBSET LockableField
        PROVE  \A old : Keeps(old, rows[c]) => Keeps(old, [rows[c] EXCEPT !.locks = s])
    BY <1>0, Patches, Members
  <2>3. \A old : Keeps(old, rows[c]) => Keeps(old, [rows[c] EXCEPT !.locks = locks])
    BY <2>1, <2>2
  <2> QED BY <1>2, <1>8, <2>3 DEF setLock
<1>9. ASSUME NEW c \in Character, NEW by \in Actor, NEW n \in DOMAIN versions[c],
             restoreVersion(c, n, by)
      PROVE  ContentIsVersioned'
  BY <1>2, <1>9 DEF restoreVersion, Keeps
<1>10. ASSUME NEW c \in Character, collected(c)
       PROVE  ContentIsVersioned'
  <2> DEFINE row == [rows[c] EXCEPT !.generated = TRUE]
  <2>1. \A old : Keeps(old, rows[c]) => Keeps(old, row)
    BY <1>0, Collects
  <2>2. /\ rows' = [rows EXCEPT ![c] = row]
        /\ versions' = versions /\ unsaved' = unsaved /\ cut' = cut
        /\ rows[c].st # "absent"
    BY <1>10 DEF collected
  <2> HIDE DEF row
  <2>3. rows'[c] = row /\ \A d \in Character \ {c} : rows'[d] = rows[d]
    BY <2>2 DEF TypeOK
  <2> QED BY <2>1, <2>2, <2>3 DEF ContentIsVersioned
<1>11. CASE UNCHANGED vars
  BY <1>11 DEF vars, ContentIsVersioned
<1> QED BY <1>3, <1>4, <1>5, <1>6, <1>7, <1>8, <1>9, <1>10, <1>11 DEF Next

(* What a profile holds is in a snapshot, unless the server died before that *)
(* was written, and in one that can be restored if no render was collected   *)
(* for the character since it was created or last restored.                  *)
THEOREM Versioned == AllSpec => []ContentIsVersioned
BY CharactersTyping, VersionedInit, VersionedStep, Steps, PTL DEF AllSpec, AllInit
-----------------------------------------------------------------------------
(* The approved references                                                   *)

LEMMA PoolTypeInit == Pools!Init => Pools!TypeOK
BY WorkspaceAssumption DEF Pools!ReferencesAssumption, Pools!Init, Pools!TypeOK,
   Pools!AssetRow, Pools!ApprovalState

LEMMA PoolTypeStep == Pools!TypeOK /\ [Pools!Next]_poolVars => Pools!TypeOK'
<1> SUFFICES ASSUME Pools!TypeOK, [Pools!Next]_poolVars PROVE Pools!TypeOK'
  OBVIOUS
<1>1. ASSUME NEW a \in Asset, NEW state \in Pools!ApprovalState,
             Pools!setApproval(a, state)
      PROVE  Pools!TypeOK'
  BY <1>1 DEF Pools!setApproval, Pools!TypeOK, Pools!AssetRow
<1>2. CASE Pools!FlagReferences
  <2>1. ruling \in Asset
    BY <1>2 DEF Pools!FlagReferences, Pools!Free, Pools!TypeOK
  <2>2. /\ approved' \subseteq approved \cup Pools!Of(ruling)
        /\ late' = late \ Pools!Of(ruling) /\ vouched' = vouched \ Pools!Of(ruling)
        /\ UNCHANGED <<assets, refs, urls>>
        /\ ruling' = NoAsset /\ unflagged' \subseteq unflagged
    BY <1>2 DEF Pools!FlagReferences
  <2> QED BY <2>2 DEF Pools!TypeOK, Pools!Of
<1>3. CASE Pools!Crash
  BY <1>3 DEF Pools!Crash, Pools!Free, Pools!TypeOK
<1>4. ASSUME NEW ref \in Pools!Ref, NEW ok \in BOOLEAN, Pools!attachToCharacter(ref, ok)
      PROVE  Pools!TypeOK'
  BY <1>4 DEF Pools!attachToCharacter, Pools!TypeOK
<1>5. ASSUME NEW ref \in Pools!Ref, Pools!detachFromCharacter(ref) PROVE Pools!TypeOK'
  BY <1>5 DEF Pools!detachFromCharacter, Pools!TypeOK
<1>6. ASSUME NEW a \in Asset, NEW st \in {"deleted", "gone"}, Pools!Remove(a, st)
      PROVE  Pools!TypeOK'
  BY <1>6 DEF Pools!Remove, Pools!TypeOK, Pools!AssetRow
<1>7. ASSUME NEW c \in Cast, NEW named \in SUBSET Asset, NEW strict \in BOOLEAN,
             Pools!resolveReferences(c, named, strict)
      PROVE  Pools!TypeOK'
  <2>1. Pools!approvedReferences(c) \subseteq Asset
    BY DEF Pools!approvedReferences, Pools!TypeOK, Pools!Ref
  <2> QED BY <1>7, <2>1 DEF Pools!resolveReferences, Pools!TypeOK
<1>8. CASE UNCHANGED poolVars
  BY <1>8 DEF poolVars, Pools!TypeOK
<1> QED BY <1>1, <1>2, <1>3, <1>4, <1>5, <1>6, <1>7, <1>8 DEF Pools!Next

(* Every flagged or late row is a row, whatever is ruled, attached, removed  *)
(* and interrupted; what goes to a provider are assets.                      *)
THEOREM PoolTyping == AllSpec => []Pools!TypeOK
BY PoolTypeInit, PoolTypeStep, Steps, PTL DEF AllSpec, AllInit

-----------------------------------------------------------------------------
(* The rows an asset had when it was last ruled on carry that ruling, the    *)
(* later ones what was said when they were attached, row by row; the pool is *)
(* a union of them.                                                          *)
FlagFollowsRuling ==
  \A r \in refs :
    r.asset \notin unflagged \cup {ruling} =>
      (r \in approved <=> IF r \in late THEN r \in vouched
                                      ELSE assets[r.asset].approval = "approved")

LEMMA FlagInit == Pools!Init => FlagFollowsRuling
BY DEF Pools!Init, FlagFollowsRuling

LEMMA FlagStep ==
  Pools!TypeOK /\ FlagFollowsRuling /\ [Pools!Next]_poolVars => FlagFollowsRuling'
<1> SUFFICES ASSUME Pools!TypeOK, FlagFollowsRuling, [Pools!Next]_poolVars
             PROVE  FlagFollowsRuling'
  OBVIOUS
<1>0. \A r \in refs : r.asset \in Asset /\ r.asset # NoAsset
  BY WorkspaceAssumption DEF Pools!ReferencesAssumption, Pools!TypeOK, Pools!Ref
<1>1. ASSUME NEW a \in Asset, NEW state \in Pools!ApprovalState,
             Pools!setApproval(a, state)
      PROVE  FlagFollowsRuling'
  <2>1. \A b \in Asset : b # a => assets'[b] = assets[b]
    BY <1>1 DEF Pools!setApproval, Pools!TypeOK
  <2>2. ruling = NoAsset /\ ruling' = a /\ UNCHANGED <<refs, approved, unflagged, late, vouched>>
    BY <1>1 DEF Pools!setApproval, Pools!Free
  <2> QED BY <1>0, <2>1, <2>2 DEF FlagFollowsRuling
<1>2. CASE Pools!FlagReferences
  <2>1. /\ ruling' = NoAsset /\ unflagged' = unflagged \ {ruling}
        /\ late' = late \ Pools!Of(ruling) /\ vouched' = vouched \ Pools!Of(ruling)
        /\ UNCHANGED <<assets, refs>>
        /\ approved' = IF assets[ruling].approval = "approved"
                       THEN approved \cup Pools!Of(ruling) ELSE approved \ Pools!Of(ruling)
    BY <1>2 DEF Pools!FlagReferences
  <2>2. ASSUME NEW r \in refs', r.asset \notin unflagged' \cup {ruling'}
        PROVE  r \in approved' <=> IF r \in late' THEN r \in vouched'
                                                ELSE assets'[r.asset].approval = "approved"
    <3>1. CASE r.asset = ruling
      BY <2>1, <2>2, <3>1 DEF Pools!Of
    <3>2. CASE r.asset # ruling
      BY <2>1, <2>2, <3>2 DEF Pools!Of, FlagFollowsRuling
    <3> QED BY <3>1, <3>2
  <2> QED BY <2>2 DEF FlagFollowsRuling
<1>3. CASE Pools!Crash
  BY <1>3 DEF Pools!Crash, FlagFollowsRuling
<1>4. ASSUME NEW ref \in Pools!Ref, NEW ok \in BOOLEAN, Pools!attachToCharacter(ref, ok)
      PROVE  FlagFollowsRuling'
  <2>1. /\ ref \notin refs /\ refs' = refs \cup {ref} /\ late' = late \cup {ref}
        /\ approved' = (IF ok THEN approved \cup {ref} ELSE approved)
        /\ vouched' = (IF ok THEN vouched \cup {ref} ELSE vouched)
        /\ UNCHANGED <<assets, ruling, unflagged>>
    BY <1>4 DEF Pools!attachToCharacter
  <2>2. ref \notin approved /\ ref \notin vouched
    BY <2>1 DEF Pools!TypeOK
  <2>3. (ref \in approved' <=> ok) /\ (ref \in vouched' <=> ok) /\ ref \in late'
    BY <2>1, <2>2
  <2>4. \A r \in refs : /\ r # ref /\ (r \in late' <=> r \in late)
                        /\ r \in approved' <=> r \in approved
                        /\ r \in vouched' <=> r \in vouched
    BY <2>1
  <2> QED BY <2>1, <2>3, <2>4 DEF FlagFollowsRuling
<1>5. ASSUME NEW ref \in Pools!Ref, Pools!detachFromCharacter(ref)
      PROVE  FlagFollowsRuling'
  BY <1>5 DEF Pools!detachFromCharacter, FlagFollowsRuling
<1>6. ASSUME NEW a \in Asset, NEW st \in {"deleted", "gone"}, Pools!Remove(a, st)
      PROVE  FlagFollowsRuling'
  <2>1. \A b \in Asset : assets'[b].approval = assets[b].approval
    BY <1>6 DEF Pools!Remove, Pools!TypeOK, Pools!AssetRow
  <2> QED BY <1>0, <1>6, <2>1 DEF Pools!Remove, FlagFollowsRuling
<1>7. ASSUME NEW c \in Cast, NEW named \in SUBSET Asset, NEW strict \in BOOLEAN,
             Pools!resolveReferences(c, named, strict)
      PROVE  FlagFollowsRuling'
  BY <1>7 DEF Pools!resolveReferences, FlagFollowsRuling
<1>8. CASE UNCHANGED poolVars
  BY <1>8 DEF poolVars, FlagFollowsRuling
<1> QED BY <1>1, <1>2, <1>3, <1>4, <1>5, <1>6, <1>7, <1>8 DEF Pools!Next

LEMMA PoolOfFlags == Pools!TypeOK /\ FlagFollowsRuling => PoolFollowsRuling
<1> SUFFICES ASSUME Pools!TypeOK, FlagFollowsRuling,
                    NEW c \in Cast, NEW a \in Asset \ (unflagged \cup {ruling})
             PROVE  a \in Pools!approvedReferences(c) <=>
                      /\ Pools!Live(a)
                      /\ \E r \in Pools!Of(a) :
                           /\ r.character = c /\ r.role \in PoolRole
                           /\ IF r \in late THEN r \in vouched
                                            ELSE assets[a].approval = "approved"
  BY DEF PoolFollowsRuling, Pools!PoolFollowsRuling
<1>1. \A r \in Pools!Of(a) : r \in approved <=> IF r \in late THEN r \in vouched
                                              ELSE assets[a].approval = "approved"
  BY DEF FlagFollowsRuling, Pools!Of
<1>2. a \in Pools!approvedReferences(c) <=>
        /\ Pools!Live(a)
        /\ \E r \in Pools!Of(a) : r.character = c /\ r.role \in PoolRole /\ r \in approved
  BY DEF Pools!approvedReferences, Pools!Of, Pools!TypeOK
<1> QED BY <1>1, <1>2

(* The approved pool, which a strict brief draws on beside what it names,    *)
(* holds exactly the live assets for which the last word on one of their     *)
(* rows in it was yes: the last ruling, for the rows that were there, and    *)
(* what was said at their attachment for those attached since; of an asset   *)
(* whose last ruling a crash cut short nothing is said.                      *)
THEOREM PoolRuled == AllSpec => []PoolFollowsRuling
<1>1. AllSpec => []FlagFollowsRuling
  BY PoolTyping, FlagInit, FlagStep, Steps, PTL DEF AllSpec, AllInit
<1> QED BY <1>1, PoolTyping, PoolOfFlags, PTL

-----------------------------------------------------------------------------
(* Brand deals and scripts                                                   *)

LEMMA DealTypeInit == Deals!Init => Deals!TypeOK
BY DEF Deals!Init, Deals!TypeOK, Deals!DealRow, Deals!ScriptRow, Deals!Stage,
   Deals!Status, Deals!BrandDealStage, Deals!ScriptStatus

LEMMA DealTypeStep == Deals!TypeOK /\ [Deals!Next]_dealVars => Deals!TypeOK'
<1> SUFFICES ASSUME Deals!TypeOK, [Deals!Next]_dealVars PROVE Deals!TypeOK'
  OBVIOUS
<1>1. ASSUME NEW d \in Deal, Deals!createDeal(d) \/ Deals!deleteDeal(d) PROVE Deals!TypeOK'
  BY <1>1 DEF Deals!createDeal, Deals!deleteDeal, Deals!TypeOK, Deals!DealRow
<1>2. ASSUME NEW d \in Deal, NEW stage \in Deals!Stage,
             Deals!setStage(d, stage) \/ Deals!updateDeal(d, stage)
      PROVE  Deals!TypeOK'
  <2>1. deals[d] \in Deals!DealRow /\ [deals[d] EXCEPT !.stage = stage] \in Deals!DealRow
    BY DEF Deals!TypeOK, Deals!DealRow
  <2>2. deals' = [deals EXCEPT ![d] = [deals[d] EXCEPT !.stage = stage]]
    BY <1>2 DEF Deals!setStage, Deals!updateDeal
  <2>3. deals' \in [Deal -> Deals!DealRow]
    BY <2>1, <2>2 DEF Deals!TypeOK
  <2>4. trail' \in [Deal -> [reviewed: BOOLEAN, signedOff: BOOLEAN, patched: BOOLEAN]]
    <3>1. CASE Deals!setStage(d, stage)
      BY <3>1 DEF Deals!setStage, Deals!TypeOK
    <3>2. CASE Deals!updateDeal(d, stage)
      BY <3>2 DEF Deals!updateDeal, Deals!TypeOK
    <3> QED BY <1>2, <3>1, <3>2
  <2>5. scripts' = scripts
    BY <1>2 DEF Deals!setStage, Deals!updateDeal
  <2> QED BY <2>3, <2>4, <2>5 DEF Deals!TypeOK
<1>3. ASSUME NEW s \in Script, Deals!createScript(s) \/ Deals!deleteScript(s)
      PROVE  Deals!TypeOK'
  BY <1>3 DEF Deals!createScript, Deals!deleteScript, Deals!TypeOK, Deals!ScriptRow
<1>4. ASSUME NEW s \in Script, NEW status \in Deals!Status,
             Deals!setStatus(s, status) \/ Deals!updateScript(s, status)
      PROVE  Deals!TypeOK'
  BY <1>4 DEF Deals!setStatus, Deals!updateScript, Deals!TypeOK, Deals!ScriptRow
<1>5. CASE UNCHANGED dealVars
  BY <1>5 DEF dealVars, Deals!TypeOK
<1> QED BY <1>1, <1>2, <1>3, <1>4, <1>5 DEF Deals!Next

(* Every row has a stage or a status, and the history says which moves.      *)
THEOREM DealTyping == AllSpec => []Deals!TypeOK
BY DealTypeInit, DealTypeStep, Steps, PTL DEF AllSpec, AllInit

(* Where a deal can come from on its way out.                                *)
LEMMA WayOut ==
  ASSUME NEW from \in Deals!Stage, NEW to \in Deals!Stage,
         Deals!canTransitionDeal(from, to)
  PROVE  /\ to = "approved" => from \in {"review", "approved", "scheduled"}
         /\ to = "scheduled" => from \in {"approved", "scheduled"}
         /\ to = "published" => from \in {"scheduled", "published"}
         /\ to = "completed" => from \in {"published", "completed"}
BY DEF Deals!canTransitionDeal, Deals!DEAL_TRANSITIONS, Deals!Stage, Deals!BrandDealStage

(* A deal in review has been reviewed; from the approval on it is signed off *)
(* as well, and what goes back to review is not signed off any more.  A raw  *)
(* patch casts doubt on all of that until setStage() begins a review.        *)
Trailed ==
  \A d \in Deal : trail[d].patched \/
    /\ deals[d].stage = "review" => trail[d].reviewed
    /\ deals[d].stage \in {"approved", "scheduled", "published", "completed"} =>
         trail[d].reviewed /\ trail[d].signedOff

LEMMA TrailedStep == Deals!TypeOK /\ Trailed /\ [Deals!Next]_dealVars => Trailed'
<1> SUFFICES ASSUME Deals!TypeOK, Trailed, [Deals!Next]_dealVars PROVE Trailed'
  OBVIOUS
<1>1. ASSUME NEW d \in Deal, Deals!createDeal(d) \/ Deals!deleteDeal(d) PROVE Trailed'
  <2>1. \A e \in Deal : deals[e] \in Deals!DealRow
    BY DEF Deals!TypeOK
  <2>2. \A e \in Deal : deals'[e] = IF e = d THEN [deals[d] EXCEPT !.st = deals'[d].st]
                                              ELSE deals[e]
    BY <1>1 DEF Deals!createDeal, Deals!deleteDeal, Deals!TypeOK, Deals!DealRow
  <2>3. trail' = trail
    BY <1>1 DEF Deals!createDeal, Deals!deleteDeal
  <2>4. \A e \in Deal : deals'[e].stage = deals[e].stage
    BY <2>1, <2>2 DEF Deals!DealRow
  <2> QED BY <2>3, <2>4 DEF Trailed
<1>2. ASSUME NEW d \in Deal, NEW stage \in Deals!Stage, Deals!setStage(d, stage)
      PROVE  Trailed'
  <2>1. deals[d].stage \in Deals!Stage
    BY DEF Deals!TypeOK, Deals!DealRow
  <2>2. Deals!canTransitionDeal(deals[d].stage, stage)
    BY <1>2 DEF Deals!setStage
  <2>3. /\ deals'[d].stage = stage
        /\ trail'[d].reviewed <=> (trail[d].reviewed \/ stage = "review")
        /\ trail'[d].signedOff <=>
             (stage # "review" /\ (trail[d].signedOff \/ stage = "approved"))
        /\ trail'[d].patched <=> (trail[d].patched /\ stage # "review")
        /\ \A e \in Deal \ {d} : deals'[e] = deals[e] /\ trail'[e] = trail[e]
    BY <1>2 DEF Deals!setStage, Deals!TypeOK, Deals!DealRow
  <2>4. \/ trail'[d].patched
        \/ /\ stage = "review" => trail'[d].reviewed
           /\ stage \in {"approved", "scheduled", "published", "completed"} =>
                trail'[d].reviewed /\ trail'[d].signedOff
    BY <2>1, <2>2, <2>3, WayOut DEF Trailed
  <2> QED BY <2>3, <2>4 DEF Trailed
<1>3. ASSUME NEW s \in Script, Deals!createScript(s) \/ Deals!deleteScript(s)
      PROVE  Trailed'
  BY <1>3 DEF Deals!createScript, Deals!deleteScript, Trailed
<1>4. ASSUME NEW s \in Script, NEW status \in Deals!Status,
             Deals!setStatus(s, status) \/ Deals!updateScript(s, status)
      PROVE  Trailed'
  BY <1>4 DEF Deals!setStatus, Deals!updateScript, Trailed
<1>5. ASSUME NEW d \in Deal, NEW stage \in Deals!Stage, Deals!updateDeal(d, stage)
      PROVE  Trailed'
  <2>1. /\ trail'[d].patched
        /\ \A e \in Deal \ {d} : deals'[e] = deals[e] /\ trail'[e] = trail[e]
    BY <1>5 DEF Deals!updateDeal, Deals!TypeOK
  <2> QED BY <2>1 DEF Trailed
<1>6. CASE UNCHANGED dealVars
  BY <1>6 DEF dealVars, Trailed
<1> QED BY <1>1, <1>2, <1>3, <1>4, <1>5, <1>6 DEF Deals!Next

(* However setStage() moves a deal forward and back, its content goes out    *)
(* only when it has been reviewed and no review was begun after the last     *)
(* approval, unless a raw patch has put the deal somewhere since.            *)
THEOREM SignedOff == AllSpec => []SignedOffBeforeOut
<1>1. Deals!Init => Trailed
  BY DEF Deals!Init, Trailed
<1>2. AllSpec => []Trailed
  BY <1>1, DealTyping, TrailedStep, Steps, PTL DEF AllSpec, AllInit
<1>3. Trailed => SignedOffBeforeOut
  BY DEF Trailed, SignedOffBeforeOut, Deals!SignedOffBeforeOut
<1> QED BY <1>2, <1>3, PTL

-----------------------------------------------------------------------------
(* Wardrobes, boards and homes                                               *)

ContainerRow == Furniture!Wardrobe \cup Furniture!Board \cup Furniture!Home
                  \cup {Furniture!NoRow}

(* What kind a row is says which records it is among.                        *)
LEMMA Kinds ==
  ASSUME NEW row \in ContainerRow
  PROVE  /\ row.st = "live" => row.kind \in {"wardrobe", "board", "home"}
         /\ row.st = "live" /\ row.kind = "wardrobe" => row \in Furniture!Wardrobe
         /\ row.st = "live" /\ row.kind = "board" => row \in Furniture!Board
         /\ row.st = "live" /\ row.kind = "home" => row \in Furniture!Home
<1>1. CASE row \in Furniture!Wardrobe
  BY <1>1 DEF Furniture!Wardrobe
<1>2. CASE row \in Furniture!Board
  BY <1>2 DEF Furniture!Board
<1>3. CASE row \in Furniture!Home
  BY <1>3 DEF Furniture!Home
<1>4. CASE row = Furniture!NoRow
  BY <1>4 DEF Furniture!NoRow
<1> QED BY <1>1, <1>2, <1>3, <1>4 DEF ContainerRow

LEMMA Furnishings ==
  /\ \A row \in Furniture!Wardrobe : [row EXCEPT !.isDefault = FALSE] \in Furniture!Wardrobe
  /\ \A row \in Furniture!Board, owner \in Furniture!Owner :
       [row EXCEPT !.owner = owner] \in Furniture!Board
  /\ \A row \in Furniture!Board : [row EXCEPT !.st = "deleted"] \in Furniture!Board
  /\ \A row \in Furniture!Home, owner \in Furniture!Owner :
       [row EXCEPT !.owner = owner] \in Furniture!Home
  /\ \A row \in Furniture!Home : [row EXCEPT !.st = "deleted"] \in Furniture!Home
BY DEF Furniture!Wardrobe, Furniture!Board, Furniture!Home

LEMMA FurnitureTypeInit == Furniture!Init => Furniture!TypeOK
BY DEF Furniture!Init, Furniture!TypeOK

(* Every operation writes one container, or a row of items, of its kind.     *)
LEMMA FurnitureTypeStep ==
  Furniture!TypeOK /\ [Furniture!Next]_furnitureVars => Furniture!TypeOK'
<1> SUFFICES ASSUME Furniture!TypeOK, [Furniture!Next]_furnitureVars
             PROVE  Furniture!TypeOK'
  OBVIOUS
<1>0. containers \in [Container -> ContainerRow]
  BY DEF Furniture!TypeOK, ContainerRow
<1>1. ASSUME NEW row \in Furniture!Wardrobe, Furniture!createWardrobe(row)
      PROVE  Furniture!TypeOK'
  <2>1. ASSUME NEW owner, NEW c \in Container
        PROVE  Furniture!Cleared(owner)[c] \in ContainerRow
    BY <1>0, Kinds, Furnishings DEF Furniture!Cleared, Furniture!IsWardrobe, ContainerRow
  <2>2. \A owner : Furniture!Cleared(owner) \in [Container -> ContainerRow]
    BY <2>1 DEF Furniture!Cleared
  <2>3. containers' \in [Container -> ContainerRow]
    BY <1>0, <1>1, <2>2 DEF Furniture!createWardrobe, Furniture!ClearDefaults
  <2> QED BY <1>1, <2>3 DEF Furniture!createWardrobe, Furniture!TypeOK, ContainerRow
<1>2. CASE Furniture!InsertWardrobe
  <2>1. inserting \in Furniture!Wardrobe
    BY <1>2 DEF Furniture!InsertWardrobe, Furniture!Free, Furniture!TypeOK
  <2> QED BY <1>2, <2>1 DEF Furniture!InsertWardrobe, Furniture!InsertContainer,
         Furniture!TypeOK
<1>3. CASE Furniture!Abandon
  BY <1>3 DEF Furniture!Abandon, Furniture!TypeOK
<1>4. ASSUME NEW row \in Furniture!Board \cup Furniture!Home,
             Furniture!createBoard(row) \/ Furniture!createHome(row)
      PROVE  Furniture!TypeOK'
  BY <1>4 DEF Furniture!createBoard, Furniture!createHome, Furniture!Create,
     Furniture!InsertContainer, Furniture!TypeOK
<1>5. ASSUME NEW c \in Container, NEW row \in ContainerRow, Furniture!Change(c, row)
      PROVE  Furniture!TypeOK'
  BY <1>5 DEF Furniture!Change, Furniture!TypeOK, ContainerRow
<1>6. ASSUME NEW c \in Container, NEW owner \in Furniture!Owner,
             Furniture!updateBoard(c, owner) \/ Furniture!updateHome(c, owner)
      PROVE  Furniture!TypeOK'
  <2>1. [containers[c] EXCEPT !.owner = owner] \in ContainerRow
    BY <1>0, <1>6, Kinds, Furnishings DEF Furniture!updateBoard, Furniture!updateHome,
       Furniture!IsA, ContainerRow
  <2> QED BY <1>5, <1>6, <2>1 DEF Furniture!updateBoard, Furniture!updateHome
<1>7. ASSUME NEW c \in Container, Furniture!deleteBoard(c) \/ Furniture!deleteHome(c)
      PROVE  Furniture!TypeOK'
  <2>1. [containers[c] EXCEPT !.st = "deleted"] \in ContainerRow
    BY <1>0, <1>7, Kinds, Furnishings DEF Furniture!deleteBoard, Furniture!deleteHome,
       Furniture!IsA, ContainerRow
  <2> QED BY <1>5, <1>7, <2>1 DEF Furniture!deleteBoard, Furniture!deleteHome
<1>8. ASSUME NEW row \in Furniture!ItemRow, Furniture!InsertItem(row)
      PROVE  Furniture!TypeOK'
  BY <1>8 DEF Furniture!InsertItem, Furniture!TypeOK
<1>9. ASSUME NEW c \in Container, NEW content \in Content, Furniture!createItem(c, content)
      PROVE  Furniture!TypeOK'
  <2>1. [st |-> "live", in |-> c, content |-> content, locked |-> FALSE] \in Furniture!ItemRow
    BY DEF Furniture!ItemRow
  <2> QED BY <1>8, <1>9, <2>1 DEF Furniture!createItem
<1>10. ASSUME NEW i \in Item, NEW patch \in [in: Container, content: Content, locked: BOOLEAN],
              Furniture!updateItem(i, patch)
       PROVE  Furniture!TypeOK'
  <2>1. [st |-> "live", in |-> patch.in, content |-> patch.content, locked |-> patch.locked]
          \in Furniture!ItemRow
    BY DEF Furniture!ItemRow
  <2> QED BY <1>10, <2>1 DEF Furniture!updateItem, Furniture!TypeOK
<1>11. ASSUME NEW i \in Item, items[i].st = "live" PROVE items[i] \in Furniture!ItemRow
  BY <1>11 DEF Furniture!TypeOK, Furniture!NoRow
<1>12. ASSUME NEW i \in Item, Furniture!duplicateItem(i) PROVE Furniture!TypeOK'
  <2>1. [items[i] EXCEPT !.locked = FALSE] \in Furniture!ItemRow
    BY <1>11, <1>12 DEF Furniture!duplicateItem, Furniture!Editable, Furniture!ItemRow
  <2> QED BY <1>8, <1>12, <2>1 DEF Furniture!duplicateItem
<1>13. ASSUME NEW i \in Item, Furniture!deleteItem(i) \/ Furniture!removeItem(i)
       PROVE  Furniture!TypeOK'
  <2>1. [items[i] EXCEPT !.st = "deleted"] \in Furniture!ItemRow
    BY <1>11, <1>13 DEF Furniture!deleteItem, Furniture!removeItem, Furniture!Trash,
       Furniture!ItemRow
  <2> QED BY <1>13, <2>1 DEF Furniture!deleteItem, Furniture!removeItem, Furniture!Trash,
         Furniture!TypeOK
<1>14. CASE UNCHANGED furnitureVars
  BY <1>14 DEF furnitureVars, Furniture!TypeOK
<1> QED BY <1>1, <1>2, <1>3, <1>4, <1>6, <1>7, <1>9, <1>10, <1>12, <1>13, <1>14
        DEF Furniture!Next

(* The furniture keeps its types; only wardrobes are ever defaults.          *)
THEOREM FurnitureTyping == AllSpec => []Furniture!TypeOK
BY FurnitureTypeInit, FurnitureTypeStep, Steps, PTL DEF AllSpec, AllInit

(* From the statement that clears the defaults of a character to the insert  *)
(* of its new one there is none.                                             *)
DefaultOf(c, owner) ==
  Furniture!IsWardrobe(c) /\ containers[c].isDefault /\ containers[c].owner = owner
RoomForDefault ==
  inserting # Furniture!NoRow /\ inserting.isDefault /\ inserting.owner # NoCharacter =>
    \A c \in Container : ~DefaultOf(c, inserting.owner)
AtMostOne ==
  \A owner \in Furniture!Owner \ {NoCharacter} : \A c, d \in Container :
    DefaultOf(c, owner) /\ DefaultOf(d, owner) => c = d

LEMMA DefaultStep ==
  /\ Furniture!TypeOK /\ RoomForDefault /\ AtMostOne
  /\ [Furniture!Next]_furnitureVars
  => RoomForDefault' /\ AtMostOne'
<1> SUFFICES ASSUME Furniture!TypeOK, RoomForDefault, AtMostOne,
                    [Furniture!Next]_furnitureVars
             PROVE  RoomForDefault' /\ AtMostOne'
  OBVIOUS
<1>0. /\ containers \in [Container -> ContainerRow]
      /\ inserting \in Furniture!Wardrobe \cup {Furniture!NoRow}
  BY DEF Furniture!TypeOK, ContainerRow
(* What makes no wardrobe a default is harmless.                             *)
<1>1. ASSUME inserting' = Furniture!NoRow,
             \A owner : \A c \in Container : DefaultOf(c, owner)' => DefaultOf(c, owner)
      PROVE  RoomForDefault' /\ AtMostOne'
  BY <1>1 DEF RoomForDefault, AtMostOne
<1>2. ASSUME NEW row \in Furniture!Wardrobe, Furniture!createWardrobe(row)
      PROVE  RoomForDefault' /\ AtMostOne'
  <2>1. inserting' = row
    BY <1>2 DEF Furniture!createWardrobe
  <2>2. CASE row.isDefault /\ row.owner # NoCharacter
    <3>1. containers' = Furniture!Cleared(row.owner)
      BY <1>2, <2>2 DEF Furniture!createWardrobe, Furniture!ClearDefaults
    <3>2. ASSUME NEW c \in Container
          PROVE  /\ ~DefaultOf(c, row.owner)'
                 /\ \A owner : DefaultOf(c, owner)' => DefaultOf(c, owner)
      <4>1. CASE Furniture!IsWardrobe(c) /\ containers[c].owner = row.owner
        <5>1. containers'[c] = [containers[c] EXCEPT !.isDefault = FALSE]
          BY <3>1, <4>1 DEF Furniture!Cleared
        <5>2. containers[c] \in Furniture!Wardrobe
          BY <1>0, <4>1, Kinds DEF Furniture!IsWardrobe
        <5>3. containers'[c].isDefault = FALSE
          BY <5>1, <5>2 DEF Furniture!Wardrobe
        <5> QED BY <5>3 DEF DefaultOf
      <4>2. CASE ~(Furniture!IsWardrobe(c) /\ containers[c].owner = row.owner)
        <5>1. containers'[c] = containers[c]
          BY <3>1, <4>2 DEF Furniture!Cleared
        <5> QED BY <4>2, <5>1 DEF DefaultOf, Furniture!IsWardrobe
      <4> QED BY <4>1, <4>2
    <3> QED BY <2>1, <3>2 DEF RoomForDefault, AtMostOne
  <2>3. CASE ~(row.isDefault /\ row.owner # NoCharacter)
    <3>1. containers' = containers
      BY <1>2, <2>3 DEF Furniture!createWardrobe, Furniture!ClearDefaults
    <3>2. RoomForDefault'
      BY <2>1, <2>3 DEF RoomForDefault
    <3>3. AtMostOne'
      BY <3>1 DEF AtMostOne, DefaultOf, Furniture!IsWardrobe
    <3> QED BY <3>2, <3>3
  <2> QED BY <2>2, <2>3
<1>3. CASE Furniture!InsertWardrobe
  <2>1. PICK c \in Container : containers' = [containers EXCEPT ![c] = inserting]
    BY <1>3 DEF Furniture!InsertWardrobe, Furniture!InsertContainer
  <2>2. inserting' = Furniture!NoRow /\ inserting \in Furniture!Wardrobe
    BY <1>0, <1>3 DEF Furniture!InsertWardrobe, Furniture!Free
  <2>3. /\ containers'[c] = inserting
        /\ \A d \in Container \ {c} : containers'[d] = containers[d]
    BY <1>0, <2>1
  <2>4. \A owner : \A d \in Container \ {c} : DefaultOf(d, owner)' <=> DefaultOf(d, owner)
    BY <2>3 DEF DefaultOf, Furniture!IsWardrobe
  <2>5. ASSUME NEW owner \in Furniture!Owner \ {NoCharacter}, DefaultOf(c, owner)'
        PROVE  \A d \in Container : ~DefaultOf(d, owner)
    <3>1. inserting.isDefault /\ inserting.owner = owner
      BY <2>3, <2>5 DEF DefaultOf
    <3>2. inserting # Furniture!NoRow
      BY <1>3 DEF Furniture!InsertWardrobe, Furniture!Free
    <3> QED BY <3>1, <3>2 DEF RoomForDefault
  <2>6. AtMostOne'
    BY <2>4, <2>5 DEF AtMostOne
  <2> QED BY <2>2, <2>6 DEF RoomForDefault
<1>4. CASE Furniture!Abandon
  <2>1. inserting' = Furniture!NoRow /\ containers' = containers
    BY <1>4 DEF Furniture!Abandon
  <2> QED BY <1>1, <2>1 DEF DefaultOf, Furniture!IsWardrobe
<1>5. ASSUME NEW c \in Container, NEW row \in Furniture!Board \cup Furniture!Home,
             Furniture!Free, inserting' = inserting,
             containers' = [containers EXCEPT ![c] = row]
      PROVE  RoomForDefault' /\ AtMostOne'
  <2>1. row.kind # "wardrobe"
    BY <1>5 DEF Furniture!Board, Furniture!Home
  <2>2. /\ containers'[c] = row /\ \A d \in Container \ {c} : containers'[d] = containers[d]
    BY <1>0, <1>5
  <2>3. \A owner : \A d \in Container : DefaultOf(d, owner)' => DefaultOf(d, owner)
    BY <2>1, <2>2 DEF DefaultOf, Furniture!IsWardrobe
  <2> QED BY <1>1, <1>5, <2>3 DEF Furniture!Free
<1>6. ASSUME NEW row \in Furniture!Board \cup Furniture!Home,
             Furniture!createBoard(row) \/ Furniture!createHome(row)
      PROVE  RoomForDefault' /\ AtMostOne'
  BY <1>5, <1>6 DEF Furniture!createBoard, Furniture!createHome, Furniture!Create,
     Furniture!InsertContainer
<1>7. ASSUME NEW c \in Container, NEW owner \in Furniture!Owner,
             Furniture!updateBoard(c, owner) \/ Furniture!updateHome(c, owner)
      PROVE  RoomForDefault' /\ AtMostOne'
  <2>1. [containers[c] EXCEPT !.owner = owner] \in Furniture!Board \cup Furniture!Home
    BY <1>0, <1>7, Kinds, Furnishings DEF Furniture!updateBoard, Furniture!updateHome,
       Furniture!IsA
  <2> QED BY <1>5, <1>7, <2>1 DEF Furniture!updateBoard, Furniture!updateHome,
         Furniture!Change
<1>8. ASSUME NEW c \in Container, Furniture!deleteBoard(c) \/ Furniture!deleteHome(c)
      PROVE  RoomForDefault' /\ AtMostOne'
  <2>1. [containers[c] EXCEPT !.st = "deleted"] \in Furniture!Board \cup Furniture!Home
    BY <1>0, <1>8, Kinds, Furnishings DEF Furniture!deleteBoard, Furniture!deleteHome,
       Furniture!IsA
  <2> QED BY <1>5, <1>8, <2>1 DEF Furniture!deleteBoard, Furniture!deleteHome,
         Furniture!Change
<1>9. CASE UNCHANGED <<containers, inserting>>
  BY <1>9 DEF RoomForDefault, AtMostOne, DefaultOf, Furniture!IsWardrobe
<1>10. ASSUME NEW c \in Container, NEW content \in Content, Furniture!createItem(c, content)
       PROVE  UNCHANGED <<containers, inserting>>
  BY <1>10 DEF Furniture!createItem, Furniture!InsertItem
<1>11. ASSUME NEW i \in Item, NEW patch, Furniture!updateItem(i, patch)
       PROVE  UNCHANGED <<containers, inserting>>
  BY <1>11 DEF Furniture!updateItem
<1>12. ASSUME NEW i \in Item, \/ Furniture!duplicateItem(i)
                              \/ Furniture!deleteItem(i) \/ Furniture!removeItem(i)
       PROVE  UNCHANGED <<containers, inserting>>
  BY <1>12 DEF Furniture!duplicateItem, Furniture!InsertItem, Furniture!deleteItem,
     Furniture!removeItem, Furniture!Trash
<1>13. CASE UNCHANGED furnitureVars
  BY <1>9, <1>13 DEF furnitureVars
<1> QED BY <1>2, <1>3, <1>4, <1>6, <1>7, <1>8, <1>9, <1>10, <1>11, <1>12, <1>13
        DEF Furniture!Next

(* Whatever is created and whenever the server dies, a character has at most *)
(* one default wardrobe.                                                     *)
THEOREM Defaults == AllSpec => []OneDefault
<1>1. Furniture!Init => RoomForDefault /\ AtMostOne
  BY DEF Furniture!Init, RoomForDefault, AtMostOne, DefaultOf, Furniture!IsWardrobe,
     Furniture!NoRow
<1>2. AllSpec => [](RoomForDefault /\ AtMostOne)
  BY <1>1, FurnitureTyping, DefaultStep, Steps, PTL DEF AllSpec, AllInit
<1>3. Furniture!TypeOK /\ AtMostOne => OneDefault
  <2> SUFFICES ASSUME Furniture!TypeOK, AtMostOne, NEW c \in Container, NEW d \in Container,
                      Furniture!IsWardrobe(c), Furniture!IsWardrobe(d),
                      containers[c].isDefault, containers[d].isDefault,
                      containers[c].owner = containers[d].owner,
                      containers[c].owner # NoCharacter
               PROVE  c = d
    BY DEF OneDefault, Furniture!OneDefault
  <2>1. containers[c] \in Furniture!Wardrobe
    BY Kinds DEF Furniture!TypeOK, ContainerRow, Furniture!IsWardrobe
  <2>2. containers[c].owner \in Furniture!Owner \ {NoCharacter}
    BY <2>1 DEF Furniture!Wardrobe
  <2> QED BY <2>2 DEF AtMostOne, DefaultOf
<1> QED BY <1>2, <1>3, FurnitureTyping, PTL

-----------------------------------------------------------------------------
(* The numbers of shots                                                      *)

LEMMA ShotConstants == Order \subseteq Seq(Shot) /\ Number \subseteq Int
BY WorkspaceAssumption DEF Shots!ShotAssumption

(* A set of numbers that is bounded and not empty has a maximum.             *)
LEMMA Maximum ==
  ASSUME NEW S \in SUBSET Int, NEW e \in S, NEW b \in Int, \A n \in S : n <= b
  PROVE  Shots!Max(S) \in S /\ \A n \in S : Shots!Max(S) >= n
<1> DEFINE T == {c \in Nat : (\A n \in S : n <= e + c) => \E x \in S : \A y \in S : x >= y}
<1>1. 0 \in T
  OBVIOUS
<1>2. ASSUME NEW c \in T PROVE c + 1 \in T
  <2> SUFFICES ASSUME \A n \in S : n <= e + (c + 1) PROVE \E x \in S : \A y \in S : x >= y
    OBVIOUS
  <2>1. CASE e + (c + 1) \in S
    BY <2>1
  <2>2. CASE e + (c + 1) \notin S
    <3>1. \A n \in S : n <= e + c
      BY <2>2
    <3> QED BY <3>1
  <2> QED BY <2>1, <2>2
<1>3. T \in SUBSET Nat
  OBVIOUS
<1> HIDE DEF T
<1>4. T = Nat
  BY <1>1, <1>2, <1>3, Induction
<1>5. b - e \in Nat /\ \A n \in S : n <= e + (b - e)
  OBVIOUS
<1>6. \E x \in S : \A y \in S : x >= y
  BY <1>4, <1>5 DEF T
<1> QED BY <1>6 DEF Shots!Max

(* What one UPDATE of a reorder does to the table.                           *)
Transactions == [ok: BOOLEAN, table: [Shot -> Shots!Row]]

Updated(new, tx, s, n) ==
  /\ new \in Transactions
  /\ \A t \in Shot : new.table[t].st = tx.table[t].st
  /\ \A t \in Shot \ {s} : new.table[t] = tx.table[t]
  /\ new.ok => tx.ok
  /\ new.ok /\ tx.table[s].st # "absent" =>
       /\ new.table[s].position = n
       /\ \A t \in Shots!InTable \ {s} : tx.table[t].position # n

LEMMA AssignStep ==
  ASSUME NEW tx \in Transactions, NEW s \in Shot, NEW n \in Int
  PROVE  Updated(Shots!Assign(tx, s, n), tx, s, n)
<1>0. PICK new : new = Shots!Assign(tx, s, n)
  OBVIOUS
<1>1. CASE ~tx.ok \/ tx.table[s].st = "absent"
  <2>1. new = tx
    BY <1>0, <1>1 DEF Shots!Assign
  <2> QED BY <1>0, <1>1, <2>1 DEF Updated
<1>2. CASE /\ tx.ok /\ tx.table[s].st # "absent"
           /\ \E t \in Shots!InTable \ {s} : tx.table[t].position = n
  <2>1. new = [tx EXCEPT !.ok = FALSE]
    BY <1>0, <1>2 DEF Shots!Assign
  <2> QED BY <1>0, <2>1 DEF Transactions, Updated
<1>3. CASE /\ tx.ok /\ tx.table[s].st # "absent"
           /\ ~\E t \in Shots!InTable \ {s} : tx.table[t].position = n
  <2>1. new = [tx EXCEPT !.table[s].position = n]
    BY <1>0, <1>3 DEF Shots!Assign
  <2>2. [tx.table[s] EXCEPT !.position = n] \in Shots!Row
    BY DEF Transactions, Shots!Row
  <2>3. /\ new \in Transactions /\ new.ok = tx.ok
        /\ \A t \in Shot \ {s} : new.table[t] = tx.table[t]
        /\ new.table[s] = [tx.table[s] EXCEPT !.position = n]
    BY <2>1, <2>2 DEF Transactions
  <2>4. new.table[s].st = tx.table[s].st /\ new.table[s].position = n
    BY <2>3 DEF Transactions, Shots!Row
  <2> QED BY <1>0, <1>3, <2>3, <2>4 DEF Updated
<1> QED BY <1>1, <1>2, <1>3

(* The transaction, update by update.                                        *)
Renumbers(h, ids) ==
  h = [n \in 0..2 * Len(ids) |->
         IF n = 0 THEN [ok |-> TRUE, table |-> shotRows]
         ELSE IF n <= Len(ids) THEN Shots!Assign(h[n - 1], ids[n], -n)
         ELSE Shots!Assign(h[n - 1], ids[n - Len(ids)], n - Len(ids))]
Updates(ids) == CHOOSE h : Renumbers(h, ids)

LEMMA TransactionIsUpdates ==
  \A ids : Shots!Renumber(ids) = Updates(ids)[2 * Len(ids)]
BY DEF Shots!Renumber, Shots!Transaction, Updates, Renumbers

LEMMA UpdatesExist ==
  ASSUME NEW ids \in Seq(Shot), shotRows \in [Shot -> Shots!Row]
  PROVE  Renumbers(Updates(ids), ids)
<1> DEFINE L == Len(ids)
           a == [ok |-> TRUE, table |-> shotRows]
           who(n) == IF n <= L THEN ids[n] ELSE ids[n - L]
           number(n) == IF n <= L THEN -n ELSE n - L
           F == [n \in Nat |-> [v \in Transactions |->
                   IF n \in 1..2 * L THEN Shots!Assign(v, who(n), number(n)) ELSE v]]
<1>1. L \in Nat /\ 2 * L \in Nat /\ a \in Transactions
  BY DEF Transactions
<1>2. \A n \in 1..2 * L : who(n) \in Shot /\ number(n) \in Int
  BY <1>1
<1>3. \A v \in Transactions, n \in 1..2 * L :
         Shots!Assign(v, who(n), number(n)) \in Transactions
  <2> SUFFICES ASSUME NEW v \in Transactions, NEW n \in 1..2 * L
               PROVE  Shots!Assign(v, who(n), number(n)) \in Transactions
    OBVIOUS
  <2>1. PICK s, m : s = who(n) /\ m = number(n)
    OBVIOUS
  <2>2. s \in Shot /\ m \in Int
    BY <1>2, <2>1
  <2>3. Shots!Assign(v, s, m) \in Transactions
    BY <2>2, AssignStep DEF Updated
  <2> QED BY <2>1, <2>3
<1>4. F \in [Nat -> [Transactions -> Transactions]]
  BY <1>3
<1>5. \A n \in 1..2 * L, v \in Transactions :
         F[n][v] = Shots!Assign(v, who(n), number(n))
  BY <1>1
<1>6. \A n \in 1..2 * L : /\ n <= L => who(n) = ids[n] /\ number(n) = -n
                          /\ ~(n <= L) => who(n) = ids[n - L] /\ number(n) = n - L
  OBVIOUS
<1> HIDE DEF F, who, number
<1>7. PICK g : Follows(g, 2 * L, Transactions, a, F)
  BY <1>1, <1>4, Beginnings
<1>8. /\ g \in [0..2 * L -> Transactions] /\ g[0] = a
      /\ \A n \in 1..2 * L : g[n] = F[n][g[n - 1]]
  BY <1>7 DEF Follows
<1>9. \A n \in 1..2 * L : n - 1 \in 0..2 * L /\ g[n - 1] \in Transactions
  <2>1. \A n \in 1..2 * L : n - 1 \in 0..2 * L
    BY <1>1
  <2> QED BY <1>8, <2>1
<1>10. \A n \in 1..2 * L : g[n] = Shots!Assign(g[n - 1], who(n), number(n))
  BY <1>5, <1>8, <1>9
<1>11. \A n \in 0..2 * L :
          g[n] = IF n = 0 THEN a
                 ELSE IF n <= L THEN Shots!Assign(g[n - 1], ids[n], -n)
                 ELSE Shots!Assign(g[n - 1], ids[n - L], n - L)
  <2> SUFFICES ASSUME NEW n \in 0..2 * L
               PROVE  g[n] = IF n = 0 THEN a
                             ELSE IF n <= L THEN Shots!Assign(g[n - 1], ids[n], -n)
                             ELSE Shots!Assign(g[n - 1], ids[n - L], n - L)
    OBVIOUS
  <2>1. CASE n = 0
    BY <1>8, <2>1
  <2>2. CASE n # 0 /\ n <= L
    BY <1>1, <1>6, <1>10, <2>2
  <2>3. CASE n # 0 /\ ~(n <= L)
    BY <1>1, <1>6, <1>10, <2>3
  <2> QED BY <2>1, <2>2, <2>3
<1>12. Renumbers(g, ids)
  BY <1>8, <1>11 DEF Renumbers
<1> QED BY <1>12 DEF Updates

Listed(ids) == {ids[i] : i \in 1..Len(ids)}

(* After n updates only listed rows have changed, in their number; and the   *)
(* first n - Len(ids) of them that exist have the numbers they were given,   *)
(* which no row left out has.                                                *)
SoFar(tx, ids, n) ==
  /\ tx \in Transactions
  /\ \A t \in Shot : tx.table[t].st = shotRows[t].st
  /\ \A t \in Shot \ Listed(ids) : tx.table[t] = shotRows[t]
  /\ tx.ok => \A i \in 1..Len(ids) : i + Len(ids) <= n /\ ids[i] \in Shots!InTable =>
       /\ tx.table[ids[i]].position \in 1..(n - Len(ids))
       /\ Shots!IsInjective(ids) => tx.table[ids[i]].position = i
       /\ \A t \in Shots!InTable \ Listed(ids) : shotRows[t].position # i

LEMMA UpdatesSoFar ==
  ASSUME NEW ids \in Seq(Shot), shotRows \in [Shot -> Shots!Row]
  PROVE  SoFar(Shots!Renumber(ids), ids, 2 * Len(ids))
<1> DEFINE h == Updates(ids)
           L == Len(ids)
           T == {n \in Nat : n <= 2 * L => SoFar(h[n], ids, n)}
<1>0. Renumbers(h, ids) /\ L \in Nat /\ DOMAIN ids = 1..L /\ \A i \in 1..L : ids[i] \in Shot
  BY UpdatesExist
<1> HIDE DEF h
<1>1. 0 \in T
  <2>1. 0 \in 0..2 * L
    BY <1>0
  <2>2. h[0] = [ok |-> TRUE, table |-> shotRows]
    BY <1>0, <2>1 DEF Renumbers
  <2>3. SoFar(h[0], ids, 0)
    BY <1>0, <2>2 DEF SoFar, Transactions
  <2> QED BY <2>3
<1>2. ASSUME NEW n \in T PROVE n + 1 \in T
  <2> SUFFICES ASSUME n + 1 <= 2 * L PROVE SoFar(h[n + 1], ids, n + 1)
    OBVIOUS
  <2>1. /\ SoFar(h[n], ids, n) /\ n \in Nat /\ n + 1 \in 0..2 * L /\ n + 1 # 0
        /\ (n + 1) - 1 = n
    BY <1>0
  <2>2. PICK tx, new : tx = h[n] /\ new = h[n + 1]
    OBVIOUS
  <2>3. SoFar(tx, ids, n) /\ tx \in Transactions
    BY <2>1, <2>2 DEF SoFar
  <2>4. /\ n + 1 <= L => new = Shots!Assign(tx, ids[n + 1], -(n + 1))
        /\ ~(n + 1 <= L) => new = Shots!Assign(tx, ids[n + 1 - L], n + 1 - L)
    <3>1. PICK m \in 0..2 * L : m = n + 1
      BY <2>1
    <3>2. h[m] = IF m = 0 THEN [ok |-> TRUE, table |-> shotRows]
                 ELSE IF m <= L THEN Shots!Assign(h[m - 1], ids[m], -m)
                 ELSE Shots!Assign(h[m - 1], ids[m - L], m - L)
      BY <1>0 DEF Renumbers
    <3>3. m # 0 /\ m - 1 = n
      BY <2>1, <3>1
    <3>4. h[m - 1] = tx /\ h[m] = new
      BY <2>2, <3>1, <3>3
    <3>5. /\ m <= L => new = Shots!Assign(tx, ids[m], -m)
          /\ ~(m <= L) => new = Shots!Assign(tx, ids[m - L], m - L)
      BY <3>2, <3>3, <3>4
    <3> QED BY <3>1, <3>5
  <2>5. CASE n + 1 <= L
    <3>1. PICK s \in Listed(ids), m \in Int : s = ids[n + 1] /\ m = -(n + 1)
      BY <1>0, <2>1, <2>5 DEF Listed
    <3>2. s \in Shot /\ new = Shots!Assign(tx, s, m)
      BY <1>0, <2>4, <2>5, <3>1 DEF Listed
    <3>0. Updated(new, tx, s, m)
      BY <2>3, <3>2, AssignStep
    <3>3. /\ new \in Transactions
          /\ \A t \in Shot : new.table[t].st = tx.table[t].st
          /\ \A t \in Shot \ {s} : new.table[t] = tx.table[t]
      BY <3>0 DEF Updated
    <3>4. \A i \in 1..L : ~(i + L <= n + 1)
      BY <1>0, <2>1, <2>5
    <3>5. SoFar(new, ids, n + 1)
      BY <2>3, <3>1, <3>3, <3>4 DEF SoFar
    <3> QED BY <2>2, <3>5
  <2>6. CASE ~(n + 1 <= L)
    <3>1. PICK k \in 1..L, s \in Listed(ids) : k = n + 1 - L /\ s = ids[k]
      <4>1. n + 1 - L \in 1..L
        BY <1>0, <2>1, <2>6
      <4> QED BY <4>1 DEF Listed
    <3>2. s \in Shot /\ k \in Int /\ new = Shots!Assign(tx, s, k)
      BY <1>0, <2>4, <2>6, <3>1 DEF Listed
    <3>0. Updated(new, tx, s, k)
      BY <2>3, <3>2, AssignStep
    <3>3. /\ new \in Transactions
          /\ \A t \in Shot : new.table[t].st = tx.table[t].st
          /\ \A t \in Shot \ {s} : new.table[t] = tx.table[t]
          /\ new.ok => tx.ok
      BY <3>0 DEF Updated
    <3>4. new.ok /\ tx.table[s].st # "absent" =>
             /\ new.table[s].position = k
             /\ \A t \in Shots!InTable \ {s} : tx.table[t].position # k
      BY <3>0 DEF Updated
    <3>5. /\ \A t \in Shot : new.table[t].st = shotRows[t].st
          /\ \A t \in Shot \ Listed(ids) : new.table[t] = shotRows[t]
      BY <2>3, <3>1, <3>3 DEF SoFar
    <3>6. ASSUME new.ok, NEW i \in 1..L, i + L <= n + 1, ids[i] \in Shots!InTable
          PROVE  /\ new.table[ids[i]].position \in 1..(n + 1 - L)
                 /\ Shots!IsInjective(ids) => new.table[ids[i]].position = i
                 /\ \A t \in Shots!InTable \ Listed(ids) : shotRows[t].position # i
      <4>1. /\ ids[i] \in Shot /\ shotRows[ids[i]].st # "absent"
            /\ \A t \in Shots!InTable : t \in Shot
        BY <3>6 DEF Shots!InTable
      <4>2. tx.table[ids[i]].st # "absent"
        BY <2>3, <4>1 DEF SoFar
      <4>3. CASE i = k
        <5>1. ids[i] = s /\ new.table[s].position = k /\ k \in 1..(n + 1 - L)
          BY <1>0, <2>1, <3>1, <3>4, <3>6, <4>2, <4>3
        <5>2. \A t \in Shots!InTable \ Listed(ids) : shotRows[t].position # k
          <6> SUFFICES ASSUME NEW t \in Shots!InTable \ Listed(ids)
                       PROVE  shotRows[t].position # k
            OBVIOUS
          <6>1. t # s /\ t \in Shot \ Listed(ids)
            BY <3>1, <4>1
          <6>2. tx.table[t].position # k /\ tx.table[t] = shotRows[t]
            BY <2>3, <3>4, <3>6, <4>2, <5>1, <6>1 DEF SoFar
          <6> QED BY <6>2
        <5> QED BY <4>3, <5>1, <5>2
      <4>4. CASE i # k
        <5>1. i + L <= n /\ i < k
          BY <1>0, <2>1, <3>1, <3>6, <4>4
        <5>2. /\ tx.table[ids[i]].position \in 1..(n - L)
              /\ Shots!IsInjective(ids) => tx.table[ids[i]].position = i
              /\ \A t \in Shots!InTable \ Listed(ids) : shotRows[t].position # i
          BY <2>3, <3>3, <3>6, <5>1 DEF SoFar
        <5>3. CASE ids[i] = s
          <6>1. new.table[ids[i]].position = k /\ k \in 1..(n + 1 - L)
            BY <1>0, <2>1, <3>1, <3>4, <3>6, <4>2, <5>3
          <6>2. ~Shots!IsInjective(ids)
            BY <1>0, <3>1, <4>4, <5>3 DEF Shots!IsInjective
          <6> QED BY <5>2, <6>1, <6>2
        <5>4. CASE ids[i] # s
          <6>1. new.table[ids[i]] = tx.table[ids[i]]
            BY <3>3, <4>1, <5>4
          <6>2. tx.table[ids[i]].position \in 1..(n + 1 - L)
            BY <1>0, <2>1, <5>2
          <6> QED BY <5>2, <6>1, <6>2
        <5> QED BY <5>3, <5>4
      <4> QED BY <4>3, <4>4
    <3>7. SoFar(new, ids, n + 1)
      BY <3>3, <3>5, <3>6 DEF SoFar
    <3> QED BY <2>2, <3>7
  <2> QED BY <2>5, <2>6
<1>3. T \in SUBSET Nat
  OBVIOUS
<1> HIDE DEF T
<1>4. T = Nat
  BY <1>1, <1>2, <1>3, Induction
<1>5. SoFar(h[2 * L], ids, 2 * L)
  BY <1>0, <1>4 DEF T
<1> QED BY <1>5, TransactionIsUpdates DEF h

(* Some number is the last.                                                  *)
Bounded == \E b \in Nat : \A s \in Shots!InTable : shotRows[s].position <= b

ShotInv == Shots!TypeOK /\ Bounded /\ NumbersHold

LEMMA ShotInit == Shots!Init => ShotInv
<1> SUFFICES ASSUME Shots!Init PROVE ShotInv
  OBVIOUS
<1>1. Shots!AbsentRow \in Shots!Row /\ Shots!AbsentRow.st = "absent"
  BY DEF Shots!AbsentRow, Shots!Row
<1>2. /\ shotRows \in [Shot -> Shots!Row] /\ \A s \in Shot : shotRows[s].st = "absent"
      /\ shotReply = [op |-> "none", ok |-> TRUE, ids |-> <<>>]
  BY <1>1 DEF Shots!Init
<1>3. Shots!InTable = {}
  BY <1>2 DEF Shots!InTable
<1>4. 0 \in Nat /\ Bounded
  BY <1>3 DEF Bounded
<1> QED BY <1>2, <1>4 DEF ShotInv, Shots!TypeOK, NumbersHold, Shots!NumbersHold,
          Shots!AppendSucceeds, Shots!ListedFirst

(* The next number is above all numbers in the table.                        *)
LEMMA NextIsFree ==
  ASSUME ShotInv
  PROVE  /\ Shots!NextPosition \in Int
         /\ \A s \in Shots!InTable : shotRows[s].position < Shots!NextPosition
<1>1. CASE Shots!InTable = {}
  <2>1. Shots!NextPosition = 0 + 1
    BY <1>1 DEF Shots!NextPosition, Shots!Last
  <2> QED BY <1>1, <2>1
<1>2. CASE Shots!InTable # {}
  <2> DEFINE S == {shotRows[s].position : s \in Shots!InTable}
  <2>1. PICK b \in Nat : \A s \in Shots!InTable : shotRows[s].position <= b
    BY DEF ShotInv, Bounded
  <2>2. \A s \in Shots!InTable : shotRows[s].position \in Int
    BY DEF ShotInv, Shots!TypeOK, Shots!InTable, Shots!Row
  <2>3. S \in SUBSET Int /\ S # {} /\ \A n \in S : n <= b
    BY <1>2, <2>1, <2>2
  <2>4. \A s \in Shots!InTable : shotRows[s].position \in S
    OBVIOUS
  <2>5. Shots!NextPosition = Shots!Max(S) + 1
    BY <1>2 DEF Shots!NextPosition, Shots!Last
  <2> HIDE DEF S
  <2>6. PICK e : e \in S
    BY <2>3
  <2>7. Shots!Max(S) \in S /\ \A n \in S : Shots!Max(S) >= n
    BY <2>3, <2>6, Maximum
  <2>8. Shots!Max(S) \in Int
    BY <2>3, <2>7
  <2>9. \A s \in Shots!InTable : shotRows[s].position <= Shots!Max(S)
    BY <2>2, <2>4, <2>7, <2>8
  <2> QED BY <2>2, <2>5, <2>8, <2>9
<1> QED BY <1>1, <1>2

(* A step that writes one row and is no reorder.                             *)
LEMMA OneRowWritten ==
  ASSUME ShotInv, NEW s \in Shot, NEW row \in Shots!Row,
         shotRows' = [shotRows EXCEPT ![s] = row],
         NEW op \in {"add", "update", "delete"}, Shots!Reply(op, TRUE, <<>>)
  PROVE  ShotInv'
<1>1. shotRows \in [Shot -> Shots!Row]
  BY DEF ShotInv, Shots!TypeOK
<1>2. /\ shotRows' \in [Shot -> Shots!Row] /\ shotRows'[s] = row
      /\ \A t \in Shot \ {s} : shotRows'[t] = shotRows[t]
  BY <1>1
<1>3. shotReply' = [op |-> op, ok |-> TRUE, ids |-> <<>>]
  BY DEF Shots!Reply
<1>4. PICK b \in Nat : \A t \in Shots!InTable : shotRows[t].position <= b
  BY DEF ShotInv, Bounded
<1>5. PICK top \in Nat : top >= b /\ top >= row.position
  <2>1. row.position \in Int
    BY DEF Shots!Row
  <2>2. CASE row.position <= b
    BY <2>1, <2>2
  <2>3. CASE row.position > b
    <3>1. row.position \in Nat
      BY <2>1, <2>3
    <3> QED BY <2>3, <3>1
  <2> QED BY <2>1, <2>2, <2>3
<1>6. ASSUME NEW t \in Shots!InTable' PROVE shotRows'[t].position <= top
  <2>1. t \in Shot /\ shotRows'[t].st # "absent"
    BY <1>6 DEF Shots!InTable
  <2>2. CASE t = s
    BY <1>2, <1>5, <2>2
  <2>3. CASE t # s
    <3>1. t \in Shots!InTable /\ shotRows'[t] = shotRows[t]
      BY <1>2, <2>1, <2>3 DEF Shots!InTable
    <3>2. shotRows[t].position \in Int
      BY <1>1, <2>1 DEF Shots!Row
    <3> QED BY <1>4, <1>5, <3>1, <3>2
  <2> QED BY <2>2, <2>3
<1>7. Bounded'
  BY <1>5, <1>6 DEF Bounded
<1> QED BY <1>2, <1>3, <1>7 DEF ShotInv, Shots!TypeOK, NumbersHold, Shots!NumbersHold,
          Shots!AppendSucceeds, Shots!ListedFirst

LEMMA Refused ==
  ASSUME ShotInv, UNCHANGED shotRows, NEW op \in {"update", "reorder"}, NEW ids \in Order \cup {<<>>},
         Shots!Reply(op, FALSE, ids)
  PROVE  ShotInv'
<1>1. shotReply' = [op |-> op, ok |-> FALSE, ids |-> ids]
  BY DEF Shots!Reply
<1> QED BY <1>1 DEF ShotInv, Shots!TypeOK, Bounded, Shots!InTable, NumbersHold, Shots!NumbersHold,
          Shots!AppendSucceeds, Shots!ListedFirst

LEMMA Inserted == ShotInv /\ Shots!insertShot => ShotInv'
<1> SUFFICES ASSUME ShotInv, Shots!insertShot PROVE ShotInv'
  OBVIOUS
<1>1. PICK s \in Shot \ Shots!InTable :
        IF \E t \in Shots!InTable : shotRows[t].position = Shots!NextPosition
        THEN Shots!Reply("add", FALSE, <<>>) /\ UNCHANGED shotRows
        ELSE /\ shotRows' = [shotRows EXCEPT ![s] =
                   [st |-> "live", position |-> Shots!NextPosition, locked |-> FALSE]]
             /\ Shots!Reply("add", TRUE, <<>>)
  BY DEF Shots!insertShot
<1>2. PICK n \in Int : /\ n = Shots!NextPosition
                       /\ \A t \in Shots!InTable : shotRows[t].position < n
  BY NextIsFree
<1>3. \A t \in Shots!InTable : shotRows[t].position \in Int
  BY DEF ShotInv, Shots!TypeOK, Shots!InTable, Shots!Row
<1>4. ~\E t \in Shots!InTable : shotRows[t].position = Shots!NextPosition
  BY <1>2, <1>3
<1>5. PICK row : row = [st |-> "live", position |-> n, locked |-> FALSE]
  OBVIOUS
<1>6. row \in Shots!Row
  BY <1>2, <1>5 DEF Shots!Row
<1>7. shotRows' = [shotRows EXCEPT ![s] = row] /\ Shots!Reply("add", TRUE, <<>>)
  BY <1>1, <1>2, <1>4, <1>5
<1> QED BY <1>6, <1>7, OneRowWritten

LEMMA PatchedRows ==
  ASSUME NEW row \in Shots!Row, NEW patch \in Shots!Patch
  PROVE  Shots!Patched(row, patch) \in Shots!Row
<1>1. CASE patch \in [locked: BOOLEAN]
  <2>1. DOMAIN patch = {"locked"} /\ patch.locked \in BOOLEAN
    BY <1>1
  <2>2. Shots!Patched(row, patch) = [row EXCEPT !.locked = patch.locked,
                                                !.position = row.position]
    BY <2>1 DEF Shots!Patched, Shots!Row
  <2> QED BY <2>1, <2>2 DEF Shots!Row
<1>2. CASE patch \in [position: Number]
  <2>1. /\ DOMAIN patch = {"position"} /\ patch.position \in Int
        /\ "locked" \notin DOMAIN patch /\ "position" \in DOMAIN patch
    BY <1>2, ShotConstants
  <2>2. Shots!Patched(row, patch) = [row EXCEPT !.locked = row.locked,
                                                !.position = patch.position]
    BY <2>1 DEF Shots!Patched, Shots!Row
  <2> QED BY <2>1, <2>2 DEF Shots!Row
<1> QED BY <1>1, <1>2 DEF Shots!Patch

LEMMA Reordered ==
  ASSUME ShotInv, NEW ids \in Order, Shots!reorderShots(ids) PROVE ShotInv'
<1>1. PICK tx : tx = Shots!Renumber(ids)
  OBVIOUS
<1>2. /\ shotRows' = IF tx.ok THEN tx.table ELSE shotRows
      /\ Shots!Reply("reorder", tx.ok, ids)
  BY <1>1 DEF Shots!reorderShots
<1>3. /\ shotRows \in [Shot -> Shots!Row] /\ ids \in Seq(Shot) /\ Len(ids) \in Nat
      /\ DOMAIN ids = 1..Len(ids)
  BY ShotConstants DEF ShotInv, Shots!TypeOK
<1>4. SoFar(tx, ids, 2 * Len(ids)) /\ tx \in Transactions
  BY <1>1, <1>3, UpdatesSoFar DEF SoFar
<1>5. CASE ~tx.ok
  <2>1. UNCHANGED shotRows /\ Shots!Reply("reorder", FALSE, ids)
    BY <1>2, <1>4, <1>5 DEF Transactions
  <2> QED BY <2>1, Refused
<1>6. CASE tx.ok
  <2>1. /\ shotRows' = tx.table /\ shotReply' = [op |-> "reorder", ok |-> TRUE, ids |-> ids]
    BY <1>2, <1>4, <1>6 DEF Transactions, Shots!Reply
  <2>2. /\ shotRows' \in [Shot -> Shots!Row]
        /\ \A t \in Shot : shotRows'[t].st = shotRows[t].st
        /\ \A t \in Shot \ Listed(ids) : shotRows'[t] = shotRows[t]
    BY <1>4, <2>1 DEF SoFar, Transactions
  <2>3. Shots!InTable' = Shots!InTable /\ \A t \in Shots!InTable : t \in Shot
    BY <2>2 DEF Shots!InTable
  <2>4. \A i \in 1..Len(ids) : ids[i] \in Shots!InTable =>
           /\ shotRows'[ids[i]].position \in 1..Len(ids)
           /\ Shots!IsInjective(ids) => shotRows'[ids[i]].position = i
           /\ \A t \in Shots!InTable \ Listed(ids) : shotRows[t].position # i
    <3>1. \A i \in 1..Len(ids) : i + Len(ids) <= 2 * Len(ids)
      BY <1>3
    <3>2. 2 * Len(ids) - Len(ids) = Len(ids)
      BY <1>3
    <3> QED BY <1>4, <1>6, <2>1, <3>1, <3>2 DEF SoFar
  <2>5. PICK b \in Nat : \A t \in Shots!InTable : shotRows[t].position <= b
    BY DEF ShotInv, Bounded
  <2>6. ASSUME NEW t \in Shots!InTable
        PROVE  shotRows'[t].position <= b + Len(ids)
    <3>1. CASE t \in Listed(ids)
      <4>1. PICK i \in 1..Len(ids) : t = ids[i]
        BY <3>1 DEF Listed
      <4>2. shotRows'[t].position \in 1..Len(ids)
        BY <2>4, <4>1
      <4> QED BY <1>3, <4>2
    <3>2. CASE t \notin Listed(ids)
      <4>1. shotRows'[t] = shotRows[t] /\ shotRows[t].position \in Int
        BY <1>3, <2>2, <2>3, <3>2 DEF Shots!Row
      <4> QED BY <1>3, <2>5, <4>1 DEF ShotInv, Bounded
    <3> QED BY <3>1, <3>2
  <2>7. Bounded'
    <3>1. b + Len(ids) \in Nat
      BY <1>3
    <3> QED BY <2>3, <2>6, <3>1 DEF Bounded
  <2>8. Shots!TypeOK' /\ Shots!AppendSucceeds'
    BY <2>1, <2>2 DEF Shots!TypeOK, Shots!AppendSucceeds
  <2>9. Shots!Range(ids) = Listed(ids)
    BY <1>3 DEF Shots!Range, Listed
  <2>10. ASSUME Listed(ids) \subseteq Shots!InTable
         PROVE  /\ Shots!IsInjective(ids) =>
                     \A i, j \in DOMAIN ids : i < j =>
                        shotRows'[ids[i]].position < shotRows'[ids[j]].position
                /\ \A s \in Listed(ids), t \in Shots!InTable \ Listed(ids) :
                     shotRows'[t].position > 0 =>
                       shotRows'[s].position < shotRows'[t].position
    <3>1. \A i \in 1..Len(ids) : ids[i] \in Shots!InTable
      BY <2>10 DEF Listed
    <3>2. ASSUME Shots!IsInjective(ids), NEW i \in DOMAIN ids, NEW j \in DOMAIN ids, i < j
          PROVE  shotRows'[ids[i]].position < shotRows'[ids[j]].position
      BY <1>3, <2>4, <3>1, <3>2
    <3>3. ASSUME NEW s \in Listed(ids), NEW t \in Shots!InTable \ Listed(ids),
                 shotRows'[t].position > 0
          PROVE  shotRows'[s].position < shotRows'[t].position
      <4>1. PICK i \in 1..Len(ids) : s = ids[i]
        BY DEF Listed
      <4>2. shotRows'[s].position \in 1..Len(ids)
        BY <2>4, <3>1, <4>1
      <4>3. \A j \in 1..Len(ids) : shotRows[t].position # j
        BY <2>4, <3>1
      <4>4. shotRows'[t] = shotRows[t] /\ shotRows[t].position \in Int
        BY <1>3, <2>2, <2>3 DEF Shots!Row
      <4> QED BY <1>3, <3>3, <4>2, <4>3, <4>4
    <3> QED BY <3>2, <3>3
  <2>11. Shots!ListedFirst'
    BY <2>1, <2>3, <2>9, <2>10 DEF Shots!ListedFirst, Shots!Range, Shots!IsInjective
  <2> QED BY <2>7, <2>8, <2>11 DEF ShotInv, NumbersHold, Shots!NumbersHold
<1> QED BY <1>5, <1>6

LEMMA ShotStep == ShotInv /\ [Shots!Next]_shotVars => ShotInv'
<1> SUFFICES ASSUME ShotInv, [Shots!Next]_shotVars PROVE ShotInv'
  OBVIOUS
<1>0. /\ shotRows \in [Shot -> Shots!Row]
      /\ \A s \in Shots!Live : s \in Shot
  BY DEF ShotInv, Shots!TypeOK, Shots!Live
<1>1. CASE Shots!addShot
  BY <1>1, Inserted DEF Shots!addShot
<1>2. ASSUME NEW s \in Shot, Shots!duplicateShot(s) PROVE ShotInv'
  BY <1>2, Inserted DEF Shots!duplicateShot
<1>3. ASSUME NEW s \in Shot, Shots!deleteShot(s) PROVE ShotInv'
  <2>1. PICK row : row = [shotRows[s] EXCEPT !.st = "deleted"]
    OBVIOUS
  <2>2. s \in Shots!Live
    BY <1>3 DEF Shots!deleteShot
  <2>3. row \in Shots!Row
    BY <1>0, <2>1, <2>2 DEF Shots!Row
  <2>4. shotRows' = [shotRows EXCEPT ![s] = row] /\ Shots!Reply("delete", TRUE, <<>>)
    BY <1>0, <1>3, <2>1 DEF Shots!deleteShot
  <2> QED BY <2>3, <2>4, OneRowWritten
<1>4. ASSUME NEW s \in Shot, NEW patch \in Shots!Patch, Shots!updateShot(s, patch)
      PROVE  ShotInv'
  <2>1. CASE UNCHANGED shotRows /\ Shots!Reply("update", FALSE, <<>>)
    BY <2>1, Refused
  <2>2. CASE /\ shotRows' = [shotRows EXCEPT ![s] = Shots!Patched(shotRows[s], patch)]
             /\ Shots!Reply("update", TRUE, <<>>)
    <3>1. PICK row : row = Shots!Patched(shotRows[s], patch)
      OBVIOUS
    <3>2. s \in Shots!Live
      BY <1>4 DEF Shots!updateShot
    <3>3. row \in Shots!Row
      BY <1>0, <3>1, <3>2, PatchedRows
    <3> QED BY <2>2, <3>1, <3>3, OneRowWritten
  <2> QED BY <1>4, <2>1, <2>2 DEF Shots!updateShot
<1>5. ASSUME NEW ids \in Order, Shots!reorderShots(ids) PROVE ShotInv'
  BY <1>5, Reordered
<1>6. CASE UNCHANGED shotVars
  BY <1>6 DEF shotVars, ShotInv, Shots!TypeOK, Bounded, Shots!InTable, NumbersHold,
     Shots!NumbersHold, Shots!AppendSucceeds, Shots!ListedFirst
<1> QED BY <1>1, <1>2, <1>3, <1>4, <1>5, <1>6 DEF Shots!Next

LEMMA ShotTyping == AllSpec => []ShotInv
BY ShotInit, ShotStep, Steps, PTL DEF AllSpec, AllInit

(* However long the lists that clients send and whatever was deleted before, *)
(* a new shot always gets a number, and a reorder that goes through leaves   *)
(* the listed shots first and as listed.                                     *)
THEOREM Numbered == AllSpec => []NumbersHold
<1>1. ShotInv => NumbersHold
  BY DEF ShotInv
<1> QED BY <1>1, ShotTyping, PTL
=============================================================================
