-------------------------- MODULE AssetStore_proofs --------------------------
(* Theorems about AssetStore for every set of contents, places, rows and     *)
(* requests.                                                                 *)
EXTENDS AssetStore, TLAPS

Requests == Upload \cup Removal \cup {Idle}
Rows == Row \cup {NoRow, Purged}

(* What a request is, told from where it stands.                             *)
LEMMA RequestShape ==
  ASSUME NEW q \in Requests
  PROVE  /\ q.at \in {"stat", "open", "write", "rename", "stored"} => q \in Upload
         /\ q.at = "unlink" => q \in Removal
         /\ q.at = "idle" <=> q = Idle
         /\ q.at \in {"stat", "open", "write", "rename", "stored", "unlink"} => q.key \in Key
BY DEF Requests, Upload, Removal, Idle

(* What a row is, told from its status.                                      *)
LEMMA RowShape ==
  ASSUME NEW w \in Rows
  PROVE  /\ w.st \in {"live", "trashed"} <=> w \in Row
         /\ w.st \in {"live", "trashed"} => w.key \in Key
         /\ w.key \in Key \cup {NoKey}
BY DEF Rows, Row, NoRow, Purged

-----------------------------------------------------------------------------
(* Types                                                                     *)

LEMMA TypeInit == Init => TypeOK
BY DEF Init, TypeOK, FileState, NoRow, Idle

LEMMA TypeStep == TypeOK /\ [Next]_vars => TypeOK'
<1> SUFFICES ASSUME TypeOK, [Next]_vars PROVE TypeOK'
  OBVIOUS
<1>0. /\ \A r \in Req : reqs[r] \in Requests
      /\ \A a \in Asset : rows[a] \in Rows
  BY DEF TypeOK, Requests, Rows
<1>1. ASSUME NEW r \in Req, StartUpload(r) PROVE TypeOK'
  <2>1. PICK k \in Key, via \in {"service", "api"} :
          reqs' = [reqs EXCEPT ![r] = [at |-> "stat", via |-> via, key |-> k,
                                       deduped |-> FALSE, temp |-> "absent"]]
    BY <1>1 DEF StartUpload
  <2>2. [at |-> "stat", via |-> via, key |-> k, deduped |-> FALSE, temp |-> "absent"] \in Upload
    BY DEF Upload, FileState
  <2> QED BY <1>1, <2>1, <2>2 DEF StartUpload, TypeOK
<1>2. ASSUME NEW r \in Req, PutStep(r) PROVE TypeOK'
  <2>1. reqs[r] \in Upload
    BY <1>0, <1>2, RequestShape DEF PutStep, Stat, BeginWrite, EndWrite, Rename
  <2>2. CASE Stat(r)
    <3>1. /\ [reqs[r] EXCEPT !.at = "stored", !.deduped = TRUE] \in Upload
          /\ [reqs[r] EXCEPT !.at = "open"] \in Upload
      BY <2>1 DEF Upload
    <3> QED BY <2>2, <3>1 DEF Stat, TypeOK
  <2>3. CASE BeginWrite(r)
    <3>1. [reqs[r] EXCEPT !.at = "write", !.temp = "torn"] \in Upload
      BY <2>1 DEF Upload, FileState
    <3> QED BY <2>3, <3>1 DEF BeginWrite, TypeOK
  <2>4. CASE EndWrite(r)
    <3>1. [reqs[r] EXCEPT !.at = "rename", !.temp = "whole"] \in Upload
      BY <2>1 DEF Upload, FileState
    <3> QED BY <2>4, <3>1 DEF EndWrite, TypeOK
  <2>5. CASE Rename(r)
    <3>1. /\ [reqs[r] EXCEPT !.at = "stored", !.temp = "absent"] \in Upload
          /\ reqs[r].temp \in FileState
      BY <2>1 DEF Upload, FileState
    <3> QED BY <2>5, <3>1 DEF Rename, TypeOK
  <2> QED BY <1>2, <2>2, <2>3, <2>4, <2>5 DEF PutStep
<1>3. ASSUME NEW r \in Req, FinishUpload(r) PROVE TypeOK'
  <2>1. reqs[r].key \in Key /\ reqs' = [reqs EXCEPT ![r] = Idle]
    BY <1>0, <1>3, RequestShape DEF FinishUpload
  <2>2. rows' \in [Asset -> Row \cup {NoRow, Purged}] /\ sound' \subseteq Asset
    <3>1. CASE ReturnsExisting(r)
      BY <1>3, <3>1 DEF FinishUpload, TypeOK
    <3>2. CASE ~ReturnsExisting(r)
      <4>1. PICK a \in Asset : Insert(a, reqs[r].key)
        BY <1>3, <3>2 DEF FinishUpload
      <4>2. [st |-> "live", key |-> reqs[r].key] \in Row
        BY <2>1 DEF Row
      <4> QED BY <4>1, <4>2 DEF Insert, TypeOK
    <3> QED BY <3>1, <3>2
  <2> QED BY <1>3, <2>1, <2>2 DEF FinishUpload, TypeOK
<1>4. ASSUME NEW a \in Asset, SoftDelete(a) PROVE TypeOK'
  <2>1. [rows[a] EXCEPT !.st = "trashed"] \in Row
    BY <1>0, <1>4, RowShape DEF SoftDelete, Row
  <2> QED BY <1>4, <2>1 DEF SoftDelete, TypeOK
<1>5. ASSUME NEW r \in Req, NEW a \in Asset, Purge(r, a) PROVE TypeOK'
  <2>1. [at |-> "unlink", key |-> rows[a].key] \in Removal
    BY <1>0, <1>5, RowShape DEF Purge, InTable, Removal
  <2>2. reqs' \in [Req -> Upload \cup Removal \cup {Idle}]
    BY <1>5, <2>1 DEF Purge, TypeOK
  <2> QED BY <1>5, <2>2 DEF Purge, TypeOK
<1>6. ASSUME NEW r \in Req, Unlink(r) PROVE TypeOK'
  BY <1>6 DEF Unlink, TypeOK, FileState
<1>7. ASSUME NEW r \in Req, Fault(r) PROVE TypeOK'
  <2>1. reqs[r].at = "stat" => [reqs[r] EXCEPT !.at = "open"] \in Upload
    BY <1>0, RequestShape DEF Upload
  <2>2. reqs' \in [Req -> Upload \cup Removal \cup {Idle}]
    BY <1>7, <2>1 DEF Fault, TypeOK
  <2> QED BY <1>7, <2>2 DEF Fault, TypeOK
<1>8. CASE Crash
  BY <1>8 DEF Crash, TypeOK
<1>9. CASE UNCHANGED vars
  BY <1>9 DEF vars, TypeOK
<1> QED BY <1>1, <1>2, <1>3, <1>4, <1>5, <1>6, <1>7, <1>8, <1>9 DEF Next

(* TypeOK: the library's data keep their shape; in particular a purge never  *)
(* goes for a file without a key.                                            *)
THEOREM Typing == Spec => []TypeOK
<1> QED BY TypeInit, TypeStep, PTL DEF Spec

-----------------------------------------------------------------------------
(* A row in the table keeps its bytes                                        *)

(* Only complete temporary files are renamed, so no key holds a torn file.   *)
NothingTorn ==
  /\ \A k \in Key : files[k] # "torn"
  /\ \A r \in Req : reqs[r].at = "rename" => reqs[r].temp = "whole"

(* Sound rows have been inserted, and nobody is about to remove their files. *)
NotDoomed ==
  \A a \in sound : /\ rows[a] # NoRow
                   /\ InTable(a) => ~UnlinkPending(rows[a].key)

(* The rows that had their file have it.                                     *)
Intact == \A a \in sound : InTable(a) => files[rows[a].key] = "whole"

FileInv == TypeOK /\ NothingTorn /\ Intact /\ NotDoomed

LEMMA FileInit == Init => FileInv
<1> SUFFICES ASSUME Init PROVE FileInv
  OBVIOUS
<1>1. NothingTorn
  BY DEF Init, NothingTorn, Idle
<1>2. Intact /\ NotDoomed
  BY DEF Init, Intact, NotDoomed
<1> QED BY <1>1, <1>2, TypeInit DEF FileInv

LEMMA NothingTornStep == TypeOK /\ NothingTorn /\ [Next]_vars => NothingTorn'
<1> SUFFICES ASSUME TypeOK, NothingTorn, [Next]_vars PROVE NothingTorn'
  OBVIOUS
<1>0. \A r \in Req : reqs[r] \in Requests
  BY DEF TypeOK, Requests
<1> USE DEF NothingTorn
<1>1. ASSUME NEW r \in Req, StartUpload(r) PROVE NothingTorn'
  BY <1>1 DEF StartUpload, TypeOK
<1>2. ASSUME NEW r \in Req, PutStep(r) PROVE NothingTorn'
  <2>1. reqs[r] \in Upload
    BY <1>0, <1>2, RequestShape DEF PutStep, Stat, BeginWrite, EndWrite, Rename
  <2>2. CASE Stat(r)
    BY <2>1, <2>2 DEF Stat, TypeOK, Upload
  <2>3. CASE BeginWrite(r)
    BY <2>1, <2>3 DEF BeginWrite, TypeOK, Upload
  <2>4. CASE EndWrite(r)
    BY <2>1, <2>4 DEF EndWrite, TypeOK, Upload
  <2>5. CASE Rename(r)
    <3>1. reqs[r].temp = "whole"
      BY <2>5 DEF Rename
    <3> QED BY <2>1, <2>5, <3>1 DEF Rename, TypeOK, Upload
  <2> QED BY <1>2, <2>2, <2>3, <2>4, <2>5 DEF PutStep
<1>3. ASSUME NEW r \in Req, FinishUpload(r) PROVE NothingTorn'
  BY <1>3 DEF FinishUpload, TypeOK, Idle
<1>4. ASSUME NEW a \in Asset, SoftDelete(a) PROVE NothingTorn'
  BY <1>4 DEF SoftDelete
<1>5. ASSUME NEW r \in Req, NEW a \in Asset, Purge(r, a) PROVE NothingTorn'
  BY <1>5 DEF Purge, TypeOK
<1>6. ASSUME NEW r \in Req, Unlink(r) PROVE NothingTorn'
  BY <1>6 DEF Unlink, TypeOK, Idle
<1>7. ASSUME NEW r \in Req, Fault(r) PROVE NothingTorn'
  <2>1. CASE reqs[r].at = "stat" /\ reqs' = [reqs EXCEPT ![r].at = "open"]
    <3>1. reqs[r] \in Upload
      BY <1>0, <2>1, RequestShape
    <3> QED BY <1>7, <2>1, <3>1 DEF Fault, TypeOK, Upload
  <2>2. CASE reqs' = [reqs EXCEPT ![r] = Idle]
    BY <1>7, <2>2 DEF Fault, TypeOK, Idle
  <2> QED BY <1>7, <2>1, <2>2 DEF Fault
<1>8. CASE Crash
  BY <1>8 DEF Crash, Idle
<1>9. CASE UNCHANGED vars
  BY <1>9 DEF vars
<1> QED BY <1>1, <1>2, <1>3, <1>4, <1>5, <1>6, <1>7, <1>8, <1>9 DEF Next

(* Steps that only move uploads about dooms no file.                         *)
LEMMA NoNewUnlink ==
  ASSUME TypeOK, NEW r \in Req, NEW q, q.at # "unlink",
         reqs' = [reqs EXCEPT ![r] = q], NEW k
  PROVE  UnlinkPending(k)' => UnlinkPending(k)
BY DEF UnlinkPending, TypeOK

LEMMA BytesStep == FileInv /\ [Next]_vars => (Intact /\ NotDoomed)'
<1> SUFFICES ASSUME FileInv, [Next]_vars PROVE (Intact /\ NotDoomed)'
  OBVIOUS
<1>0. /\ TypeOK /\ NothingTorn /\ Intact /\ NotDoomed
      /\ \A r \in Req : reqs[r] \in Requests
      /\ \A a \in Asset : rows[a] \in Rows
      /\ sound \subseteq Asset
  BY DEF FileInv, TypeOK, Requests, Rows
(* What the steps that leave the table alone have to show.                   *)
<1>f. ASSUME UNCHANGED <<rows, sound>>,
             \A a \in sound : InTable(a) => files'[rows[a].key] = "whole",
             \A k \in Key : UnlinkPending(k)' => UnlinkPending(k)
      PROVE  (Intact /\ NotDoomed)'
  BY <1>0, <1>f, RowShape DEF Intact, NotDoomed, InTable
<1>b. \A a \in sound : InTable(a) => files[rows[a].key] = "whole"
  BY <1>0 DEF Intact
<1>1. ASSUME NEW r \in Req, StartUpload(r) PROVE (Intact /\ NotDoomed)'
  <2>1. PICK k \in Key, via \in {"service", "api"} :
          reqs' = [reqs EXCEPT ![r] = [at |-> "stat", via |-> via, key |-> k,
                                       deduped |-> FALSE, temp |-> "absent"]]
    BY <1>1 DEF StartUpload
  <2>2. \A l \in Key : UnlinkPending(l)' => UnlinkPending(l)
    BY <1>0, <2>1, NoNewUnlink
  <2> QED BY <1>1, <1>f, <1>b, <2>2 DEF StartUpload
<1>2. ASSUME NEW r \in Req, PutStep(r) PROVE (Intact /\ NotDoomed)'
  <2>1. reqs[r] \in Upload
    BY <1>0, <1>2, RequestShape DEF PutStep, Stat, BeginWrite, EndWrite, Rename
  <2>2. PICK q \in Upload : reqs' = [reqs EXCEPT ![r] = q]
    <3>1. CASE Stat(r)
      <4>1. /\ [reqs[r] EXCEPT !.at = "stored", !.deduped = TRUE] \in Upload
            /\ [reqs[r] EXCEPT !.at = "open"] \in Upload
        BY <2>1 DEF Upload
      <4> QED BY <3>1, <4>1 DEF Stat
    <3>2. CASE BeginWrite(r)
      <4>1. [reqs[r] EXCEPT !.at = "write", !.temp = "torn"] \in Upload
        BY <2>1 DEF Upload, FileState
      <4> QED BY <3>2, <4>1 DEF BeginWrite
    <3>3. CASE EndWrite(r)
      <4>1. [reqs[r] EXCEPT !.at = "rename", !.temp = "whole"] \in Upload
        BY <2>1 DEF Upload, FileState
      <4> QED BY <3>3, <4>1 DEF EndWrite
    <3>4. CASE Rename(r)
      <4>1. [reqs[r] EXCEPT !.at = "stored", !.temp = "absent"] \in Upload
        BY <2>1 DEF Upload, FileState
      <4> QED BY <3>4, <4>1 DEF Rename
    <3> QED BY <1>2, <3>1, <3>2, <3>3, <3>4 DEF PutStep
  <2>3. \A k \in Key : UnlinkPending(k)' => UnlinkPending(k)
    <3>1. q.at # "unlink"
      BY <2>2 DEF Upload
    <3> QED BY <1>0, <2>2, <3>1, NoNewUnlink
  <2>4. \A a \in sound : InTable(a) => files'[rows[a].key] = "whole"
    <3>1. CASE Rename(r)
      <4>1. files' = [files EXCEPT ![reqs[r].key] = "whole"]
        BY <1>0, <3>1 DEF Rename, NothingTorn
      <4> QED BY <1>0, <1>b, <4>1, RowShape DEF TypeOK, InTable
    <3>2. CASE ~Rename(r)
      <4>1. files' = files
        BY <1>2, <3>2 DEF PutStep, Stat, BeginWrite, EndWrite
      <4> QED BY <1>b, <4>1
    <3> QED BY <3>1, <3>2
  <2>5. UNCHANGED <<rows, sound>>
    BY <1>2 DEF PutStep, Stat, BeginWrite, EndWrite, Rename
  <2> QED BY <1>f, <2>3, <2>4, <2>5
<1>3. ASSUME NEW r \in Req, FinishUpload(r) PROVE (Intact /\ NotDoomed)'
  <2>1. reqs[r].key \in Key /\ reqs' = [reqs EXCEPT ![r] = Idle] /\ files' = files
    BY <1>0, <1>3, RequestShape DEF FinishUpload
  <2>2. \A k \in Key : UnlinkPending(k)' => UnlinkPending(k)
    BY <1>0, <2>1, NoNewUnlink DEF Idle
  <2>3. CASE ReturnsExisting(r)
    BY <1>3, <1>f, <1>b, <2>1, <2>2, <2>3 DEF FinishUpload
  <2>4. CASE ~ReturnsExisting(r)
    <3>1. PICK a \in Asset : Insert(a, reqs[r].key)
      BY <1>3, <2>4 DEF FinishUpload
    <3>2. /\ rows'[a] = [st |-> "live", key |-> reqs[r].key]
          /\ \A b \in Asset \ {a} : rows'[b] = rows[b]
      BY <1>0, <3>1 DEF Insert, TypeOK
    <3>3. ASSUME NEW b \in sound', InTable(b)'
          PROVE  files'[rows'[b].key] = "whole" /\ ~UnlinkPending(rows[b].key)'
      <4>1. CASE b = a
        <5>1. a \notin sound
          BY <1>0, <3>1 DEF Insert, NotDoomed
        <5>2. files[reqs[r].key] # "absent" /\ ~UnlinkPending(reqs[r].key)
          BY <3>1, <3>3, <4>1, <5>1 DEF Insert
        <5> QED BY <1>0, <2>1, <2>2, <3>2, <4>1, <5>2 DEF NothingTorn, TypeOK, FileState
      <4>2. CASE b # a
        <5>1. b \in sound /\ rows'[b] = rows[b] /\ InTable(b)
          BY <1>0, <3>1, <3>2, <3>3, <4>2 DEF Insert, InTable
        <5> QED BY <1>0, <2>1, <2>2, <5>1, RowShape DEF Intact, NotDoomed, InTable
      <4> QED BY <4>1, <4>2
    <3>4. \A b \in sound' : rows'[b] # NoRow
      BY <1>0, <3>1, <3>2 DEF Insert, NotDoomed, NoRow
    <3> QED BY <3>3, <3>4 DEF Intact, NotDoomed
  <2> QED BY <2>3, <2>4
<1>4. ASSUME NEW a \in Asset, SoftDelete(a) PROVE (Intact /\ NotDoomed)'
  <2>1. /\ InTable(a) /\ rows'[a] = [rows[a] EXCEPT !.st = "trashed"]
        /\ \A b \in Asset \ {a} : rows'[b] = rows[b]
    BY <1>0, <1>4 DEF SoftDelete, InTable, TypeOK
  <2>2. rows[a] \in Row
    BY <1>0, <2>1, RowShape DEF InTable
  <2>3. \A b \in Asset : /\ InTable(b)' <=> InTable(b)
                         /\ InTable(b) => rows'[b].key = rows[b].key
                         /\ rows[b] # NoRow => rows'[b] # NoRow
    BY <2>1, <2>2 DEF InTable, Row, NoRow
  <2>4. UNCHANGED <<files, sound>> /\ \A k : UnlinkPending(k)' <=> UnlinkPending(k)
    BY <1>4 DEF SoftDelete, UnlinkPending
  <2>5. \A b \in sound : InTable(b)' => InTable(b) /\ rows'[b].key = rows[b].key
    BY <1>0, <2>3
  <2>6. Intact'
    BY <1>b, <2>4, <2>5 DEF Intact
  <2>7. NotDoomed'
    BY <1>0, <2>3, <2>4, <2>5 DEF NotDoomed
  <2> QED BY <2>6, <2>7
<1>5. ASSUME NEW r \in Req, NEW a \in Asset, Purge(r, a) PROVE (Intact /\ NotDoomed)'
  <2>1. /\ ~InTable(a)' /\ rows'[a] # NoRow
        /\ \A b \in Asset \ {a} : rows'[b] = rows[b]
        /\ UNCHANGED <<files, sound>>
    BY <1>0, <1>5 DEF Purge, TypeOK, InTable, Purged, NoRow
  <2>2. ASSUME NEW b \in sound, InTable(b)' PROVE ~UnlinkPending(rows[b].key)'
    <3>1. b # a /\ rows'[b] = rows[b] /\ InTable(b) /\ b \in Asset
      BY <1>0, <2>1, <2>2 DEF InTable
    <3>2. ~UnlinkPending(rows[b].key)
      BY <1>0, <3>1 DEF NotDoomed
    <3>3. CASE StillReferenced(a)
      BY <1>5, <3>1, <3>2, <3>3 DEF Purge, UnlinkPending
    <3>4. CASE ~StillReferenced(a)
      <4>1. rows[b].key # rows[a].key
        BY <3>1, <3>4 DEF StillReferenced
      <4>2. reqs' = [reqs EXCEPT ![r] = [at |-> "unlink", key |-> rows[a].key]]
        BY <1>5, <3>4 DEF Purge
      <4> QED BY <1>0, <3>1, <3>2, <4>1, <4>2 DEF UnlinkPending, TypeOK
    <3> QED BY <3>3, <3>4
  <2>3. \A b \in sound : InTable(b)' => InTable(b) /\ rows'[b].key = rows[b].key
    BY <1>0, <2>1 DEF InTable
  <2> QED BY <1>0, <2>1, <2>2, <2>3 DEF Intact, NotDoomed
<1>6. ASSUME NEW r \in Req, Unlink(r) PROVE (Intact /\ NotDoomed)'
  <2>1. reqs[r].key \in Key /\ reqs[r] = [at |-> "unlink", key |-> reqs[r].key]
    BY <1>0, <1>6, RequestShape DEF Unlink, Removal
  <2>2. \A a \in sound : InTable(a) => rows[a].key # reqs[r].key
    BY <1>0, <2>1 DEF NotDoomed, UnlinkPending
  <2>3. \A a \in sound : InTable(a) => files'[rows[a].key] = "whole"
    BY <1>0, <1>b, <1>6, <2>2, RowShape DEF Unlink, TypeOK, InTable
  <2>4. \A k \in Key : UnlinkPending(k)' => UnlinkPending(k)
    BY <1>0, <1>6, NoNewUnlink DEF Unlink, Idle
  <2> QED BY <1>6, <1>f, <2>3, <2>4 DEF Unlink
<1>7. ASSUME NEW r \in Req, Fault(r) PROVE (Intact /\ NotDoomed)'
  <2>1. PICK q : q.at # "unlink" /\ reqs' = [reqs EXCEPT ![r] = q]
    <3>1. CASE reqs[r].at = "stat" /\ reqs' = [reqs EXCEPT ![r].at = "open"]
      <4>1. [reqs[r] EXCEPT !.at = "open"] \in Upload /\ [reqs[r] EXCEPT !.at = "open"].at = "open"
        BY <1>0, <3>1, RequestShape DEF Upload
      <4> QED BY <3>1, <4>1
    <3>2. CASE reqs' = [reqs EXCEPT ![r] = Idle]
      BY <3>2 DEF Idle
    <3> QED BY <1>7, <3>1, <3>2 DEF Fault
  <2>2. \A k \in Key : UnlinkPending(k)' => UnlinkPending(k)
    BY <1>0, <2>1, NoNewUnlink
  <2> QED BY <1>7, <1>f, <1>b, <2>2 DEF Fault
<1>8. CASE Crash
  <2>1. \A k \in Key : UnlinkPending(k)' => UnlinkPending(k)
    BY <1>8 DEF Crash, UnlinkPending, Idle
  <2> QED BY <1>8, <1>f, <1>b, <2>1 DEF Crash
<1>9. CASE UNCHANGED vars
  BY <1>9, <1>0 DEF vars, Intact, NotDoomed, InTable, UnlinkPending
<1> QED BY <1>1, <1>2, <1>3, <1>4, <1>5, <1>6, <1>7, <1>8, <1>9 DEF Next

(* BytesStay: a row whose file was there when it was inserted, with no purge *)
(* about to remove it, has its whole file for as long as it is in the table, *)
(* and no row, inserted amid a purge or not, leads to half a file, whatever  *)
(* uploads, purges, failed calls and crashes come in between.                *)
THEOREM Kept == Spec => []BytesStay
<1>1. FileInv /\ [Next]_vars => FileInv'
  BY TypeStep, NothingTornStep, BytesStep DEF FileInv
<1>2. FileInv => BytesStay
  <2>1. TypeOK /\ NothingTorn => \A a \in Asset : InTable(a) => files[rows[a].key] # "torn"
    BY RowShape DEF TypeOK, NothingTorn, InTable, Rows
  <2> QED BY <2>1 DEF FileInv, Intact, BytesStay
<1> QED BY FileInit, <1>1, <1>2, PTL DEF Spec

-----------------------------------------------------------------------------
(* No file is forgotten                                                      *)

(* An upload that has to write found no file.                                *)
WritersFoundNothing ==
  \A r \in Req : reqs[r].at \in {"stat", "open", "write", "rename"} => ~reqs[r].deduped

LEMMA WritersInit == Init => WritersFoundNothing
BY DEF Init, WritersFoundNothing, Idle

LEMMA WritersStep == TypeOK /\ WritersFoundNothing /\ [Next]_vars => WritersFoundNothing'
<1> SUFFICES ASSUME TypeOK, WritersFoundNothing, [Next]_vars PROVE WritersFoundNothing'
  OBVIOUS
<1>0. \A r \in Req : reqs[r] \in Requests
  BY DEF TypeOK, Requests
<1> USE DEF WritersFoundNothing
<1>1. ASSUME NEW r \in Req, StartUpload(r) PROVE WritersFoundNothing'
  BY <1>1 DEF StartUpload, TypeOK
<1>2. ASSUME NEW r \in Req, PutStep(r) PROVE WritersFoundNothing'
  <2>1. reqs[r] \in Upload
    BY <1>0, <1>2, RequestShape DEF PutStep, Stat, BeginWrite, EndWrite, Rename
  <2>2. CASE Stat(r)
    BY <2>1, <2>2 DEF Stat, TypeOK, Upload
  <2>3. CASE BeginWrite(r) \/ EndWrite(r) \/ Rename(r)
    BY <2>1, <2>3 DEF BeginWrite, EndWrite, Rename, TypeOK, Upload
  <2> QED BY <1>2, <2>2, <2>3 DEF PutStep
<1>3. ASSUME NEW r \in Req, FinishUpload(r) PROVE WritersFoundNothing'
  BY <1>3 DEF FinishUpload, TypeOK, Idle
<1>4. ASSUME NEW a \in Asset, SoftDelete(a) PROVE WritersFoundNothing'
  BY <1>4 DEF SoftDelete
<1>5. ASSUME NEW r \in Req, NEW a \in Asset, Purge(r, a) PROVE WritersFoundNothing'
  BY <1>5 DEF Purge, TypeOK
<1>6. ASSUME NEW r \in Req, Unlink(r) PROVE WritersFoundNothing'
  BY <1>6 DEF Unlink, TypeOK, Idle
<1>7. ASSUME NEW r \in Req, Fault(r) PROVE WritersFoundNothing'
  <2>1. CASE reqs[r].at = "stat" /\ reqs' = [reqs EXCEPT ![r].at = "open"]
    <3>1. reqs[r] \in Upload
      BY <1>0, <2>1, RequestShape
    <3> QED BY <1>7, <2>1, <3>1 DEF Fault, TypeOK, Upload
  <2>2. CASE reqs' = [reqs EXCEPT ![r] = Idle]
    BY <1>7, <2>2 DEF Fault, TypeOK, Idle
  <2> QED BY <1>7, <2>1, <2>2 DEF Fault
<1>8. CASE Crash
  BY <1>8 DEF Crash, Idle
<1>9. CASE UNCHANGED vars
  BY <1>9 DEF vars
<1> QED BY <1>1, <1>2, <1>3, <1>4, <1>5, <1>6, <1>7, <1>8, <1>9 DEF Next

(* A request that neither wrote the file of k nor is about to remove it is   *)
(* free to move on.                                                          *)
LEMMA OwnedStays ==
  ASSUME TypeOK, NEW k \in Key, Owned(k), NEW r \in Req,
         \A s \in Req \ {r} : reqs'[s] = reqs[s],
         ~(reqs[r].at = "stored" /\ ~reqs[r].deduped /\ reqs[r].key = k),
         reqs[r].at = "unlink" => reqs[r].key # k,
         \A a \in Asset : InTable(a) /\ rows[a].key = k => rows'[a] = rows[a]
  PROVE  Owned(k)'
BY DEF Owned, InTable, UnlinkPending

LEMMA ForgetStep ==
  ASSUME TypeOK, WritersFoundNothing, [Next]_vars, NEW k \in Key,
         files[k] # "absent" => Owned(k), faults' = faults, files'[k] # "absent"
  PROVE  Owned(k)'
<1>0. /\ \A r \in Req : reqs[r] \in Requests
      /\ \A a \in Asset : rows[a] \in Rows
  BY DEF TypeOK, Requests, Rows
<1>1. ASSUME NEW r \in Req, StartUpload(r) PROVE Owned(k)'
  BY <1>1, OwnedStays DEF StartUpload, TypeOK, Idle
<1>2. ASSUME NEW r \in Req, PutStep(r) PROVE Owned(k)'
  <2>1. reqs[r] \in Upload /\ reqs[r].at \notin {"stored", "unlink"}
    BY <1>0, <1>2, RequestShape DEF PutStep, Stat, BeginWrite, EndWrite, Rename
  <2>2. rows' = rows /\ \A s \in Req \ {r} : reqs'[s] = reqs[s]
    BY <1>2 DEF PutStep, Stat, BeginWrite, EndWrite, Rename, TypeOK
  <2>3. CASE Rename(r) /\ reqs[r].key = k
    <3>1. reqs'[r] = [reqs[r] EXCEPT !.at = "stored", !.temp = "absent"]
      BY <2>3 DEF Rename, TypeOK
    <3>2. reqs'[r].at = "stored" /\ ~reqs'[r].deduped /\ reqs'[r].key = k
      BY <2>1, <2>3, <3>1 DEF Rename, WritersFoundNothing, Upload
    <3> QED BY <3>2 DEF Owned
  <2>4. CASE ~(Rename(r) /\ reqs[r].key = k)
    <3>1. files'[k] = files[k]
      BY <1>2, <2>4 DEF PutStep, Stat, BeginWrite, EndWrite, Rename, TypeOK
    <3> QED BY <2>1, <2>2, <3>1, OwnedStays
  <2> QED BY <2>3, <2>4
<1>3. ASSUME NEW r \in Req, FinishUpload(r) PROVE Owned(k)'
  <2>1. /\ files' = files /\ Owned(k) /\ reqs[r].at = "stored"
        /\ \A s \in Req \ {r} : reqs'[s] = reqs[s]
    BY <1>3 DEF FinishUpload, TypeOK
  <2>2. CASE ReturnsExisting(r)
    BY <1>3, <2>1, <2>2, OwnedStays DEF FinishUpload, ReturnsExisting
  <2>3. CASE ~ReturnsExisting(r)
    <3>1. PICK a \in Asset : Insert(a, reqs[r].key)
      BY <1>3, <2>3 DEF FinishUpload
    <3>2. /\ ~InTable(a) /\ rows'[a] = [st |-> "live", key |-> reqs[r].key]
          /\ \A b \in Asset \ {a} : rows'[b] = rows[b]
      BY <3>1 DEF Insert, TypeOK, InTable, NoRow
    <3>3. CASE reqs[r].key = k
      BY <3>2, <3>3 DEF Owned, InTable
    <3>4. CASE reqs[r].key # k
      BY <2>1, <3>2, <3>4, OwnedStays
    <3> QED BY <3>3, <3>4
  <2> QED BY <2>2, <2>3
<1>4. ASSUME NEW a \in Asset, SoftDelete(a) PROVE Owned(k)'
  <2>1. \A b \in Asset : InTable(b) => InTable(b)' /\ rows'[b].key = rows[b].key
    <3>1. rows[a] \in Row
      BY <1>0, <1>4, RowShape DEF SoftDelete
    <3> QED BY <1>4, <3>1 DEF SoftDelete, TypeOK, InTable, Row
  <2> QED BY <1>4, <2>1 DEF SoftDelete, Owned, UnlinkPending
<1>5. ASSUME NEW r \in Req, NEW a \in Asset, Purge(r, a) PROVE Owned(k)'
  <2>1. /\ Owned(k) /\ reqs[r] = Idle
        /\ \A s \in Req \ {r} : reqs'[s] = reqs[s]
        /\ \A b \in Asset \ {a} : rows'[b] = rows[b]
    BY <1>5 DEF Purge, TypeOK
  <2>2. CASE rows[a].key # k
    BY <2>1, <2>2, OwnedStays DEF Idle
  <2>3. CASE rows[a].key = k /\ StillReferenced(a)
    BY <2>1, <2>3 DEF StillReferenced, Owned, InTable
  <2>4. CASE rows[a].key = k /\ ~StillReferenced(a)
    BY <1>5, <2>4 DEF Purge, Owned, UnlinkPending, TypeOK
  <2> QED BY <2>2, <2>3, <2>4
<1>6. ASSUME NEW r \in Req, Unlink(r) PROVE Owned(k)'
  <2>1. reqs[r].key \in Key /\ files' = [files EXCEPT ![reqs[r].key] = "absent"]
    BY <1>0, <1>6, RequestShape DEF Unlink
  <2>2. reqs[r].key # k /\ files'[k] = files[k]
    BY <2>1 DEF TypeOK
  <2>3. rows' = rows /\ \A s \in Req \ {r} : reqs'[s] = reqs[s]
    BY <1>6 DEF Unlink, TypeOK
  <2> QED BY <1>6, <2>2, <2>3, OwnedStays DEF Unlink
<1>7. ~Crash /\ \A r \in Req : ~Fault(r)
  BY DEF Crash, Fault, TypeOK
<1>8. CASE UNCHANGED vars
  BY <1>8 DEF vars, Owned, InTable, UnlinkPending
<1> QED BY <1>1, <1>2, <1>3, <1>4, <1>5, <1>6, <1>7, <1>8 DEF Next

(* NoFileIsForgotten: only a failed call or a crash can leave a file that    *)
(* neither a row nor a request in flight accounts for.                       *)
THEOREM Accounted == Spec => NoFileIsForgotten
<1> DEFINE WInv == TypeOK /\ WritersFoundNothing
<1>1. Init => WInv
  BY TypeInit, WritersInit
<1>2. WInv /\ [Next]_vars => WInv'
  BY TypeStep, WritersStep
<1>3. WInv /\ [Next]_vars =>
        [\A k \in Key : (files[k] # "absent" => Owned(k)) /\ faults' = faults
                          => (files'[k] # "absent" => Owned(k)')]_vars
  BY ForgetStep
<1> QED BY <1>1, <1>2, <1>3, PTL DEF Spec, NoFileIsForgotten
=============================================================================
