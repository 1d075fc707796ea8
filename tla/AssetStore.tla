----------------------------- MODULE AssetStore -----------------------------
(* The media library: content-addressed files (services/storage.ts) and the  *)
(* rows that point at them (services/media.ts, api/media.ts), in one server. *)
(*                                                                           *)
(* Requests interleave at their awaits only, and every await is a call of    *)
(* the file system; what lies between two of them, SQL included, is one      *)
(* step.  A file of the same checksum, kind and extension has the same key,  *)
(* so a key is a content and a place to put it.  All rows are of one         *)
(* workspace.  A temporary name is never used twice, so a temporary file is  *)
(* part of the request that writes it.                                       *)
EXTENDS Naturals

CONSTANTS
  Content,      \* what can be uploaded, by checksum
  Place,        \* kind and file name extension
  NoKey,
  Asset,        \* ids for rows
  Req,          \* requests that can be in flight together
  MaxFaults     \* bound: failed file system calls and crashes, all together

Key == Content \X Place
Checksum(k) == k[1]

AssetAssumption == NoKey \notin Key /\ MaxFaults \in Nat

VARIABLES
  files,        \* what is at each key
  rows,         \* the table media_assets
  reqs,         \* where each request is
  faults,       \* how many calls failed or were cut off
  sound         \* history: rows whose file was there when they were inserted,
                \* with nobody about to remove it

vars == <<files, rows, reqs, faults, sound>>

FileState == {"absent", "torn", "whole"}

(* A purged row is gone; its id is not used again.                           *)
NoRow == [st |-> "none", key |-> NoKey]
Purged == [st |-> "purged", key |-> NoKey]
Row == [st: {"live", "trashed"}, key: Key]

(* Before which file system call, or callback, a request stands.             *)
Idle == [at |-> "idle"]
Upload == [at: {"stat", "open", "write", "rename", "stored"},
           via: {"service", "api"}, key: Key, deduped: BOOLEAN, temp: FileState]
Removal == [at: {"unlink"}, key: Key]

TypeOK ==
  /\ files \in [Key -> FileState]
  /\ rows \in [Asset -> Row \cup {NoRow, Purged}]
  /\ reqs \in [Req -> Upload \cup Removal \cup {Idle}]
  /\ faults \in Nat
  /\ sound \subseteq Asset

Init ==
  /\ files = [k \in Key |-> "absent"]
  /\ rows = [a \in Asset |-> NoRow]
  /\ reqs = [r \in Req |-> Idle]
  /\ faults = 0
  /\ sound = {}

InTable(a) == rows[a].st \in {"live", "trashed"}
LiveWith(c) == {a \in Asset : rows[a].st = "live" /\ Checksum(rows[a].key) = c}
UnlinkPending(k) == \E r \in Req : reqs[r] = [at |-> "unlink", key |-> k]

-----------------------------------------------------------------------------
(* upload, of the service and of the API, around storage.put                 *)

(* The API looks for a live row of the checksum before it stores anything;   *)
(* if there is one the request ends without a trace.                         *)
StartUpload(r) ==
  /\ reqs[r] = Idle
  /\ \E k \in Key, via \in {"service", "api"} :
       /\ via = "api" => LiveWith(Checksum(k)) = {}
       /\ reqs' = [reqs EXCEPT ![r] = [at |-> "stat", via |-> via, key |-> k,
                                       deduped |-> FALSE, temp |-> "absent"]]
  /\ UNCHANGED <<files, rows, faults, sound>>

Stat(r) ==
  /\ reqs[r].at = "stat"
  /\ reqs' = IF files[reqs[r].key] # "absent"
             THEN [reqs EXCEPT ![r].at = "stored", ![r].deduped = TRUE]
             ELSE [reqs EXCEPT ![r].at = "open"]
  /\ UNCHANGED <<files, rows, faults, sound>>

(* mkdir and the beginning of writeFile                                      *)
BeginWrite(r) ==
  /\ reqs[r].at = "open"
  /\ reqs' = [reqs EXCEPT ![r].at = "write", ![r].temp = "torn"]
  /\ UNCHANGED <<files, rows, faults, sound>>

EndWrite(r) ==
  /\ reqs[r].at = "write"
  /\ reqs' = [reqs EXCEPT ![r].at = "rename", ![r].temp = "whole"]
  /\ UNCHANGED <<files, rows, faults, sound>>

(* Mutant of Rename: writeFile is not awaited.                               *)
RenameEarly(r) ==
  /\ reqs[r].at \in {"write", "rename"}
  /\ files' = [files EXCEPT ![reqs[r].key] = reqs[r].temp]
  /\ reqs' = [reqs EXCEPT ![r].at = "stored", ![r].temp = "absent"]
  /\ UNCHANGED <<rows, faults, sound>>

Rename(r) ==
  /\ reqs[r].at = "rename"
  /\ files' = [files EXCEPT ![reqs[r].key] = reqs[r].temp]
  /\ reqs' = [reqs EXCEPT ![r].at = "stored", ![r].temp = "absent"]
  /\ UNCHANGED <<rows, faults, sound>>

(* Mutant of ReturnsExisting: any live row of the checksum will do.          *)
ReturnsAnyExisting(r) ==
  reqs[r].via = "service" /\ LiveWith(Checksum(reqs[r].key)) # {}

(* The service looks for a live row when the bytes are stored, and takes it  *)
(* only if the bytes were there before.                                      *)
ReturnsExisting(r) ==
  /\ reqs[r].via = "service" /\ reqs[r].deduped
  /\ LiveWith(Checksum(reqs[r].key)) # {}

Insert(a, k) ==
  /\ rows[a] = NoRow
  /\ rows' = [rows EXCEPT ![a] = [st |-> "live", key |-> k]]
  /\ sound' = IF files[k] # "absent" /\ ~UnlinkPending(k) THEN sound \cup {a} ELSE sound

FinishUpload(r) ==
  /\ reqs[r].at = "stored"
  /\ IF ReturnsExisting(r) THEN UNCHANGED <<rows, sound>>
                           ELSE \E a \in Asset : Insert(a, reqs[r].key)
  /\ reqs' = [reqs EXCEPT ![r] = Idle]
  /\ UNCHANGED <<files, faults>>

-----------------------------------------------------------------------------
(* delete and purge                                                          *)

SoftDelete(a) ==
  /\ rows[a].st = "live"
  /\ rows' = [rows EXCEPT ![a].st = "trashed"]
  /\ UNCHANGED <<files, reqs, faults, sound>>

(* Mutant of StillReferenced: rows in the trash do not count.                *)
ReferencedLive(a) ==
  \E b \in Asset \ {a} : rows[b].st = "live" /\ rows[b].key = rows[a].key

StillReferenced(a) ==
  \E b \in Asset \ {a} : InTable(b) /\ rows[b].key = rows[a].key

(* The row goes, and with the last row of a key the file, an await later.    *)
Purge(r, a) ==
  /\ reqs[r] = Idle /\ InTable(a)
  /\ rows' = [rows EXCEPT ![a] = Purged]
  /\ reqs' = IF StillReferenced(a) THEN reqs
             ELSE [reqs EXCEPT ![r] = [at |-> "unlink", key |-> rows[a].key]]
  /\ UNCHANGED <<files, faults, sound>>

Unlink(r) ==
  /\ reqs[r].at = "unlink"
  /\ files' = [files EXCEPT ![reqs[r].key] = "absent"]
  /\ reqs' = [reqs EXCEPT ![r] = Idle]
  /\ UNCHANGED <<rows, faults, sound>>

-----------------------------------------------------------------------------
(* Failures                                                                  *)

(* A call of the file system fails.  A failed stat counts as no file; any    *)
(* other failure ends the request, and nobody clears up behind it.           *)
Fault(r) ==
  /\ faults < MaxFaults /\ faults' = faults + 1
  /\ \/ reqs[r].at = "stat" /\ reqs' = [reqs EXCEPT ![r].at = "open"]
     \/ reqs[r].at \in {"open", "write", "rename", "unlink"} /\ reqs' = [reqs EXCEPT ![r] = Idle]
  /\ UNCHANGED <<files, rows, sound>>

(* The server ends and starts again.                                         *)
Crash ==
  /\ faults < MaxFaults /\ faults' = faults + 1
  /\ reqs' = [r \in Req |-> Idle]
  /\ UNCHANGED <<files, rows, sound>>

PutStep(r) ==
  Stat(r) \/ BeginWrite(r) \/ EndWrite(r) \/ Rename(r)

Next ==
  \/ \E r \in Req : StartUpload(r) \/ PutStep(r) \/ FinishUpload(r)
  \/ \E a \in Asset : SoftDelete(a)
  \/ \E r \in Req, a \in Asset : Purge(r, a)
  \/ \E r \in Req : Unlink(r)
  \/ \E r \in Req : Fault(r)
  \/ Crash

Spec == Init /\ [][Next]_vars

-----------------------------------------------------------------------------
(* Properties                                                                *)

(* A row whose file was there when it was inserted, with no purge about to   *)
(* remove it, keeps it, whole, for as long as it is in the table, trashed or *)
(* not: through crashes in the middle of a write, uploads that trust or      *)
(* replace each other's file, and purges of the rows it shares the file      *)
(* with.  No row, of those inserted under a pending removal or after one     *)
(* either, ever leads to half a file.  (That such a row loses its file, or   *)
(* never has one, is what the code lets happen.)                             *)
BytesStay ==
  /\ \A a \in sound : InTable(a) => files[rows[a].key] = "whole"
  /\ \A a \in Asset : InTable(a) => files[rows[a].key] # "torn"

(* As long as nothing fails, every file belongs to a row, to the upload that *)
(* wrote it and is about to insert one, or to the purge that removes it; so  *)
(* only a failure can leave a file that no row leads to.                     *)
Owned(k) ==
  \/ \E a \in Asset : InTable(a) /\ rows[a].key = k
  \/ \E r \in Req : reqs[r].at = "stored" /\ ~reqs[r].deduped /\ reqs[r].key = k
  \/ UnlinkPending(k)
NoFileIsForgotten ==
  [][\A k \in Key :
       (files[k] # "absent" => Owned(k)) /\ faults' = faults
         => (files'[k] # "absent" => Owned(k)')]_vars
=============================================================================
