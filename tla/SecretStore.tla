----------------------------- MODULE SecretStore -----------------------------
(* services/secrets.ts and main.ts loadPersistentSecretKey: credentials      *)
(* sealed in a table under the key of a file that the first server to start  *)
(* creates.  Several servers share the data directory; statements, file      *)
(* operations and crashes of all of them interleave.  The key comes from the *)
(* file: the environment sets none.                                          *)
EXTENDS Naturals

CONSTANTS
  Proc,         \* server processes
  Ref,          \* names of credentials
  RowId,        \* ids of rows
  MaxKeys       \* bound: keys ever generated

SecretStoreAssumption == MaxKeys \in Nat /\ "none" \notin Ref

VARIABLES
  keyFile,      \* the file .master-key
  generated,    \* keys generated so far
  server,       \* how far each process has come in starting
  active,       \* the key it seals with
  secrets,      \* the table
  stmt          \* the second statement of a put under way

storeVars == <<keyFile, generated, server, active, secrets, stmt>>

Key == 1..MaxKeys
Absent == 0
Empty == MaxKeys + 1
NoRow == [ref |-> "none"]
Row == [ref: Ref, key: Key]
Idle == [st |-> "idle"]
Update(id) == [st |-> "update", id |-> id]
Insert(ref) == [st |-> "insert", ref |-> ref]

TypeOK ==
  /\ keyFile \in {Absent, Empty} \cup Key /\ generated \in 0..MaxKeys
  /\ server \in [Proc -> {"down", "looked", "opened", "up"}]
  /\ active \in [Proc -> {Absent} \cup Key]
  /\ secrets \in [RowId -> {NoRow} \cup Row]
  /\ stmt \in [Proc -> {Idle} \cup {Update(id) : id \in RowId} \cup {Insert(ref) : ref \in Ref}]

Init ==
  /\ keyFile = Absent /\ generated = 0
  /\ server = [p \in Proc |-> "down"] /\ active = [p \in Proc |-> Absent]
  /\ secrets = [id \in RowId |-> NoRow]
  /\ stmt = [p \in Proc |-> Idle]

-----------------------------------------------------------------------------
(* loadPersistentSecretKey                                                   *)

(* A key found is used; an empty file makes the start fail, each time.       *)
Look(p) ==
  /\ server[p] = "down" /\ keyFile # Empty
  /\ IF keyFile = Absent
     THEN server' = [server EXCEPT ![p] = "looked"] /\ UNCHANGED active
     ELSE /\ server' = [server EXCEPT ![p] = "up"]
          /\ active' = [active EXCEPT ![p] = keyFile]
  /\ UNCHANGED <<keyFile, generated, secrets, stmt>>

(* Mutant of MayCreate: the file is opened for writing, new or not.          *)
MayOverwrite == TRUE
(* The flag wx: the file must not exist.                                     *)
MayCreate == keyFile = Absent

(* writeFileSync opens the file and then writes the key to it.               *)
Open(p) ==
  /\ server[p] = "looked"
  /\ IF MayCreate
     THEN /\ generated < MaxKeys /\ generated' = generated + 1
          /\ keyFile' = Empty
          /\ server' = [server EXCEPT ![p] = "opened"]
          /\ active' = [active EXCEPT ![p] = generated + 1]
     ELSE /\ server' = [server EXCEPT ![p] = "down"]
          /\ UNCHANGED <<keyFile, generated, active>>
  /\ UNCHANGED <<secrets, stmt>>

WriteKey(p) ==
  /\ server[p] = "opened"
  /\ keyFile' = active[p]
  /\ server' = [server EXCEPT ![p] = "up"]
  /\ UNCHANGED <<generated, active, secrets, stmt>>

Crash(p) ==
  /\ server[p] # "down"
  /\ server' = [server EXCEPT ![p] = "down"]
  /\ active' = [active EXCEPT ![p] = Absent]
  /\ stmt' = [stmt EXCEPT ![p] = Idle]
  /\ UNCHANGED <<keyFile, generated, secrets>>

-----------------------------------------------------------------------------
(* The table, with a unique index on ref                                     *)

Rows(ref) == {id \in RowId : secrets[id].ref = ref}

put(p, ref) ==
  /\ server[p] = "up" /\ stmt[p] = Idle
  /\ \/ \E id \in Rows(ref) : stmt' = [stmt EXCEPT ![p] = Update(id)]
     \/ Rows(ref) = {} /\ stmt' = [stmt EXCEPT ![p] = Insert(ref)]
  /\ UNCHANGED <<keyFile, generated, server, active, secrets>>

(* The update of a row deleted meanwhile changes nothing and reports no      *)
(* error; the insert beside a row with the same ref is refused.              *)
Seal(p) ==
  /\ \/ /\ stmt[p].st = "update"
        /\ secrets' = [secrets EXCEPT ![stmt[p].id] =
                         IF @ = NoRow THEN NoRow ELSE [@ EXCEPT !.key = active[p]]]
     \/ /\ stmt[p].st = "insert" /\ Rows(stmt[p].ref) = {}
        /\ \E id \in {i \in RowId : secrets[i] = NoRow} :
             secrets' = [secrets EXCEPT ![id] = [ref |-> stmt[p].ref, key |-> active[p]]]
     \/ stmt[p].st = "insert" /\ Rows(stmt[p].ref) # {} /\ UNCHANGED secrets
  /\ stmt' = [stmt EXCEPT ![p] = Idle]
  /\ UNCHANGED <<keyFile, generated, server, active>>

delete(p, ref) ==
  /\ server[p] = "up" /\ stmt[p] = Idle
  /\ secrets' = [id \in RowId |-> IF id \in Rows(ref) THEN NoRow ELSE secrets[id]]
  /\ UNCHANGED <<keyFile, generated, server, active, stmt>>

(* The credential at ref opens under the key of p.                           *)
reveal(p, ref) == \E id \in Rows(ref) : secrets[id].key = active[p]

Next ==
  \E p \in Proc :
    \/ Look(p) \/ Open(p) \/ WriteKey(p) \/ Crash(p) \/ Seal(p)
    \/ \E ref \in Ref : put(p, ref) \/ delete(p, ref)

StoreSpec == Init /\ [][Next]_storeVars

-----------------------------------------------------------------------------
(* However the starts, crashes and writes of the servers interleave, every   *)
(* server that runs can open every credential any of them has stored, and a  *)
(* ref names one credential.                                                 *)
Readable ==
  \A ref \in Ref :
    /\ \A id1, id2 \in Rows(ref) : id1 = id2
    /\ Rows(ref) # {} => \A p \in Proc : server[p] = "up" => reveal(p, ref)
=============================================================================
