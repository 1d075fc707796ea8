------------------------------ MODULE JobLease ------------------------------
(* What the queue promises about leases, without rows, statements, pools or  *)
(* handlers: a job has at most one lease, a lease is granted only when the   *)
(* job has none or the one it has is over, and granting, extending and       *)
(* releasing are the only things that happen to it.                          *)
EXTENDS Naturals

CONSTANTS Job, Worker, NoLease

VARIABLES
  lease,        \* lease[j]: NoLease, or who holds job j and until when
  now

LeaseInit == lease = [j \in Job |-> NoLease] /\ now = 0

Free(j) == lease[j] = NoLease \/ lease[j].until <= now

(* Only the lease of j may change.                                           *)
Only(j) == lease' = [lease EXCEPT ![j] = lease'[j]] /\ UNCHANGED now

Grant(j) ==
  /\ Free(j)
  /\ lease'[j].by \in Worker /\ lease'[j].until \in Nat
  /\ Only(j)

(* The holder moves the end of its lease, in either direction.               *)
Extend(j) ==
  /\ lease[j] # NoLease
  /\ lease'[j].by = lease[j].by /\ lease'[j].until \in Nat
  /\ Only(j)

(* Settling, parking, cancelling or retrying a job gives up its lease.       *)
Release(j) ==
  /\ lease'[j] = NoLease
  /\ Only(j)

(* Recovery at the start of a pool takes only leases that are over.          *)
Expire ==
  /\ lease' = [j \in Job |-> IF Free(j) THEN NoLease ELSE lease[j]]
  /\ UNCHANGED now

Pass == now' = now + 1 /\ UNCHANGED lease

LeaseNext ==
  \/ \E j \in Job : Grant(j) \/ Extend(j) \/ Release(j)
  \/ Expire
  \/ Pass

LeaseSpec == LeaseInit /\ [][LeaseNext]_<<lease, now>>
=============================================================================
