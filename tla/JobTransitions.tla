--------------------------- MODULE JobTransitions ---------------------------
(* The job status machine of domain/jobs.ts: the statuses a job row can      *)
(* carry, the table of legal moves that JobQueue.transition consults, and    *)
(* the bound of the retry backoff.  Constant-level: no state of its own.     *)
EXTENDS Integers

JobStatus == {"draft", "queued", "submitted", "running", "completed",
              "failed", "cancelled", "expired", "unknown"}

TERMINAL_JOB_STATUSES == {"completed", "failed", "cancelled", "expired"}

JOB_TRANSITIONS ==
  [draft     |-> {"queued", "cancelled"},
   queued    |-> {"running", "cancelled", "expired"},
   submitted |-> {"running", "completed", "failed", "cancelled", "expired", "unknown"},
   running   |-> {"submitted", "completed", "failed", "cancelled", "expired", "unknown"},
   completed |-> {},
   failed    |-> {"queued"},
   cancelled |-> {},
   expired   |-> {"queued"},
   unknown   |-> {"running", "submitted", "completed", "failed", "cancelled", "expired"}]

canTransitionJob(from, to) == from \in JobStatus /\ to \in JOB_TRANSITIONS[from]

isTerminal(status) == status \in TERMINAL_JOB_STATUSES

(* The delays backoffMs may draw: full jitter below an exponential window    *)
(* that starts at base and is capped.  Attempts 0 and 1 have the same window.*)
backoffMs(attempt, base, cap) ==
  LET exponent == IF attempt > 1 THEN attempt - 1 ELSE 0
      window   == base * 2^exponent
  IN  0 .. ((IF window < cap THEN window ELSE cap) - 1)
=============================================================================
