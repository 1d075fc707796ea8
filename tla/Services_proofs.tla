--------------------------- MODULE Services_proofs ---------------------------
(* Theorems about what the services stand on: the repository, the rate       *)
(* limiter, the provider router, the reply policy and the credentials, for   *)
(* every number of processes and every limit.                                *)
EXTENDS Platform, TLAPS, SequenceTheorems, FiniteSetTheorems

-----------------------------------------------------------------------------
(* A step of the platform is a step of each component, or leaves it alone    *)

LEMMA Steps ==
  [AllNext]_allVars =>
    /\ [Next]_vars /\ [Repo!Next]_repoVars /\ [Rate!Next]_rateVars
    /\ [Router!Next]_routerVars /\ [Replies!Next]_replyVars
    /\ [Gateways!Next]_gatewayVars /\ [Vault!Next]_vaultVars
    /\ [Probes!Next]_probeVars /\ [Library!Next]_mediaVars
BY DEF AllNext, Only, allVars

-----------------------------------------------------------------------------
(* The rate limiter                                                          *)

(* Windows are numbered by the clock, and do not go back.                    *)
LEMMA Division ==
  ASSUME NEW t \in Nat, NEW d \in Nat \ {0}
  PROVE  /\ t \div d \in Nat /\ t \div d <= t
         /\ t \div d <= (t + 1) \div d
<1>1. \A a \in Nat : a \div d \in Int /\ d * (a \div d) <= a /\ a < d * ((a \div d) + 1)
  BY Z3
<1>2. \A a \in Nat : a \div d >= 0 /\ a \div d <= a
  BY <1>1, Z3
<1>3. t \div d <= (t + 1) \div d
  BY <1>1, Z3
<1> QED BY <1>1, <1>2, <1>3

LEMMA WindowsOfTheClock ==
  ASSUME NEW t \in 0..MaxTime
  PROVE  Rate!windowOf(t) \in Rate!Windows /\ Rate!windowOf(t) \in Int /\ Rate!windowOf(t) <= Rate!windowOf(t + 1)
BY PlatformAssumption, Division DEF Rate!RateLimiterAssumption, Rate!windowOf,
   Rate!Windows

-----------------------------------------------------------------------------
(* Types                                                                     *)

RateStatement == {Rate!Idle} \cup [op: {"reset", "increment"}, window: Rate!Windows]

LEMMA RateTypeInit == Rate!Init => Rate!TypeOK
<1> SUFFICES ASSUME Rate!Init PROVE Rate!TypeOK
  OBVIOUS
<1>1. now \in 0..MaxTime /\ counter \in Rate!Counter
  BY PlatformAssumption DEF Rate!RateLimiterAssumption, Rate!Init, Rate!Counter,
     Rate!NoCounter
<1>2. raced \in BOOLEAN
  BY DEF Rate!Init
<1>3. pending \in [Proc -> RateStatement] /\ admitted \in [Rate!Windows -> Nat]
  BY DEF Rate!Init, RateStatement
<1> QED BY <1>1, <1>2, <1>3 DEF Rate!TypeOK, RateStatement

LEMMA RateTypeStep == Rate!TypeOK /\ [Rate!Next]_rateVars => Rate!TypeOK'
<1> SUFFICES ASSUME Rate!TypeOK, [Rate!Next]_rateVars PROVE Rate!TypeOK'
  OBVIOUS
<1>1. ASSUME NEW p \in Proc, Rate!consume(p) PROVE Rate!TypeOK'
  <2>1. Rate!windowOf(now) \in Rate!Windows
    BY WindowsOfTheClock DEF Rate!TypeOK
  <2>2. PICK op \in {"reset", "increment"} :
          pending' = [pending EXCEPT ![p] = [op |-> op, window |-> Rate!windowOf(now)]]
    BY <1>1 DEF Rate!consume
  <2>3. pending' \in [Proc -> RateStatement]
    BY <2>1, <2>2 DEF Rate!TypeOK, RateStatement
  <2>4. raced' \in BOOLEAN
    BY <1>1 DEF Rate!consume, Rate!TypeOK
  <2> QED BY <1>1, <2>3, <2>4 DEF Rate!consume, Rate!TypeOK, RateStatement
<1>2. ASSUME NEW p \in Proc, Rate!Write(p) PROVE Rate!TypeOK'
  <2>1. pending[p] \in [op: {"reset", "increment"}, window: Rate!Windows]
    BY <1>2 DEF Rate!Write, Rate!TypeOK
  <2>2. counter' \in Rate!Counter
    BY <1>2, <2>1 DEF Rate!Write, Rate!TypeOK, Rate!Reset, Rate!Incremented,
       Rate!Counter
  <2>3. admitted' \in [Rate!Windows -> Nat]
    BY <1>2, <2>1 DEF Rate!Write, Rate!TypeOK
  <2> QED BY <1>2, <2>2, <2>3 DEF Rate!Write, Rate!TypeOK
<1>3. ASSUME NEW p \in Proc, Rate!Crash(p) PROVE Rate!TypeOK'
  BY <1>3 DEF Rate!Crash, Rate!TypeOK
<1>4. CASE Rate!prune
  BY <1>4 DEF Rate!prune, Rate!TypeOK, Rate!Counter, Rate!NoCounter
<1>5. CASE Rate!Tick
  BY PlatformAssumption, <1>5 DEF Rate!Tick, Rate!TypeOK, Rate!RateLimiterAssumption
<1>6. CASE UNCHANGED rateVars
  BY <1>6 DEF rateVars, Rate!TypeOK
<1> QED BY <1>1, <1>2, <1>3, <1>4, <1>5, <1>6 DEF Rate!Next

(* Counters, pending statements and the history keep their types, whatever   *)
(* calls overlap and whichever processes die.                                *)
THEOREM RateTyping == AllSpec => []Rate!TypeOK
BY RateTypeInit, RateTypeStep, Steps, PTL DEF AllSpec, AllInit

-----------------------------------------------------------------------------
(* The limit                                                                 *)

(* Calls that do not overlap leave one statement pending at most.            *)
Solo == \A p, q \in Proc : pending[p] # Rate!Idle /\ pending[q] # Rate!Idle => p = q

(* The counter covers what was admitted in its window; what was admitted in  *)
(* the current one, it is about; nothing was admitted ahead of time.         *)
Covers ==
  /\ counter.window # Rate!None => counter.window <= Rate!windowOf(now)
  /\ \A w \in Rate!Windows :
       /\ admitted[w] <= Rate!Cap
       /\ counter.window = w => admitted[w] <= counter.count
       /\ admitted[w] > 0 => w <= Rate!windowOf(now)
  /\ admitted[Rate!windowOf(now)] > 0 => counter.window = Rate!windowOf(now)

(* A call that was let through still may be: its window has room, and no     *)
(* later one has begun to fill.                                              *)
Sound(s) ==
  /\ s.window <= Rate!windowOf(now)
  /\ \A w \in Rate!Windows : w > s.window => admitted[w] = 0
  /\ s.op = "reset" => admitted[s.window] = 0
  /\ s.op = "increment" =>
       /\ admitted[s.window] < CallLimit
       /\ \/ counter.window = s.window
          \/ counter = Rate!NoCounter /\ s.window < Rate!windowOf(now)

Ledger == ~raced => Solo /\ Covers /\ \A p \in Proc : pending[p] # Rate!Idle => Sound(pending[p])

LEMMA LedgerInit == Rate!Init => Ledger
<1> SUFFICES ASSUME Rate!Init PROVE Ledger
  OBVIOUS
<1>1. Rate!windowOf(now) \in Rate!Windows
  BY PlatformAssumption, WindowsOfTheClock DEF Rate!Init, Rate!RateLimiterAssumption
<1>2. Rate!Cap \in Nat
  BY PlatformAssumption DEF Rate!Cap, Rate!RateLimiterAssumption
<1> QED BY PlatformAssumption, <1>1, <1>2 DEF Rate!Init, Ledger, Solo, Covers,
           Rate!NoCounter, Rate!None, Rate!Windows,
            Rate!RateLimiterAssumption

LEMMA LedgerStep == Rate!TypeOK /\ Ledger /\ [Rate!Next]_rateVars => Ledger'
<1> SUFFICES ASSUME Rate!TypeOK, Ledger, [Rate!Next]_rateVars, ~raced'
             PROVE  (Solo /\ Covers /\ \A p \in Proc : pending[p] # Rate!Idle => Sound(pending[p]))'
  BY DEF Ledger
<1>0. /\ ~raced /\ Solo /\ Covers
      /\ \A p \in Proc : pending[p] # Rate!Idle => Sound(pending[p])
  <2>1. ~raced
    BY DEF Rate!Next, Rate!consume, Rate!Write, Rate!Crash, Rate!prune, Rate!Tick,
       rateVars, Rate!TypeOK
  <2> QED BY <2>1 DEF Ledger
<1>a. /\ Rate!windowOf(now) \in Rate!Windows /\ Rate!windowOf(now) \in Int /\ now \in 0..MaxTime
      /\ MaxTime \in Nat /\ CallLimit \in Nat /\ Rate!Cap \in Nat /\ Rate!Cap >= 1 /\ Rate!Cap >= CallLimit
      /\ \A w \in Rate!Windows : w \in Nat /\ w # Rate!None /\ admitted[w] \in Nat
  <2>1. Rate!windowOf(now) \in Rate!Windows /\ Rate!windowOf(now) \in Int /\ now \in 0..MaxTime
    BY WindowsOfTheClock DEF Rate!TypeOK
  <2>2. MaxTime \in Nat /\ CallLimit \in Nat /\ Rate!Cap \in Nat /\ Rate!Cap >= 1 /\ Rate!Cap >= CallLimit
    BY PlatformAssumption DEF Rate!RateLimiterAssumption, Rate!Cap
  <2>3. \A w \in Rate!Windows : w \in Nat /\ w # Rate!None /\ admitted[w] \in Nat
    BY DEF Rate!TypeOK, Rate!Windows, Rate!None
  <2> QED BY <2>1, <2>2, <2>3
<1>b. /\ \A p \in Proc : pending[p] # Rate!Idle =>
             pending[p] \in [op: {"reset", "increment"}, window: Rate!Windows]
      /\ counter \in Rate!Counter
  BY DEF Rate!TypeOK
<1>1. ASSUME NEW p \in Proc, Rate!consume(p)
      PROVE  (Solo /\ Covers /\ \A q \in Proc : pending[q] # Rate!Idle => Sound(pending[q]))'
  <2> DEFINE s == pending[p]
  <2>1. /\ UNCHANGED <<now, counter, admitted>>
        /\ \A q \in Proc : pending[q] = Rate!Idle
        /\ \A q \in Proc \ {p} : pending'[q] = Rate!Idle
        /\ s' = [op |-> IF Rate!Restarts(counter, now) THEN "reset" ELSE "increment",
                 window |-> Rate!windowOf(now)]
    BY <1>1 DEF Rate!consume, Rate!TypeOK
  <2>2. Solo'
    BY <2>1 DEF Solo
  <2>3. Covers'
    BY <1>0, <2>1 DEF Covers, Rate!windowOf
  <2>4. Sound(s)'
    <3>1. s'.window = Rate!windowOf(now) /\ Rate!windowOf(now)' = Rate!windowOf(now)
      BY <2>1 DEF Rate!windowOf
    <3>2. \A w \in Rate!Windows : w > Rate!windowOf(now) => admitted[w] = 0
      BY <1>0, <1>a DEF Covers
    <3>3. CASE Rate!Restarts(counter, now)
      <4>1. s'.op = "reset" /\ counter.window # Rate!windowOf(now)
        BY <2>1, <3>3 DEF Rate!Restarts
      <4>2. admitted[Rate!windowOf(now)] = 0
        BY <1>0, <1>a, <4>1 DEF Covers
      <4> QED BY <1>a, <2>1, <3>1, <3>2, <4>1, <4>2 DEF Sound
    <3>4. CASE ~Rate!Restarts(counter, now)
      <4>1. s'.op = "increment" /\ counter.window = Rate!windowOf(now)
        BY <2>1, <3>4 DEF Rate!Restarts
      <4>2. counter.count < CallLimit
        BY <1>1, <1>a, <1>b, <3>4 DEF Rate!consume, Rate!Refuses, Rate!Counter
      <4>3. admitted[Rate!windowOf(now)] < CallLimit
        BY <1>0, <1>a, <1>b, <4>1, <4>2 DEF Covers, Rate!Counter
      <4> QED BY <1>a, <2>1, <3>1, <3>2, <4>1, <4>3 DEF Sound
    <3> QED BY <3>3, <3>4
  <2>5. \A q \in Proc : pending'[q] # Rate!Idle => q = p
    BY <2>1
  <2> QED BY <2>2, <2>3, <2>4, <2>5 DEF Sound
<1>2. ASSUME NEW p \in Proc, Rate!Write(p)
      PROVE  (Solo /\ Covers /\ \A q \in Proc : pending[q] # Rate!Idle => Sound(pending[q]))'
  <2> DEFINE s == pending[p]
             w == s.window
  <2>1. s \in [op: {"reset", "increment"}, window: Rate!Windows] /\ w \in Rate!Windows /\ Sound(s)
    BY <1>0, <1>2, <1>b DEF Rate!Write
  <2>2. /\ now' = now /\ Rate!windowOf(now)' = Rate!windowOf(now)
        /\ admitted'[w] = admitted[w] + 1
        /\ \A v \in Rate!Windows \ {w} : admitted'[v] = admitted[v]
    BY <1>2, <2>1 DEF Rate!Write, Rate!TypeOK, Rate!windowOf
  <2>3. \A q \in Proc : pending'[q] = Rate!Idle
    BY <1>0, <1>2 DEF Rate!Write, Solo, Rate!TypeOK
  <2>4. \A v \in Rate!Windows : v > w => admitted'[v] = 0
    BY <1>a, <2>1, <2>2 DEF Sound
  <2>5. /\ admitted'[w] <= Rate!Cap
        /\ counter'.window # Rate!None => counter'.window = w /\ admitted'[w] <= counter'.count
        /\ counter'.window = Rate!None => w < Rate!windowOf(now)
    <3>1. CASE s.op = "reset"
      <4>1. counter' = [window |-> w, count |-> 1]
        BY <1>2, <3>1 DEF Rate!Write, Rate!Reset
      <4>2. admitted'[w] = 1
        BY <2>1, <2>2, <3>1 DEF Sound
      <4> QED BY <1>a, <2>1, <4>1, <4>2
    <3>2. CASE s.op = "increment"
      <4>1. counter' = Rate!Incremented(counter)
        BY <1>2, <3>2 DEF Rate!Write
      <4>2. admitted[w] < CallLimit
        BY <2>1, <3>2 DEF Sound
      <4>3. CASE counter.window = w
        <5>1. counter # Rate!NoCounter
          BY <1>a, <2>1, <4>3 DEF Rate!NoCounter
        <5>2. counter'.window = w /\ counter'.count = counter.count + 1
          BY <1>b, <4>1, <4>3, <5>1 DEF Rate!Incremented, Rate!Counter
        <5>3. admitted[w] <= counter.count /\ counter.count \in Nat
          BY <1>0, <1>b, <2>1, <4>3 DEF Covers, Rate!Counter
        <5> QED BY <1>a, <2>1, <2>2, <4>2, <5>2, <5>3
      <4>4. CASE counter = Rate!NoCounter /\ w < Rate!windowOf(now)
        <5>1. counter'.window = Rate!None
          BY <4>1, <4>4 DEF Rate!Incremented, Rate!NoCounter
        <5> QED BY <1>a, <2>1, <2>2, <4>2, <4>4, <5>1
      <4> QED BY <2>1, <3>2, <4>3, <4>4 DEF Sound
    <3> QED BY <2>1, <3>1, <3>2
  <2>6. Covers'
    <3>1. w <= Rate!windowOf(now)
      BY <2>1 DEF Sound
    <3>2. counter'.window # Rate!None => counter'.window <= Rate!windowOf(now)
      BY <2>5, <3>1
    <3>3. ASSUME NEW v \in Rate!Windows
          PROVE  /\ admitted'[v] <= Rate!Cap
                 /\ counter'.window = v => admitted'[v] <= counter'.count
                 /\ admitted'[v] > 0 => v <= Rate!windowOf(now)
      <4>1. CASE v = w
        BY <1>a, <2>5, <3>1, <4>1
      <4>2. CASE v # w
        BY <1>0, <1>a, <2>2, <2>5, <4>2 DEF Covers
      <4> QED BY <4>1, <4>2
    <3>4. admitted'[Rate!windowOf(now)] > 0 => counter'.window = Rate!windowOf(now)
      BY <1>a, <2>1, <2>4, <2>5, <3>1
    <3> QED BY <2>2, <3>2, <3>3, <3>4 DEF Covers, Rate!Cap
  <2> QED BY <2>3, <2>6 DEF Solo
<1>3. ASSUME NEW p \in Proc, Rate!Crash(p)
      PROVE  (Solo /\ Covers /\ \A q \in Proc : pending[q] # Rate!Idle => Sound(pending[q]))'
  <2>1. UNCHANGED <<now, counter, admitted>> /\ \A q \in Proc : pending'[q] # Rate!Idle => pending'[q] = pending[q]
    BY <1>3 DEF Rate!Crash, Rate!TypeOK
  <2> QED BY <1>0, <2>1 DEF Solo, Covers, Sound, Rate!windowOf
<1>4. CASE Rate!prune
  <2>1. /\ counter.window < Rate!windowOf(now) /\ counter.window # Rate!None /\ counter' = Rate!NoCounter
        /\ UNCHANGED <<now, pending, admitted>> /\ Rate!windowOf(now)' = Rate!windowOf(now)
    BY <1>4 DEF Rate!prune, Rate!windowOf
  <2>2. Covers'
    <3>1. admitted[Rate!windowOf(now)] = 0
      BY <1>0, <1>a, <2>1 DEF Covers
    <3> QED BY <1>0, <1>a, <2>1, <3>1 DEF Covers, Rate!NoCounter
  <2>3. ASSUME NEW q \in Proc, pending[q] # Rate!Idle PROVE Sound(pending[q])'
    <3>1. Sound(pending[q])
      BY <1>0, <2>3
    <3>2. pending[q].op = "increment" => pending[q].window < Rate!windowOf(now)
      BY <2>1, <3>1 DEF Sound
    <3> QED BY <2>1, <3>1, <3>2 DEF Sound
  <2> QED BY <1>0, <2>1, <2>2, <2>3 DEF Solo
<1>5. CASE Rate!Tick
  <2>1. now' = now + 1 /\ now' \in 0..MaxTime /\ UNCHANGED <<counter, pending, admitted>>
    BY <1>5, <1>a DEF Rate!Tick
  <2>2. /\ Rate!windowOf(now') \in Rate!Windows /\ Rate!windowOf(now) <= Rate!windowOf(now')
        /\ Rate!windowOf(now)' = Rate!windowOf(now')
    BY <1>a, <2>1, WindowsOfTheClock DEF Rate!windowOf
  <2>3. Covers'
    <3>1. admitted[Rate!windowOf(now')] > 0 => Rate!windowOf(now') = Rate!windowOf(now)
      BY <1>0, <1>a, <2>2 DEF Covers
    <3> QED BY <1>0, <1>a, <1>b, <2>1, <2>2, <3>1 DEF Covers, Rate!Counter, Rate!Cap
  <2>4. ASSUME NEW q \in Proc, pending[q] # Rate!Idle PROVE Sound(pending[q])'
    <3>1. Sound(pending[q]) /\ pending[q].window \in Rate!Windows
      BY <1>0, <1>b, <2>4
    <3> QED BY <1>a, <2>1, <2>2, <3>1 DEF Sound
  <2> QED BY <1>0, <2>1, <2>3, <2>4 DEF Solo
<1>6. CASE UNCHANGED rateVars
  BY <1>0, <1>6 DEF rateVars, Solo, Covers, Sound, Rate!windowOf
<1> QED BY <1>1, <1>2, <1>3, <1>4, <1>5, <1>6 DEF Rate!Next

LEMMA LedgerHolds == Ledger => LimitHolds
BY DEF LimitHolds, Ledger, Covers, Rate!LimitHolds

(* As long as no two calls overlap, no window lets more calls through than   *)
(* the limit, whenever processes die and counters are pruned.                *)
THEOREM Limited == AllSpec => []LimitHolds
<1>1. AllSpec => []Ledger
  BY RateTyping, LedgerInit, LedgerStep, Steps, PTL DEF AllSpec, AllInit
<1> QED BY <1>1, LedgerHolds, PTL

-----------------------------------------------------------------------------
(* The credentials                                                           *)

-----------------------------------------------------------------------------
(* Rows and statements                                                       *)

VaultStatement == {Vault!Idle} \cup {Vault!Update(id) : id \in RowId} \cup {Vault!Insert(ref) : ref \in Ref}

LEMMA Statements ==
  ASSUME NEW s \in VaultStatement
  PROVE  /\ s.st = "idle" <=> s = Vault!Idle
         /\ s.st = "update" => s.id \in RowId /\ s = Vault!Update(s.id)
         /\ s.st = "insert" => s.ref \in Ref /\ s = Vault!Insert(s.ref)
BY DEF VaultStatement, Vault!Idle, Vault!Update, Vault!Insert

LEMMA KeysAreNumbers ==
  Vault!Absent \notin Vault!Key /\ Vault!Empty \notin Vault!Key /\ Vault!Absent # Vault!Empty
BY PlatformAssumption DEF Vault!SecretStoreAssumption, Vault!Absent, Vault!Key,
   Vault!Empty

LEMMA RowShape ==
  /\ \A row \in Vault!Row : row # Vault!NoRow /\ row.ref \in Ref /\ row.key \in Vault!Key
  /\ \A row \in Vault!Row, key \in Vault!Key : /\ [row EXCEPT !.key = key] \in Vault!Row
                                   /\ [row EXCEPT !.key = key].ref = row.ref
                                   /\ [row EXCEPT !.key = key].key = key
  /\ \A ref \in Ref, key \in Vault!Key : [ref |-> ref, key |-> key] \in Vault!Row
BY DEF Vault!Row, Vault!NoRow

-----------------------------------------------------------------------------
(* Types                                                                     *)

LEMMA VaultTypeInit == Vault!Init => Vault!TypeOK
BY PlatformAssumption DEF Vault!SecretStoreAssumption, Vault!Init, Vault!TypeOK,
   Vault!Absent

(* A server that is up seals with the key in the file; one that has opened   *)
(* the file is alone in that, and no row is sealed before a key is there.    *)
OneMasterKey ==
  /\ \A p \in Proc : server[p] = "up" => keyFile \in Vault!Key /\ active[p] = keyFile
  /\ \A p, q \in Proc : server[p] = "opened" /\ server[q] = "opened" => p = q
  /\ \A p \in Proc : server[p] = "opened" => keyFile = Vault!Empty /\ active[p] \in Vault!Key
  /\ \A p \in Proc : sealing[p] # Vault!Idle => server[p] = "up"
  /\ \A id \in RowId : secrets[id] # Vault!NoRow => keyFile \in Vault!Key /\ secrets[id].key = keyFile

OneRow ==
  \A id1,
    id2 \in RowId : secrets[id1] # Vault!NoRow /\ secrets[id1].ref = secrets[id2].ref => id1 = id2

LEMMA KeyInit == Vault!Init => OneMasterKey /\ OneRow
BY DEF Vault!Init, OneMasterKey, OneRow

(* What a second statement of a put does to the table.                       *)
LEMMA Sealed ==
  ASSUME Vault!TypeOK, OneMasterKey, OneRow, NEW p \in Proc, Vault!Seal(p)
  PROVE  /\ secrets' \in [RowId -> {Vault!NoRow} \cup Vault!Row]
         /\ \A id \in RowId : secrets'[id] # Vault!NoRow => keyFile \in Vault!Key /\ secrets'[id].key = keyFile
         /\ OneRow'
<1>1. sealing[p] \in VaultStatement /\ secrets \in [RowId -> {Vault!NoRow} \cup Vault!Row]
  BY DEF Vault!TypeOK, VaultStatement
<1>2. keyFile \in Vault!Key /\ active[p] = keyFile
  BY <1>1, Statements DEF Vault!Seal, OneMasterKey, Vault!Idle
<1>3. CASE sealing[p].st = "insert" /\ UNCHANGED secrets
  BY <1>1, <1>3 DEF OneMasterKey, OneRow
<1>4. CASE /\ sealing[p].st = "update"
           /\ secrets' = [secrets EXCEPT ![sealing[p].id] =
                            IF @ = Vault!NoRow THEN Vault!NoRow ELSE [@ EXCEPT !.key = active[p]]]
  <2> DEFINE id == sealing[p].id
  <2>1. id \in RowId
    BY <1>1, <1>4, Statements
  <2>2. CASE secrets[id] = Vault!NoRow
    <3>1. secrets' = secrets
      BY <1>1, <1>4, <2>1, <2>2
    <3> QED BY <1>1, <3>1 DEF OneMasterKey, OneRow
  <2>3. CASE secrets[id] # Vault!NoRow
    <3> DEFINE row == [secrets[id] EXCEPT !.key = keyFile]
    <3>1. row \in Vault!Row /\ row.ref = secrets[id].ref /\ row.key = keyFile
      BY <1>1, <1>2, <2>1, <2>3, RowShape
    <3>2. secrets' = [secrets EXCEPT ![id] = row]
      BY <1>2, <1>4, <2>1, <2>3
    <3> HIDE DEF row
    <3>3. /\ secrets' \in [RowId -> {Vault!NoRow} \cup Vault!Row]
          /\ \A i \in RowId : /\ secrets'[i].ref = secrets[i].ref
                              /\ secrets'[i] # Vault!NoRow => secrets[i] # Vault!NoRow
                              /\ secrets'[i] = secrets[i] \/ secrets'[i].key = keyFile
      BY <1>1, <2>1, <2>3, <3>1, <3>2
    <3> QED BY <1>2, <3>3 DEF OneMasterKey, OneRow
  <2> QED BY <2>2, <2>3
<1>5. ASSUME NEW id \in {i \in RowId : secrets[i] = Vault!NoRow},
             sealing[p].st = "insert",
             Vault!Rows(sealing[p].ref) = {},
             secrets' = [secrets EXCEPT ![id] = [ref |-> sealing[p].ref, key |-> active[p]]]
      PROVE  /\ secrets' \in [RowId -> {Vault!NoRow} \cup Vault!Row]
             /\ \A i \in RowId : secrets'[i] # Vault!NoRow => keyFile \in Vault!Key /\ secrets'[i].key = keyFile
             /\ OneRow'
  <2> DEFINE row == [ref |-> sealing[p].ref, key |-> keyFile]
  <2>1. row \in Vault!Row /\ row.ref = sealing[p].ref /\ row.key = keyFile /\ row # Vault!NoRow
    <3>1. sealing[p].ref \in Ref
      BY <1>1, <1>5, Statements
    <3> QED BY <1>2, <3>1, RowShape
  <2>2. secrets' = [secrets EXCEPT ![id] = row]
    BY <1>2, <1>5
  <2>3. \A i \in RowId : secrets[i].ref # row.ref
    BY <1>5, <2>1 DEF Vault!Rows
  <2> HIDE DEF row
  <2>4. /\ secrets' \in [RowId -> {Vault!NoRow} \cup Vault!Row]
        /\ \A i \in RowId : secrets'[i] = IF i = id THEN row ELSE secrets[i]
    BY <1>1, <2>1, <2>2
  <2> QED BY <1>2, <2>1, <2>3, <2>4 DEF OneMasterKey, OneRow
<1> QED BY <1>3, <1>4, <1>5 DEF Vault!Seal

LEMMA StoreStep ==
  ASSUME Vault!TypeOK, OneMasterKey, OneRow, [Vault!Next]_vaultVars
  PROVE  Vault!TypeOK' /\ OneMasterKey' /\ OneRow'
<1>0. /\ Vault!Absent \notin Vault!Key /\ Vault!Empty \notin Vault!Key /\ Vault!Absent # Vault!Empty
      /\ \A p \in Proc : sealing[p] \in VaultStatement
  BY KeysAreNumbers DEF Vault!TypeOK, VaultStatement
<1>1. ASSUME NEW p \in Proc, Vault!Look(p) PROVE Vault!TypeOK' /\ OneMasterKey' /\ OneRow'
  <2>1. \/ /\ server' = [server EXCEPT ![p] = "looked"] /\ UNCHANGED active
        \/ /\ keyFile \in Vault!Key /\ server' = [server EXCEPT ![p] = "up"]
           /\ active' = [active EXCEPT ![p] = keyFile]
    BY <1>1 DEF Vault!Look, Vault!TypeOK
  <2>2. UNCHANGED <<keyFile, generated, secrets, sealing>> /\ server[p] = "down"
    BY <1>1 DEF Vault!Look
  <2>3. Vault!TypeOK'
    BY <2>1, <2>2 DEF Vault!TypeOK
  <2>4. OneMasterKey'
    BY <2>1, <2>2 DEF Vault!TypeOK, OneMasterKey
  <2> QED BY <2>2, <2>3, <2>4 DEF OneRow
<1>2. ASSUME NEW p \in Proc, Vault!Open(p) PROVE Vault!TypeOK' /\ OneMasterKey' /\ OneRow'
  <2>1. UNCHANGED <<secrets, sealing>> /\ server[p] = "looked"
    BY <1>2 DEF Vault!Open
  <2>2. CASE ~Vault!MayCreate
    <3>1. server' = [server EXCEPT ![p] = "down"] /\ UNCHANGED <<keyFile, generated, active>>
      BY <1>2, <2>2 DEF Vault!Open
    <3> QED BY <2>1, <3>1 DEF Vault!TypeOK, OneMasterKey, OneRow
  <2>3. CASE Vault!MayCreate
    <3>1. /\ keyFile = Vault!Absent /\ keyFile' = Vault!Empty
          /\ server' = [server EXCEPT ![p] = "opened"]
          /\ active' = [active EXCEPT ![p] = generated + 1]
          /\ generated' = generated + 1 /\ generated < MaxKeys
      BY <1>2, <2>3 DEF Vault!Open, Vault!MayCreate
    <3>2. generated + 1 \in Vault!Key /\ generated + 1 \in 0..MaxKeys
      BY PlatformAssumption, <3>1 DEF Vault!TypeOK, Vault!Key,
         Vault!SecretStoreAssumption
    <3>3. Vault!TypeOK'
      BY <2>1, <3>1, <3>2 DEF Vault!TypeOK
    <3>4. OneMasterKey'
      BY <1>0, <2>1, <3>1, <3>2 DEF Vault!TypeOK, OneMasterKey
    <3> QED BY <2>1, <3>3, <3>4 DEF OneRow
  <2> QED BY <2>2, <2>3
<1>3. ASSUME NEW p \in Proc, Vault!WriteKey(p) PROVE Vault!TypeOK' /\ OneMasterKey' /\ OneRow'
  <2>1. /\ server[p] = "opened" /\ keyFile' = active[p]
        /\ server' = [server EXCEPT ![p] = "up"]
        /\ UNCHANGED <<generated, active, secrets, sealing>>
    BY <1>3 DEF Vault!WriteKey
  <2>2. keyFile = Vault!Empty /\ active[p] \in Vault!Key
    BY <2>1 DEF OneMasterKey
  <2>3. Vault!TypeOK'
    BY <2>1, <2>2 DEF Vault!TypeOK
  <2>4. OneMasterKey'
    BY <1>0, <2>1, <2>2 DEF Vault!TypeOK, OneMasterKey
  <2> QED BY <2>1, <2>3, <2>4 DEF OneRow
<1>4. ASSUME NEW p \in Proc, Vault!Crash(p) PROVE Vault!TypeOK' /\ OneMasterKey' /\ OneRow'
  BY <1>4 DEF Vault!Crash, Vault!TypeOK, OneMasterKey, OneRow
<1>5. ASSUME NEW p \in Proc, Vault!Seal(p) PROVE Vault!TypeOK' /\ OneMasterKey' /\ OneRow'
  <2>1. /\ sealing' = [sealing EXCEPT ![p] = Vault!Idle]
        /\ UNCHANGED <<keyFile, generated, server, active>>
    BY <1>5 DEF Vault!Seal
  <2>2. Vault!TypeOK'
    BY <1>5, <2>1, Sealed DEF Vault!TypeOK
  <2>3. \A q \in Proc : sealing'[q] # Vault!Idle => sealing[q] # Vault!Idle
    BY <2>1 DEF Vault!TypeOK
  <2> QED BY <1>5, <2>1, <2>2, <2>3, Sealed DEF OneMasterKey
<1>6. ASSUME NEW p \in Proc, NEW ref \in Ref, Vault!put(p, ref)
      PROVE  Vault!TypeOK' /\ OneMasterKey' /\ OneRow'
  <2>1. /\ server[p] = "up" /\ UNCHANGED <<keyFile, generated, server, active, secrets>>
        /\ \E s \in VaultStatement : sealing' = [sealing EXCEPT ![p] = s]
    BY <1>6 DEF Vault!put, VaultStatement, Vault!Rows
  <2>2. sealing' \in [Proc -> VaultStatement] /\ \A q \in Proc : q # p => sealing'[q] = sealing[q]
    BY <2>1 DEF Vault!TypeOK, VaultStatement
  <2> QED BY <2>1, <2>2 DEF Vault!TypeOK, OneMasterKey, OneRow, VaultStatement
<1>7. ASSUME NEW p \in Proc, NEW ref \in Ref, Vault!delete(p, ref)
      PROVE  Vault!TypeOK' /\ OneMasterKey' /\ OneRow'
  <2>1. /\ UNCHANGED <<keyFile, generated, server, active, sealing>>
        /\ \A id \in RowId : secrets'[id] = Vault!NoRow \/ secrets'[id] = secrets[id]
        /\ secrets' \in [RowId -> {Vault!NoRow} \cup Vault!Row]
    BY <1>7 DEF Vault!delete, Vault!TypeOK
  <2>2. OneRow'
    BY PlatformAssumption, <2>1, RowShape DEF OneRow, Vault!TypeOK, Vault!NoRow,
       Vault!SecretStoreAssumption
  <2> QED BY <2>1, <2>2 DEF Vault!TypeOK, OneMasterKey
<1>8. CASE UNCHANGED vaultVars
  BY <1>8 DEF vaultVars, Vault!TypeOK, OneMasterKey, OneRow
<1> QED BY <1>1, <1>2, <1>3, <1>4, <1>5, <1>6, <1>7, <1>8 DEF Vault!Next

(* Files, servers and rows keep their types, whatever starts, crashes and    *)
(* writes interleave.                                                        *)
THEOREM VaultTyping == AllSpec => []Vault!TypeOK
<1>1. Vault!Init => Vault!TypeOK /\ OneMasterKey /\ OneRow
  BY VaultTypeInit, KeyInit
<1>2. (Vault!TypeOK /\ OneMasterKey /\ OneRow) /\ [Vault!Next]_vaultVars => (Vault!TypeOK /\ OneMasterKey /\ OneRow)'
  BY StoreStep
<1> QED BY <1>1, <1>2, Steps, PTL DEF AllSpec, AllInit

LEMMA Revealed ==
  ASSUME Vault!TypeOK, OneMasterKey, OneRow PROVE Readable
<1>1. \A id \in RowId, ref \in Ref : secrets[id].ref = ref => secrets[id] # Vault!NoRow
  BY PlatformAssumption DEF Vault!NoRow, Vault!SecretStoreAssumption
<1> QED BY <1>1 DEF Readable, Vault!Readable, Vault!Rows, Vault!reveal, OneMasterKey, OneRow

(* However the starts, crashes and writes of the servers interleave, every   *)
(* server that runs can open every credential any of them has stored, and a  *)
(* ref names one credential.                                                 *)
THEOREM Opens == AllSpec => []Readable
<1>1. Vault!Init => Vault!TypeOK /\ OneMasterKey /\ OneRow
  BY VaultTypeInit, KeyInit
<1>2. (Vault!TypeOK /\ OneMasterKey /\ OneRow) /\ [Vault!Next]_vaultVars => (Vault!TypeOK /\ OneMasterKey /\ OneRow)'
  BY StoreStep
<1>3. Vault!TypeOK /\ OneMasterKey /\ OneRow => Readable
  BY Revealed
<1> QED BY <1>1, <1>2, <1>3, Steps, PTL DEF AllSpec, AllInit
-----------------------------------------------------------------------------
(* The repository                                                            *)

LEMMA RepoTypeInit == Repo!Init => Repo!TypeOK
<1>1. Repo!NoRow \in Repo!Row
  BY DEF Repo!NoRow, Repo!Row
<1>2. Repo!Idle \in Repo!Statement
  BY DEF Repo!Statement
<1>3. Repo!NoWalk \in Repo!Walk
  BY DEF Repo!NoWalk, Repo!Walk
<1> QED BY <1>1, <1>2, <1>3 DEF Repo!Init, Repo!TypeOK

LEMMA WrittenIsARow ==
  ASSUME NEW s, NEW row \in Repo!Row PROVE Repo!Written(s, row) \in Repo!Row
<1>1. PICK st \in {"absent", "live", "deleted", "purged"} :
        Repo!Written(s, row) = [row EXCEPT !.version = @ + 1, !.st = st]
  BY DEF Repo!Written, Repo!Row
<1>2. row.version + 1 \in Nat
  BY DEF Repo!Row
<1> QED BY <1>1, <1>2 DEF Repo!Row

LEMMA RepoTypeStep == Repo!TypeOK /\ [Repo!Next]_repoVars => Repo!TypeOK'
<1> SUFFICES ASSUME Repo!TypeOK, [Repo!Next]_repoVars PROVE Repo!TypeOK'
  OBVIOUS
<1>1. ASSUME NEW i \in Id, NEW at \in Stamp, Repo!insert(i, at) PROVE Repo!TypeOK'
  <2>1. [st |-> "live", at |-> at, version |-> 1] \in Repo!Row
    BY DEF Repo!Row
  <2> QED BY <1>1, <2>1 DEF Repo!insert, Repo!TypeOK
<1>2. ASSUME NEW p \in Proc, NEW i \in Id, NEW expected,
             NEW op \in {"update", "softDelete", "restore"}, Repo!Begin(p, op, i, expected)
      PROVE  Repo!TypeOK'
  <2>1. [op |-> op, id |-> i] \in Repo!Statement
    BY DEF Repo!Statement
  <2> QED BY <1>2, <2>1 DEF Repo!Begin, Repo!TypeOK
<1>3. ASSUME NEW p \in Proc, Repo!Execute(p) PROVE Repo!TypeOK'
  <2>1. rows' \in [Id -> Repo!Row]
    BY <1>3, WrittenIsARow DEF Repo!Execute, Repo!TypeOK
  <2>2. stmt' \in [Proc -> Repo!Statement]
    BY <1>3 DEF Repo!Execute, Repo!TypeOK, Repo!Statement
  <2> QED BY <1>3, <2>1, <2>2 DEF Repo!Execute, Repo!TypeOK
<1>4. ASSUME NEW i \in Id, Repo!hardDelete(i) PROVE Repo!TypeOK'
  <2>1. [rows[i] EXCEPT !.st = "purged"] \in Repo!Row
    BY DEF Repo!TypeOK, Repo!Row
  <2> QED BY <1>4, <2>1 DEF Repo!hardDelete, Repo!TypeOK
<1>5. CASE Repo!NextPage
  <2>1. PICK ids, page : /\ page \subseteq ids /\ ids \subseteq Id
                         /\ \E next \in {Repo!NoCursor} :
                              walk' = [given |-> walk.given \cup page,
                                       twice |-> walk.twice \/ walk.given \cap page # {},
                                       done |-> page = ids, cursor |-> next]
    <3> DEFINE ids == Repo!Behind(walk.cursor)
               page == Repo!PageOf(ids)
    <3>1. page \subseteq ids /\ ids \subseteq Id
      BY DEF Repo!PageOf, Repo!Behind, Repo!Scope
    <3> QED BY <1>5, <3>1 DEF Repo!NextPage, Repo!cursorOf
  <2>2. walk' \in Repo!Walk
    BY <2>1 DEF Repo!TypeOK, Repo!Walk
  <2> QED BY <1>5, <2>2 DEF Repo!NextPage, Repo!TypeOK
<1>6. CASE UNCHANGED repoVars
  BY <1>6 DEF repoVars, Repo!TypeOK
<1> QED BY <1>1, <1>2, <1>3, <1>4, <1>5, <1>6 DEF Repo!Next

(* Rows, statements and walks keep their types, whatever calls of the        *)
(* processes overlap.                                                        *)
THEOREM RepoTyping == AllSpec => []Repo!TypeOK
BY RepoTypeInit, RepoTypeStep, Steps, PTL DEF AllSpec, AllInit

(* What may become of a row that is soft-deleted.                            *)
Untouched ==
  \A i \in Id : rows[i].st = "deleted" /\ rows'[i] # rows[i] =>
    \/ rows'[i].st = "purged"
    \/ \E p \in Proc : stmt[p] = [op |-> "restore", id |-> i] /\ stmt'[p] = Repo!Idle

LEMMA UntouchedStep == Repo!TypeOK /\ [Repo!Next]_repoVars => Untouched
<1> SUFFICES ASSUME Repo!TypeOK, [Repo!Next]_repoVars, NEW i \in Id,
                    rows[i].st = "deleted", rows'[i] # rows[i]
             PROVE  \/ rows'[i].st = "purged"
                    \/ \E p \in Proc : /\ stmt[p] = [op |-> "restore", id |-> i]
                                       /\ stmt'[p] = Repo!Idle
  BY DEF Untouched
<1>1. ASSUME NEW j \in Id, NEW at \in Stamp, Repo!insert(j, at) PROVE FALSE
  BY <1>1 DEF Repo!insert, Repo!TypeOK, Repo!NoRow
<1>2. ASSUME NEW p \in Proc, NEW j \in Id, NEW expected, NEW op, Repo!Begin(p, op, j, expected)
      PROVE  FALSE
  BY <1>2 DEF Repo!Begin
<1>3. ASSUME NEW p \in Proc, Repo!Execute(p)
      PROVE  stmt[p] = [op |-> "restore", id |-> i] /\ stmt'[p] = Repo!Idle
  <2>1. stmt[p] \in [op: {"update", "softDelete", "restore"}, id: Id] /\ stmt'[p] = Repo!Idle
    BY <1>3 DEF Repo!Execute, Repo!TypeOK, Repo!Statement
  <2>2. i \in Repo!Matched(stmt[p])
    BY <1>3 DEF Repo!Execute
  <2>3. stmt[p].id = i /\ stmt[p].op = "restore"
    BY <2>2 DEF Repo!Matched, Repo!Scope
  <2> QED BY <2>1, <2>3
<1>4. ASSUME NEW j \in Id, Repo!hardDelete(j) PROVE rows'[i].st = "purged"
  <2>1. rows'[i].st = "purged" \/ rows'[i] = rows[i]
    BY <1>4 DEF Repo!hardDelete, Repo!TypeOK, Repo!Row
  <2> QED BY <2>1
<1>5. ~Repo!NextPage /\ ~UNCHANGED repoVars
  BY DEF Repo!NextPage, repoVars
<1> QED BY <1>1, <1>2, <1>3, <1>4, <1>5 DEF Repo!Next

(* A soft-deleted row is out of reach of every statement but those of        *)
(* restore() and hardDelete(), however long ago the statement was begun.     *)
THEOREM OutOfReach == AllSpec => DeletedIsUntouched
<1>1. Repo!TypeOK /\ [AllNext]_allVars =>
        [\A i \in Id : rows[i].st = "deleted" /\ rows'[i] # rows[i] =>
           \/ rows'[i].st = "purged"
           \/ \E p \in Proc : stmt[p] = [op |-> "restore", id |-> i]
                              /\ stmt'[p] = Repo!Idle]_(Repo!vars)
  BY UntouchedStep, Steps DEF Untouched
<1> QED BY <1>1, RepoTyping, PTL DEF AllSpec, DeletedIsUntouched, Repo!DeletedIsUntouched

-----------------------------------------------------------------------------
(* The reply policy                                                          *)

LEMMA Severities ==
  ASSUME NEW text
  PROVE  /\ Replies!Severity([verdict |-> "allow", text |-> text]) = 1
         /\ Replies!Severity([verdict |-> "repair", text |-> text]) = 2
         /\ Replies!Severity([verdict |-> "retry", text |-> text]) = 3
         /\ Replies!Severity([verdict |-> "block", text |-> text]) = 4
<1>1. /\ DOMAIN Replies!SEVERITY_ORDER = 1..4
      /\ Replies!SEVERITY_ORDER[1] = "allow" /\ Replies!SEVERITY_ORDER[2] = "repair"
      /\ Replies!SEVERITY_ORDER[3] = "retry" /\ Replies!SEVERITY_ORDER[4] = "block"
  BY DEF Replies!SEVERITY_ORDER
<1>2. ASSUME NEW v, NEW n \in 1..4, Replies!SEVERITY_ORDER[n] = v
      PROVE  (CHOOSE i \in 1..4 : Replies!SEVERITY_ORDER[i] = v) = n
  <2>1. \A i \in 1..4 : i = 1 \/ i = 2 \/ i = 3 \/ i = 4
    OBVIOUS
  <2>2. \A i \in 1..4 : Replies!SEVERITY_ORDER[i] = v => i = n
    BY <1>1, <1>2, <2>1
  <2> QED BY <1>2, <2>2
<1> QED BY <1>1, <1>2 DEF Replies!Severity

(* The policy counts as everybody does.                                      *)
LEMMA ReplyCounts ==
  ASSUME NEW S
  PROVE  Replies!Cardinality(S) = Cardinality(S)
BY DEF Replies!IsFiniteSet, IsFiniteSet, Replies!Cardinality, Cardinality

(* What SentIsHonest says of a repaired text.                                *)
RepairedWell(text) ==
  LET statement == rules.disclosureStatement
  IN /\ asked /\ rules.mustDisclose /\ "admits" \in statement => Replies!Matches(text, "admits")
     /\ \A pattern \in {"claims", "forbidden"} :
          Replies!Matches(text, pattern) => pattern \in statement /\ statement \in text
     /\ ~Replies!Undermined(text \ {statement})
     /\ rules.maxLength # 0 => Cardinality(text) <= rules.maxLength + 1

(* The sentences there are, and so a text, are finitely many.                *)
LEMMA TextIsFinite ==
  ASSUME NEW text \in Replies!Text
  PROVE  IsFiniteSet(text)
<1>1. IsFiniteSet(Replies!Pattern)
  <2>1. Replies!Pattern = ((({"admits"} \cup {"undermines"}) \cup {"claims"}) \cup {"forbidden"})
                            \cup {"required"}
    BY DEF Replies!Pattern
  <2>2. /\ IsFiniteSet({"admits"}) /\ IsFiniteSet({"undermines"}) /\ IsFiniteSet({"claims"})
        /\ IsFiniteSet({"forbidden"}) /\ IsFiniteSet({"required"})
    BY FS_Singleton
  <2>3. IsFiniteSet({"admits"} \cup {"undermines"})
    BY <2>2, FS_Union
  <2>4. IsFiniteSet(({"admits"} \cup {"undermines"}) \cup {"claims"})
    BY <2>2, <2>3, FS_Union
  <2>5. IsFiniteSet((({"admits"} \cup {"undermines"}) \cup {"claims"}) \cup {"forbidden"})
    BY <2>2, <2>4, FS_Union
  <2>6. IsFiniteSet(((({"admits"} \cup {"undermines"}) \cup {"claims"}) \cup {"forbidden"})
                      \cup {"required"})
    BY <2>2, <2>5, FS_Union
  <2> QED BY <2>1, <2>6
<1>2. IsFiniteSet(SUBSET Replies!Pattern)
  BY <1>1, FS_SUBSET
<1>3. text \subseteq SUBSET Replies!Pattern
  BY DEF Replies!Text, Replies!Sentence
<1> QED BY <1>2, <1>3, FS_Subset

(* Stripping and prepending leave no sentence but the reply's own and the    *)
(* statement.                                                                *)
LEMMA Repaired ==
  ASSUME Replies!TypeOK, Replies!PolicyAssumption,
         NEW reply \in Replies!Text, Replies!Contents(reply) = {}
  PROVE  LET text == Replies!repairDisclosure(reply, Replies!Findings(reply))
         IN text \in Replies!Text /\ RepairedWell(text)
<1> DEFINE findings == Replies!Findings(reply)
           statement == rules.disclosureStatement
           firm == IF "undermined_admission" \in findings
                   THEN Replies!stripSentencesMatching(reply, "undermines") ELSE reply
           kept == IF "humanity_claim" \in findings
                   THEN Replies!stripSentencesMatching(firm, "claims") ELSE firm
           text == IF Replies!Matches(kept, "admits") THEN kept ELSE {statement} \cup kept
<1>1. text = Replies!repairDisclosure(reply, Replies!Findings(reply))
  BY DEF Replies!repairDisclosure
<1>2. firm \subseteq reply /\ kept \subseteq firm
  BY DEF Replies!stripSentencesMatching
<1>3. ~Replies!Matches(kept, "claims")
  <2>1. CASE "humanity_claim" \in findings
    BY <2>1 DEF Replies!stripSentencesMatching, Replies!Matches
  <2>2. CASE "humanity_claim" \notin findings
    <3>1. ~Replies!Matches(reply, "claims")
      BY <2>2 DEF Replies!Findings
    <3> QED BY <1>2, <3>1 DEF Replies!Matches
  <2> QED BY <2>1, <2>2
<1>4. ~Replies!Matches(kept, "forbidden")
  <2>1. ~Replies!Matches(reply, "forbidden")
    BY DEF Replies!Contents
  <2> QED BY <1>2, <2>1 DEF Replies!Matches
<1>5. ASSUME NEW part_ \in SUBSET kept PROVE ~Replies!Undermined(part_)
  <2>1. CASE "undermined_admission" \in findings
    <3>1. ~Replies!Matches(firm, "undermines")
      BY <2>1 DEF Replies!stripSentencesMatching, Replies!Matches
    <3>2. ~Replies!Matches(part_, "undermines")
      BY <1>2, <3>1 DEF Replies!Matches
    <3> QED BY <3>2 DEF Replies!Undermined
  <2>2. CASE "undermined_admission" \notin findings
    <3>1. ~Replies!Undermined(reply)
      BY <2>2 DEF Replies!Findings
    <3> QED BY <1>2, <3>1 DEF Replies!Undermined, Replies!Matches
  <2> QED BY <2>1, <2>2
<1>6. rules.maxLength # 0 => Cardinality(kept) <= rules.maxLength /\ Cardinality(kept) \in Nat
  <2>1. IsFiniteSet(reply) /\ kept \subseteq reply
    BY <1>2, TextIsFinite
  <2>2. Cardinality(kept) <= Cardinality(reply) /\ IsFiniteSet(kept)
    BY <2>1, FS_Subset
  <2>3. Cardinality(kept) \in Nat /\ Cardinality(reply) \in Nat
    BY <2>1, <2>2, FS_CardinalityType
  <2>4. rules.maxLength # 0 => ~(Cardinality(reply) > rules.maxLength)
    <3>1. Replies!Cardinality(reply) = Cardinality(reply)
      BY ReplyCounts
    <3> QED BY <3>1 DEF Replies!Contents
  <2>5. rules.maxLength \in Nat
    BY DEF Replies!TypeOK, Replies!Rules, Replies!PolicyAssumption
  <2> QED BY <2>2, <2>3, <2>4, <2>5
<1>7. IsFiniteSet(kept)
  BY <1>2, TextIsFinite, FS_Subset
<1>8. statement \in Replies!Sentence /\ rules.maxLength \in Nat
  BY DEF Replies!TypeOK, Replies!Rules, Replies!PolicyAssumption
<1>9. kept \subseteq Replies!Sentence
  BY <1>2 DEF Replies!Text
<1> HIDE DEF kept, statement
<1>10. text \in Replies!Text
  BY <1>8, <1>9 DEF Replies!Text
<1>11. "admits" \in statement => Replies!Matches(text, "admits")
  BY DEF Replies!Matches
<1>12. ASSUME NEW pattern \in {"claims", "forbidden"}, Replies!Matches(text, pattern)
       PROVE  pattern \in statement /\ statement \in text
  <2>1. ~Replies!Matches(kept, pattern)
    BY <1>3, <1>4
  <2> QED BY <1>12, <2>1 DEF Replies!Matches
<1>13. ~Replies!Undermined(text \ {statement})
  <2>1. text \ {statement} \in SUBSET kept
    OBVIOUS
  <2> HIDE DEF text
  <2> QED BY <1>5, <2>1
<1>14. rules.maxLength # 0 => Cardinality(text) <= rules.maxLength + 1
  <2>1. CASE Replies!Matches(kept, "admits")
    BY <1>6, <1>8, <2>1
  <2>2. CASE ~Replies!Matches(kept, "admits")
    <3>1. text = kept \cup {statement}
      BY <2>2
    <3>2. Cardinality(text) = Cardinality(kept) \/ Cardinality(text) = Cardinality(kept) + 1
      BY <1>7, <3>1, FS_AddElement
    <3> QED BY <1>6, <1>8, <3>2
  <2> QED BY <2>1, <2>2
<1> HIDE DEF text
<1> QED BY <1>1, <1>10, <1>11, <1>12, <1>13, <1>14 DEF RepairedWell, statement

LEMMA Sends ==
  ASSUME Replies!TypeOK, Replies!PolicyAssumption, NEW reply \in Replies!Reply,
         Replies!Guard(reply)
  PROVE  /\ pass' \in {"retry", "sent", "repaired", "blocked"}
         /\ sent' \in Replies!Text
         /\ pass' = "sent" => Replies!Findings(sent') = {} /\ Replies!Contents(sent') = {}
         /\ pass' = "repaired" => RepairedWell(sent')
<1> DEFINE a == Replies!enforceDisclosure(reply, pass = "retry")
           b == Replies!enforceContentPolicy(reply)
           result == Replies!combinePolicies(a, b)
<1>1. /\ pass' = CASE result.verdict = "retry" -> "retry"
                   [] result.verdict = "block" -> "blocked"
                   [] result.verdict = "repair" -> "repaired"
                   [] OTHER -> "sent"
      /\ sent' = IF pass' \in {"sent", "repaired"} THEN result.text ELSE sent
  BY DEF Replies!Guard
<1>2. reply \in Replies!Text /\ sent \in Replies!Text
  <2>1. PICK line \in UNION {[1..n -> Replies!Sentence] : n \in 0..MaxSentences} :
          reply = {line[i] : i \in DOMAIN line}
    BY DEF Replies!Reply
  <2>2. PICK n \in 0..MaxSentences : line \in [1..n -> Replies!Sentence]
    BY <2>1
  <2>3. reply \subseteq Replies!Sentence
    BY <2>1, <2>2
  <2> QED BY <2>3 DEF Replies!Text, Replies!TypeOK
<1>3. CASE Replies!Contents(reply) # {}
  <2>1. b = [verdict |-> "block", text |-> reply]
    BY <1>3 DEF Replies!enforceContentPolicy
  <2>2. \/ a = [verdict |-> "allow", text |-> a.text]
        \/ a = [verdict |-> "retry", text |-> a.text]
        \/ a = [verdict |-> "repair", text |-> a.text]
    BY DEF Replies!enforceDisclosure
  <2> HIDE DEF a, b
  <2>3. Replies!Severity(b) = 4 /\ Replies!Severity(a) \in 1..3
    <3>1. Replies!Severity(b) = 4
      BY <2>1, Severities
    <3>2. Replies!Severity(a) \in {1, 2, 3}
      BY <2>2, Severities
    <3> QED BY <3>1, <3>2
  <2>4. result = b
    BY <2>3 DEF Replies!combinePolicies
  <2> QED BY <1>1, <1>2, <2>1, <2>4
<1>4. CASE Replies!Contents(reply) = {}
  <2>1. b = [verdict |-> "allow", text |-> reply]
    BY <1>4 DEF Replies!enforceContentPolicy
  <2>s. Replies!Severity(b) = 1
    BY <2>1, Severities
  <2>2. CASE Replies!Findings(reply) = {}
    <3>1. a = [verdict |-> "allow", text |-> reply]
      BY <2>2 DEF Replies!enforceDisclosure
    <3>2. result = a
      BY <2>1, <3>1 DEF Replies!combinePolicies
    <3>3. pass' = "sent" /\ sent' = reply
      BY <1>1, <3>1, <3>2
    <3> QED BY <1>2, <1>4, <2>2, <3>3
  <2>3. CASE Replies!Findings(reply) # {} /\ pass # "retry"
    <3>1. a = [verdict |-> "retry", text |-> reply]
      BY <2>3 DEF Replies!enforceDisclosure
    <3>s. Replies!Severity(a) = 3
      BY <3>1, Severities
    <3>2. result = a
      BY <2>s, <3>s DEF Replies!combinePolicies
    <3> QED BY <1>1, <1>2, <3>1, <3>2
  <2>4. CASE Replies!Findings(reply) # {} /\ pass = "retry"
    <3> DEFINE text == Replies!repairDisclosure(reply, Replies!Findings(reply))
    <3>1. a = [verdict |-> "repair", text |-> text]
      BY <2>4 DEF Replies!enforceDisclosure
    <3>s. Replies!Severity(a) = 2
      BY <3>1, Severities
    <3>2. text \in Replies!Text /\ RepairedWell(text)
      BY <1>2, <1>4, Repaired
    <3>3. result = a
      BY <2>s, <3>s DEF Replies!combinePolicies
    <3> HIDE DEF text
    <3> QED BY <1>1, <1>2, <3>1, <3>2, <3>3
  <2> QED BY <2>2, <2>3, <2>4
<1> QED BY <1>3, <1>4

LEMMA ReplyInit == Replies!Init => Replies!TypeOK /\ SentIsHonest
BY DEF Replies!Init, Replies!TypeOK, Replies!Text, SentIsHonest, Replies!SentIsHonest

LEMMA ReplyStep ==
  Replies!TypeOK /\ SentIsHonest /\ [Replies!Next]_replyVars => Replies!TypeOK' /\ SentIsHonest'
<1> SUFFICES ASSUME Replies!TypeOK, SentIsHonest, [Replies!Next]_replyVars
             PROVE  Replies!TypeOK' /\ SentIsHonest'
  OBVIOUS
<1>1. ASSUME NEW reply \in Replies!Reply, Replies!Guard(reply)
      PROVE  Replies!TypeOK' /\ SentIsHonest'
  <2>1. asked' = asked /\ rules' = rules
    BY <1>1 DEF Replies!Guard
  <2>2. /\ pass' \in {"retry", "sent", "repaired", "blocked"}
        /\ sent' \in Replies!Text
        /\ pass' = "sent" => Replies!Findings(sent') = {} /\ Replies!Contents(sent') = {}
        /\ pass' = "repaired" => RepairedWell(sent')
    BY <1>1, Sends, PlatformAssumption
  <2>3. Replies!TypeOK'
    BY <2>1, <2>2 DEF Replies!TypeOK
  <2>4. pass' = "sent" => Replies!Findings(sent)' = {} /\ Replies!Contents(sent)' = {}
    BY <2>1, <2>2 DEF Replies!Findings, Replies!Contents, Replies!Undermined, Replies!Matches
  <2>5. ASSUME pass' = "repaired"
        PROVE  LET statement == rules'.disclosureStatement
               IN /\ asked' /\ rules'.mustDisclose /\ "admits" \in statement
                       => Replies!Matches(sent', "admits")
                  /\ \A pattern \in {"claims", "forbidden"} :
                       Replies!Matches(sent', pattern)
                         => pattern \in statement /\ statement \in sent'
                  /\ ~Replies!Undermined(sent \ {rules.disclosureStatement})'
                  /\ rules'.maxLength # 0 => Replies!Cardinality(sent') <= rules'.maxLength + 1
    <3>1. RepairedWell(sent') /\ Replies!Cardinality(sent') = Cardinality(sent')
      BY <2>2, <2>5, ReplyCounts
    <3>2. ~Replies!Undermined(sent \ {rules.disclosureStatement})'
      BY <2>1, <3>1 DEF RepairedWell, Replies!Undermined, Replies!Matches
    <3> QED BY <2>1, <3>1, <3>2 DEF RepairedWell
  <2>6. Replies!SentIsHonest'
    BY <2>4, <2>5 DEF Replies!SentIsHonest, Replies!Matches
  <2> QED BY <2>3, <2>6 DEF SentIsHonest
<1>2. CASE UNCHANGED replyVars
  BY <1>2 DEF replyVars, Replies!TypeOK, SentIsHonest, Replies!SentIsHonest, Replies!Matches,
              Replies!Findings, Replies!Contents, Replies!Undermined
<1> QED BY <1>1, <1>2 DEF Replies!Next

(* What goes out is made of sentences of the model and the statement.        *)
THEOREM ReplyTyping == AllSpec => []Replies!TypeOK
BY ReplyInit, ReplyStep, Steps, PTL DEF AllSpec, AllInit

(* Whatever the model answers, and answers again when it is asked a second   *)
(* time, whatever the statement and the rules are: what goes out unrepaired  *)
(* has nothing against it, and what goes out repaired is at fault only where *)
(* the statement is, by the statement's length, by the statement's admission *)
(* being walked back, or for want of a required phrase.                      *)
THEOREM Told == AllSpec => []SentIsHonest
BY ReplyInit, ReplyStep, Steps, PTL DEF AllSpec, AllInit
-----------------------------------------------------------------------------
(* The provider router                                                       *)

LEMMA RouterTypeInit == Router!Init => Router!TypeOK
<1>1. <<>> \in Seq(Provider)
  OBVIOUS
<1>2. Router!NoCall \in Router!Call
  BY <1>1 DEF Router!NoCall, Router!Call
<1>3. [enabled |-> TRUE, health |-> "unknown", capable |-> "unprobed", resolvable |-> TRUE]
        \in Router!Row
  BY DEF Router!Row, Router!HealthState
<1> QED BY <1>2, <1>3 DEF Router!Init, Router!TypeOK

(* The router counts as everybody does.                                      *)
LEMMA RouterCounts ==
  ASSUME NEW S
  PROVE  /\ Router!IsFiniteSet(S) <=> IsFiniteSet(S)
         /\ Router!Cardinality(S) = Cardinality(S)
BY DEF Router!IsFiniteSet, IsFiniteSet, Router!Cardinality, Cardinality

(* The candidates are a sequence of providers.                               *)
LEMMA Candidates ==
  ASSUME NEW allowed \in SUBSET Provider, NEW s \in Router!candidates(allowed)
  PROVE  s \in Seq(Provider)
<1> DEFINE S == Router!Filtered(allowed)
<1>1. S \subseteq Provider
  BY DEF Router!Filtered
<1>2. Cardinality(S) \in Nat
  <2>1. IsFiniteSet(Provider)
    BY PlatformAssumption, RouterCounts DEF Router!RouterAssumption
  <2> QED BY <1>1, <2>1, FS_Subset, FS_CardinalityType
<1>3. s \in [1..Cardinality(S) -> S]
  BY RouterCounts DEF Router!candidates, Router!SetToSeqs
<1> HIDE DEF S
<1>4. s \in [1..Cardinality(S) -> Provider]
  BY <1>1, <1>3
<1> QED BY <1>2, <1>4, IsASeq

LEMMA MarkedIsARow ==
  ASSUME NEW row \in Router!Row, NEW outcome PROVE Router!Marked(row, outcome) \in Router!Row
<1>1. \/ Router!Marked(row, outcome) = row
      \/ \E health \in {"auth_error", "rate_limited", "unavailable"} :
           Router!Marked(row, outcome) = [row EXCEPT !.health = health]
  BY DEF Router!Marked
<1> QED BY <1>1 DEF Router!Row, Router!HealthState

(* To move the first of t to the end of s leaves the two together as before. *)
LEMMA Moved ==
  ASSUME NEW S, NEW s \in Seq(S), NEW t \in Seq(S), t # <<>>
  PROVE  Append(s, Head(t)) \o Tail(t) = s \o t
<1>1. PICK u : u = <<Head(t)>>
  OBVIOUS
<1>2. Head(t) \in S /\ Tail(t) \in Seq(S) /\ t = u \o Tail(t)
  BY <1>1, HeadTailProperties
<1>3. u \in Seq(S) /\ Append(s, Head(t)) = s \o u
  BY <1>1, <1>2, AppendIsConcat
<1>4. (s \o u) \o Tail(t) = s \o (u \o Tail(t))
  BY <1>2, <1>3, ConcatAssociative
<1> QED BY <1>2, <1>3, <1>4

(* A call that runs has a candidate left; when one has been asked, it is the *)
(* first of those that were left.                                            *)
Asks == call.st = "running" => call.left # <<>>

Fails(outcome, p, rest, tried, st) ==
  /\ tried \o rest = call.tried \o call.left
  /\ providers' = [providers EXCEPT ![p] = Router!Marked(@, outcome)]
  /\ call' = [st |-> st, idempotent |-> call.idempotent, left |-> rest, tried |-> tried,
              usable |-> call.usable,
              accepted |-> IF Router!MayHaveAccepted(outcome)
                           THEN call.accepted \cup {p} ELSE call.accepted]
  /\ st = "running" => rest # <<>> /\ call.idempotent

LEMMA Attempt ==
  ASSUME Router!TypeOK, Asks, NEW outcome, Router!AttemptEnds(outcome)
  PROVE  \E p \in Provider, rest \in Seq(Provider), tried \in Seq(Provider),
            st \in {"ok", "rejected", "exhausted", "running"} :
           Fails(outcome, p, rest, tried, st)
<1> DEFINE p == Head(call.left)
           rest == Tail(call.left)
           tried == Append(call.tried, p)
           st == IF outcome = "ok" THEN "ok"
                 ELSE IF Router!Stops(outcome) THEN "rejected"
                 ELSE IF rest = <<>> THEN "exhausted" ELSE "running"
<1>1. call.left \in Seq(Provider) /\ call.tried \in Seq(Provider) /\ call.left # <<>>
  BY DEF Router!TypeOK, Router!Call, Asks, Router!AttemptEnds
<1>2. /\ p \in Provider /\ rest \in Seq(Provider) /\ tried \in Seq(Provider)
      /\ call.left = <<p>> \o rest
  BY <1>1, HeadTailProperties, AppendProperties
<1>3. tried \o rest = call.tried \o call.left
  BY <1>1, Moved
<1>4. providers' = [providers EXCEPT ![p] = Router!Marked(@, outcome)]
  BY DEF Router!AttemptEnds
<1>5. call' = [st |-> st, idempotent |-> call.idempotent, left |-> rest,
               tried |-> tried, usable |-> call.usable,
               accepted |-> IF Router!MayHaveAccepted(outcome)
                            THEN call.accepted \cup {p} ELSE call.accepted]
  BY DEF Router!AttemptEnds, Router!TypeOK, Router!Call
<1>6. st \in {"ok", "rejected", "exhausted", "running"}
  OBVIOUS
<1>7. st = "running" => rest # <<>> /\ call.idempotent
  BY DEF Router!Stops, Router!TypeOK, Router!Call
<1> HIDE DEF p, rest, tried, st
<1> QED BY <1>2, <1>3, <1>4, <1>5, <1>6, <1>7 DEF Fails

(* What withFailover() begins with.                                          *)
LEMMA Begins ==
  ASSUME NEW allowed \in SUBSET Provider, NEW idempotent \in BOOLEAN,
         Router!withFailover(allowed, idempotent)
  PROVE  \E s \in Router!candidates(allowed), st \in {"no_provider", "running", "unresolved"} :
           /\ call' = [st |-> st, idempotent |-> idempotent, left |-> s, tried |-> <<>>,
                       usable |-> Router!Usable, accepted |-> {}]
           /\ st = "running" => s # <<>>
           /\ s \in Seq(Provider)
BY Candidates DEF Router!withFailover

RouterInv == Asks /\ (~call.idempotent /\ call.st = "running" => call.accepted = {})

LEMMA RouterTypeStep ==
  Router!TypeOK /\ RouterInv /\ [Router!Next]_routerVars => Router!TypeOK' /\ RouterInv'
<1> SUFFICES ASSUME Router!TypeOK, RouterInv, [Router!Next]_routerVars
             PROVE  Router!TypeOK' /\ RouterInv'
  OBVIOUS
<1>1. ASSUME NEW allowed \in SUBSET Provider, NEW idempotent \in BOOLEAN,
             Router!withFailover(allowed, idempotent)
      PROVE  Router!TypeOK' /\ RouterInv'
  <2>1. PICK s \in Router!candidates(allowed), st \in {"no_provider", "running", "unresolved"} :
           /\ call' = [st |-> st, idempotent |-> idempotent, left |-> s, tried |-> <<>>,
                       usable |-> Router!Usable, accepted |-> {}]
           /\ st = "running" => s # <<>>
           /\ s \in Seq(Provider)
    BY <1>1, Begins
  <2>2. UNCHANGED <<providers, changes>>
    BY <1>1 DEF Router!withFailover
  <2>3. call' \in Router!Call
    BY <2>1 DEF Router!Call, Router!Usable
  <2>4. RouterInv'
    BY <2>1 DEF RouterInv, Asks
  <2> QED BY <2>2, <2>3, <2>4 DEF Router!TypeOK
<1>2. ASSUME NEW outcome \in Router!Outcome, Router!AttemptEnds(outcome)
      PROVE  Router!TypeOK' /\ RouterInv'
  <2>1. PICK p \in Provider, rest \in Seq(Provider), tried \in Seq(Provider),
             st \in {"ok", "rejected", "exhausted", "running"} :
          Fails(outcome, p, rest, tried, st)
    BY <1>2, Attempt DEF RouterInv
  <2>2. call' \in Router!Call
    BY <2>1 DEF Fails, Router!Call, Router!TypeOK
  <2>3. providers' \in [Provider -> Router!Row]
    BY <2>1, MarkedIsARow DEF Fails, Router!TypeOK
  <2>4. RouterInv'
    BY <2>1 DEF Fails, RouterInv, Asks
  <2> QED BY <1>2, <2>2, <2>3, <2>4 DEF Router!TypeOK, Router!AttemptEnds
<1>3. ASSUME NEW p \in Provider, NEW row \in Router!Row, Router!Change(p, row)
      PROVE  Router!TypeOK' /\ RouterInv'
  BY <1>3 DEF Router!Change, Router!TypeOK, RouterInv, Asks
<1>4. CASE UNCHANGED routerVars
  BY <1>4 DEF routerVars, Router!TypeOK, RouterInv, Asks
<1> QED BY <1>1, <1>2, <1>3, <1>4 DEF Router!Next

(* The table of the providers and the call keep their types.                 *)
THEOREM RouterTyping == AllSpec => []Router!TypeOK
<1>1. Router!Init => RouterInv
  BY DEF Router!Init, RouterInv, Asks, Router!NoCall
<1> QED BY <1>1, RouterTypeInit, RouterTypeStep, Steps, PTL DEF AllSpec, AllInit

(* The order in which candidates are asked.                                  *)
InOrder(asks, usable) ==
  \A i, j \in DOMAIN asks : i < j =>
    /\ asks[j] \in usable => asks[i] \in usable
    /\ (asks[i] \in usable <=> asks[j] \in usable) => Priority[asks[i]] <= Priority[asks[j]]

LEMMA FailoverStep ==
  Router!TypeOK /\ RouterInv /\ FailoverIsSafe /\ [Router!Next]_routerVars => FailoverIsSafe'
<1> SUFFICES ASSUME Router!TypeOK, RouterInv, FailoverIsSafe, [Router!Next]_routerVars
             PROVE  FailoverIsSafe'
  OBVIOUS
<1>0. FailoverIsSafe <=> Router!NoSecondBill /\ InOrder(call.tried \o call.left, call.usable)
  BY DEF FailoverIsSafe, Router!FailoverIsSafe, Router!UsableFirst, InOrder
<1>p. FailoverIsSafe' <=>
        Router!NoSecondBill' /\ InOrder(call'.tried \o call'.left, call'.usable)
  BY DEF FailoverIsSafe, Router!FailoverIsSafe, Router!UsableFirst, InOrder
<1>1. ASSUME NEW allowed \in SUBSET Provider, NEW idempotent \in BOOLEAN,
             Router!withFailover(allowed, idempotent)
      PROVE  FailoverIsSafe'
  <2>1. PICK s \in Router!candidates(allowed), st \in {"no_provider", "running", "unresolved"} :
           /\ call' = [st |-> st, idempotent |-> idempotent, left |-> s, tried |-> <<>>,
                       usable |-> Router!Usable, accepted |-> {}]
           /\ s \in Seq(Provider)
    BY <1>1, Begins
  <2>2. Router!NoSecondBill'
    BY <2>1 DEF Router!NoSecondBill
  <2>3. \A i, j \in DOMAIN s : i < j => ~Router!Precedes(s[j], s[i])
    BY <2>1 DEF Router!candidates
  <2>4. \A i \in DOMAIN s : s[i] \in Provider /\ Priority[s[i]] \in Nat
    BY <2>1, PlatformAssumption, ElementOfSeq DEF Router!RouterAssumption
  <2>5. InOrder(s, Router!Usable)
    BY <2>3, <2>4 DEF InOrder, Router!Precedes
  <2>6. <<>> \o s = s
    BY <2>1, ConcatEmptySeq
  <2> QED BY <1>p, <2>1, <2>2, <2>5, <2>6
<1>2. ASSUME NEW outcome \in Router!Outcome, Router!AttemptEnds(outcome)
      PROVE  FailoverIsSafe'
  <2>1. PICK p \in Provider, rest \in Seq(Provider), tried \in Seq(Provider),
             st \in {"ok", "rejected", "exhausted", "running"} :
          Fails(outcome, p, rest, tried, st)
    BY <1>2, Attempt DEF RouterInv
  <2>2. call.st = "running"
    BY <1>2 DEF Router!AttemptEnds
  <2>3. Router!NoSecondBill'
    BY <2>1, <2>2 DEF Fails, Router!NoSecondBill, RouterInv
  <2> QED BY <1>0, <1>p, <2>1, <2>3 DEF Fails
<1>3. ASSUME UNCHANGED call PROVE FailoverIsSafe'
  BY <1>0, <1>3, <1>p DEF Router!NoSecondBill
<1>4. (\E p \in Provider, row \in Router!Row : Router!Change(p, row)) \/ UNCHANGED routerVars
        => UNCHANGED call
  BY DEF Router!Change, routerVars
<1> QED BY <1>1, <1>2, <1>3, <1>4 DEF Router!Next

(* Whatever fails and is lost, and whatever is marked or changed meanwhile,  *)
(* a request nobody vouches for is billed by one provider, and candidates    *)
(* are asked usable ones first, each sort by its priority.                   *)
THEOREM Failover == AllSpec => []FailoverIsSafe
<1>1. Router!Init => RouterInv /\ FailoverIsSafe
  BY DEF Router!Init, RouterInv, Asks, Router!NoCall, FailoverIsSafe, Router!FailoverIsSafe,
     Router!NoSecondBill, Router!UsableFirst
<1> QED BY <1>1, RouterTypeInit, RouterTypeStep, FailoverStep, Steps, PTL DEF AllSpec, AllInit
=============================================================================
