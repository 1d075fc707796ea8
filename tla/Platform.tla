------------------------------- MODULE Platform -------------------------------
(* What the services of a workspace stand on: the renders of a media         *)
(* provider, the repository, the rate limiter, the provider router, the      *)
(* reply policy, the adapters, the credentials, the probes and the media     *)
(* library.  They share no state here, and a behaviour is one of a component *)
(* in Parts, so the states of a run add up and do not multiply, and a        *)
(* theorem about all behaviours is one about each component.                 *)
EXTENDS Generation

CONSTANTS
  Parts,                                      \* components a run looks at
  Proc,                                       \* server processes
  Id, Stamp, PageSize, MaxVersion,            \* of Repository
  CallLimit, WindowMs, MaxTime,               \* of RateLimiter
  Provider, Priority, Declares, Registered, MaxChanges,  \* of ProviderRouter
  MaxSentences, Disclosure,                   \* of Policy
  MaxCalls,                                   \* of Submission
  Ref, RowId, MaxKeys,                        \* of SecretStore
  MaxShifts, MaxFrames,                       \* of Probe
  Bytes, Place, NoKey, MediaId, Req, MaxFaults    \* of AssetStore

VARIABLES
  part,         \* the component of this behaviour
  rows, stmt, walk,
  now, counter, pending, admitted, raced,
  providers, call, changes,
  asked, rules, pass, sent,
  gateway, honours, request, stray, submissions, answer, things, stage, told, past,
  keyFile, generated, server, active, secrets, sealing,
  holds, seen, missing, prober, step, found, verdict, shifts, frames, cursor, buffer, yielded,
  files, media, reqs, failures, sound

Repo == INSTANCE Repository WITH Limit <- PageSize
Rate == INSTANCE RateLimiter WITH Limit <- CallLimit, stmt <- pending
Router == INSTANCE ProviderRouter WITH rows <- providers
Replies == INSTANCE Policy
Gateways == INSTANCE Submission
  WITH adapter <- gateway, call <- request, calls <- submissions
Vault == INSTANCE SecretStore WITH stmt <- sealing
Probes == INSTANCE Probe
  WITH MaxChanges <- MaxShifts, adapter <- prober, changes <- shifts
Library == INSTANCE AssetStore
  WITH rows <- media, Content <- Bytes, Asset <- MediaId, faults <- failures

repoVars == <<rows, stmt, walk>>
rateVars == <<now, counter, pending, admitted, raced>>
routerVars == <<providers, call, changes>>
replyVars == <<asked, rules, pass, sent>>
gatewayVars == <<gateway, honours, request, stray, submissions, answer, things, stage, told,
                past>>
vaultVars == <<keyFile, generated, server, active, secrets, sealing>>
probeVars == <<holds, seen, missing, prober, step, found, verdict, shifts, frames, cursor,
               buffer, yielded>>
mediaVars == <<files, media, reqs, failures, sound>>

ASSUME PlatformAssumption ==
  /\ Parts \subseteq {"generation", "repository", "rates", "router", "policy", "submission",
                      "secrets", "probe", "media"}
  /\ Repo!RepositoryAssumption /\ Rate!RateLimiterAssumption
  /\ Router!RouterAssumption /\ Gateways!SubmissionAssumption
  /\ Vault!SecretStoreAssumption /\ Probes!ProbeAssumption
  /\ Replies!PolicyAssumption /\ Library!AssetAssumption

(* The components that are not looked at start in one state.                 *)
AllInit ==
  /\ part \in Parts
  /\ Init
  /\ part = "generation" \/ heeds
  /\ Repo!Init /\ Rate!Init /\ Router!Init /\ Vault!Init
  /\ Replies!Init /\ Library!Init
  /\ part = "policy" \/ (asked /\ rules = CHOOSE r \in Replies!Rules : TRUE)
  /\ Gateways!Init
  /\ part = "submission" \/ (gateway = "wavespeed" /\ honours)
  /\ Probes!Init
  /\ part = "probe" \/ (holds = {} /\ prober = "media")

(* A step of one component.                                                  *)
Only(p) ==
  /\ part = p /\ UNCHANGED part
  /\ IF p = "generation" THEN TRUE ELSE UNCHANGED vars
  /\ IF p = "repository" THEN TRUE ELSE UNCHANGED repoVars
  /\ IF p = "rates" THEN TRUE ELSE UNCHANGED rateVars
  /\ IF p = "router" THEN TRUE ELSE UNCHANGED routerVars
  /\ IF p = "policy" THEN TRUE ELSE UNCHANGED replyVars
  /\ IF p = "submission" THEN TRUE ELSE UNCHANGED gatewayVars
  /\ IF p = "secrets" THEN TRUE ELSE UNCHANGED vaultVars
  /\ IF p = "probe" THEN TRUE ELSE UNCHANGED probeVars
  /\ IF p = "media" THEN TRUE ELSE UNCHANGED mediaVars

AllNext ==
  \/ Only("generation") /\ Next
  \/ Only("repository") /\ Repo!Next
  \/ Only("rates") /\ Rate!Next
  \/ Only("router") /\ Router!Next
  \/ Only("policy") /\ Replies!Next
  \/ Only("submission") /\ Gateways!Next
  \/ Only("secrets") /\ Vault!Next
  \/ Only("probe") /\ Probes!Next
  \/ Only("media") /\ Library!Next

allVars == <<part, vars, repoVars, rateVars, routerVars, replyVars, gatewayVars,
             vaultVars, probeVars, mediaVars>>

AllSpec == AllInit /\ [][AllNext]_allVars

-----------------------------------------------------------------------------
(* Every component keeps to its types; for the renders that includes that a  *)
(* character has no more of them in the hour than the limit.                 *)
TypesOK ==
  /\ part = "generation" => TypeOK
  /\ part = "repository" => Repo!TypeOK
  /\ part = "rates" => Rate!TypeOK
  /\ part = "router" => Router!TypeOK
  /\ part = "policy" => Replies!TypeOK
  /\ part = "submission" => Gateways!TypeOK
  /\ part = "secrets" => Vault!TypeOK
  /\ part = "probe" => Probes!TypeOK
  /\ part = "media" => Library!TypeOK

(* The properties of the components; each is stated and explained where it   *)
(* is defined.                                                               *)
(* Repository: a soft-deleted row is out of reach of a stale update.         *)
DeletedIsUntouched == Repo!DeletedIsUntouched
(* Repository, refuted: pages do not repeat rows.                            *)
NoRowTwice == Repo!NoRowTwice
(* RateLimiter: without overlapping calls no window exceeds the limit.       *)
LimitHolds == Rate!LimitHolds
(* ProviderRouter: nobody pays twice for a request not to be repeated, and   *)
(* usable providers come first, in their order.                              *)
FailoverIsSafe == Router!FailoverIsSafe
(* Policy: what goes out is compliant, or as good as the statement that      *)
(* repairs it.                                                               *)
SentIsHonest == Replies!SentIsHonest
(* Submission: a second thing is made of it, or its end taken back, only     *)
(* where a key goes unheeded or a mock forgets.                              *)
SubmittedOnce == Gateways!SubmittedOnce
(* SecretStore: every server can open every credential.                      *)
Readable == Vault!Readable
(* Probe: verdicts and optional capabilities were shown, streams are whole.  *)
ProbeIsHonest == Probes!ProbeIsHonest
(* AssetStore: rows that had their file keep it whole.                       *)
BytesStay == Library!BytesStay
(* AssetStore: without a failure no file is left that nothing accounts for.  *)
NoFileIsForgotten == Library!NoFileIsForgotten
=============================================================================
