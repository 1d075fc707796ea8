-------------------------------- MODULE Probe --------------------------------
(* providers: health(), capabilities() and chatStream() of the adapters      *)
(* against a server that changes while they ask, request by request.  The    *)
(* adapters of Ollama and LM Studio are the one for OpenAI-compatible        *)
(* servers, llm here.                                                        *)
EXTENDS Naturals, FiniteSets, SequencesExt

CONSTANTS
  MaxChanges,   \* bound: changes of the server in one behaviour
  MaxFrames     \* bound: frames of a stream

ProbeAssumption == MaxChanges \in Nat /\ MaxFrames \in Nat

VARIABLES
  holds,        \* what is true of the server now
  seen,         \* what was true of it at some moment of the probe
  missing,      \* what was not, at some moment of the probe
  adapter,      \* who asks
  step,         \* the request it makes next
  found,        \* the capabilities it has found
  verdict,      \* the health it reports
  changes,      \* changes so far
  frames,       \* what the server streams: pieces of text, noise and [DONE]
  cursor,       \* lines of it that have arrived
  buffer,       \* an incomplete line has arrived after them
  yielded       \* the text passed on

probeVars == <<holds, seen, missing, adapter, step, found, verdict, changes, frames, cursor,
               buffer, yielded>>

(* Of the configuration: there is a credential, a default model.  Of the     *)
(* server: it can be reached, accepts the credential, has the path that is   *)
(* read first, lists models, answers a chat, with text that parses, with a   *)
(* call of a tool, and answers on the path for embeddings.                   *)
Setting == {"credential", "default"}
Fact == Setting \cup {"reachable", "accepted", "endpoint", "models", "chat", "json", "tools",
                      "embed"}
Health == {"none", "connected", "auth_error", "model_missing", "degraded", "unavailable"}
Step == {"health:models", "health:chat", "health:balance", "health:healthz", "health:queue",
         "models", "structured_output", "tool_calling", "embeddings", "stream:open", "stream", "done"}
Optional == {"structured_output", "tool_calling", "embeddings"}
Frame == {"text", "noise", "[DONE]"}

TypeOK ==
  /\ holds \subseteq Fact /\ seen \subseteq Fact /\ missing \subseteq Fact
  /\ adapter \in {"llm", "anthropic", "media", "open_dispatch"}
  /\ step \in Step /\ verdict \in Health
  /\ found \subseteq {"chat", "streaming"} \cup Optional
  /\ changes \in 0..MaxChanges
  /\ frames \in BoundedSeq(Frame, MaxFrames) /\ cursor \in 0..Len(frames)
  /\ buffer \in BOOLEAN /\ yielded \in 0..MaxFrames

(* The first requests of a probe; media adapters read a balance or a list.   *)
First(a) ==
  CASE a = "llm" -> {"health:models", "models", "stream:open"}
    [] a = "anthropic" -> {"health:chat"}
    [] a = "media" -> {"health:balance"}
    [] a = "open_dispatch" -> {"health:healthz"}

Init ==
  /\ holds \in SUBSET Fact /\ seen = holds /\ missing = Fact \ holds
  /\ adapter \in {"llm", "anthropic", "media", "open_dispatch"}
  /\ step \in First(adapter)
  /\ found = IF step = "models" THEN {"chat", "streaming"} ELSE {}
  /\ verdict = "none" /\ changes = 0
  /\ frames = <<>> /\ cursor = 0 /\ buffer = FALSE /\ yielded = 0

Change(fact) ==
  /\ step \notin {"stream", "done"} /\ changes < MaxChanges /\ changes' = changes + 1
  /\ holds' = IF fact \in holds THEN holds \ {fact} ELSE holds \cup {fact}
  /\ seen' = seen \cup holds' /\ missing' = missing \cup (Fact \ holds')
  /\ UNCHANGED <<adapter, step, found, verdict, frames, cursor, buffer, yielded>>

-----------------------------------------------------------------------------
(* One request by httpJson: no answer, 401, 404 or a body.                   *)
httpJson ==
  IF "reachable" \notin holds THEN "none"
  ELSE IF "endpoint" \notin holds THEN "404"
  ELSE IF "accepted" \notin holds THEN "401" ELSE "ok"

(* chat() and embed() return when a body comes back, whatever is in it: no   *)
(* look is taken at the vectors.                                             *)
chat == httpJson = "ok" /\ "chat" \in holds
embed == httpJson = "ok" /\ "embed" \in holds
Thrown(reply) == IF reply = "401" THEN "auth_error" ELSE "unavailable"

Asked == UNCHANGED <<holds, seen, missing, adapter, changes, frames, cursor, buffer, yielded>>
Report(state) == verdict' = state /\ step' = "done" /\ UNCHANGED found

(* health() of an OpenAI-compatible server: the list first, then a chat.     *)
healthModels ==
  /\ step = "health:models" /\ Asked
  /\ IF httpJson # "ok" THEN Report(Thrown(httpJson))
     ELSE IF "models" \notin holds THEN Report("model_missing")
     ELSE step' = "health:chat" /\ UNCHANGED <<found, verdict>>
healthChat ==
  /\ step = "health:chat" /\ Asked
  /\ Report(IF chat THEN "connected"
            ELSE IF adapter = "anthropic" THEN Thrown(httpJson) ELSE "degraded")

(* The media adapters want a credential and take 404 for an answer.          *)
healthBalance ==
  /\ step = "health:balance" /\ Asked
  /\ Report(IF "credential" \notin holds THEN "auth_error"
            ELSE IF httpJson \in {"ok", "404"} THEN "connected" ELSE Thrown(httpJson))

(* Open-Dispatch: /healthz, which may be open to all, and then the queue.    *)
healthz ==
  /\ step = "health:healthz" /\ Asked
  /\ \/ /\ {"reachable", "endpoint"} \subseteq holds
        /\ step' = "health:queue" /\ UNCHANGED <<found, verdict>>
     \/ httpJson # "ok" /\ Report(Thrown(httpJson))
healthQueue ==
  /\ step = "health:queue" /\ Asked
  /\ Report(CASE httpJson = "ok" -> "connected"
              [] httpJson = "401" -> "auth_error"
              [] OTHER -> "unavailable")

-----------------------------------------------------------------------------
(* capabilities() of an OpenAI-compatible server                             *)

(* The list has to be had, but a default model need not be on it.            *)
capabilitiesModels ==
  /\ step = "models" /\ Asked
  /\ step' = IF httpJson = "ok" /\ {"models", "default"} \cap holds # {}
             THEN "structured_output" ELSE "done"
  /\ UNCHANGED <<found, verdict>>

(* Mutant of Demonstrated: that there is an answer is enough.                *)
DemonstratedByAny == [structured_output |-> chat, tool_calling |-> chat, embeddings |-> embed]
(* What shows a capability: text that parses, a call of the tool, an answer. *)
Demonstrated ==
  [structured_output |-> chat /\ "json" \in holds,
   tool_calling |-> chat /\ "tools" \in holds,
   embeddings |-> embed]

After == [structured_output |-> "tool_calling", tool_calling |-> "embeddings", embeddings |-> "done"]

capabilitiesProbe ==
  /\ step \in Optional /\ Asked
  /\ found' = IF Demonstrated[step] THEN found \cup {step} ELSE found
  /\ step' = After[step]
  /\ UNCHANGED verdict

-----------------------------------------------------------------------------
(* chatStream(): lines come in chunks cut anywhere                           *)

(* Mutant of Complete: the line that is still cut counts.                    *)
CompleteOrCut(n, cut) == (cursor + 1)..(IF cut THEN n + 1 ELSE n)
(* The lines a chunk completes: the last one is held back until its newline. *)
Complete(n, cut) == (cursor + 1)..n

(* The pieces of text in some lines, up to a [DONE] among them.              *)
Text(lines) ==
  Cardinality({i \in lines : /\ frames[i] = "text"
                             /\ \A k \in lines : k <= i => frames[k] # "[DONE]"})
Stop(lines) == \E i \in lines : frames[i] = "[DONE]"

openStream ==
  /\ step = "stream:open"
  /\ step' = IF chat THEN "stream" ELSE "done"
  /\ frames' \in IF chat THEN BoundedSeq(Frame, MaxFrames) ELSE {<<>>}
  /\ UNCHANGED <<holds, seen, missing, adapter, found, verdict, changes, cursor, buffer,
                 yielded>>

Chunk(n, cut) ==
  /\ step = "stream" /\ n >= cursor
  /\ cut => n < Len(frames)
  /\ LET lines == Complete(n, cut)
     IN /\ yielded' = yielded + Text(lines)
        /\ step' = IF Stop(lines) THEN "done" ELSE step
  /\ cursor' = n /\ buffer' = cut
  /\ UNCHANGED <<holds, seen, missing, adapter, found, verdict, changes, frames>>

(* The connection ends, early or not: the generator returns either way, and  *)
(* a line still in the buffer is dropped.                                    *)
EndOfStream ==
  /\ step = "stream" /\ step' = "done"
  /\ UNCHANGED <<holds, seen, missing, adapter, found, verdict, changes, frames, cursor,
                 buffer, yielded>>

Next ==
  \/ \E fact \in Fact \ Setting : Change(fact)
  \/ healthModels \/ healthChat \/ healthBalance \/ healthz \/ healthQueue
  \/ capabilitiesModels \/ capabilitiesProbe \/ openStream
  \/ \E n \in 0..Len(frames), cut \in BOOLEAN : Chunk(n, cut)
  \/ EndOfStream

ProbeSpec == Init /\ [][Next]_probeVars

-----------------------------------------------------------------------------
(* Structured output and tool calling are claimed only if the server, asked  *)
(* under an accepted credential, showed them; it may lose them while others  *)
(* are probed, and a model that is not on its list may have shown them.      *)
(* (Chat, streaming and, of a server that answers on its path, embeddings    *)
(* are claimed without being shown.)                                         *)
ClaimsAreShown ==
  /\ "structured_output" \in found => {"chat", "json"} \subseteq seen
  /\ "tool_calling" \in found => {"chat", "tools"} \subseteq seen
  /\ found \cap Optional # {} =>
       /\ {"reachable", "accepted", "endpoint"} \subseteq seen
       /\ {"models", "default"} \cap seen # {}

(* A verdict names what was the case when it was asked about.  Connected:    *)
(* the server gave what it takes to use it, though perhaps not all at one    *)
(* time; a media provider has accepted the credential, or does not know the  *)
(* path that was to prove it.  An error: this was wrong, and what is asked   *)
(* before it was right.                                                      *)
VerdictIsShown ==
  /\ verdict = "connected" => "reachable" \in seen
  /\ verdict = "connected" =>
       {"accepted", "endpoint"} \subseteq seen \/ (adapter = "media" /\ "endpoint" \in missing)
  /\ verdict = "connected" /\ adapter = "media" => "credential" \in seen
  /\ verdict = "connected" /\ adapter = "llm" => {"models", "chat"} \subseteq seen
  /\ verdict = "auth_error" => {"accepted", "credential"} \cap missing # {}
  /\ verdict = "model_missing" => "models" \in missing /\ "accepted" \in seen
  /\ verdict = "degraded" =>
       "models" \in seen /\ {"chat", "reachable", "accepted", "endpoint"} \cap missing # {}

(* However the stream is cut into chunks, as many pieces of text have been   *)
(* passed on as the complete lines hold, and none after [DONE].              *)
StreamIsWhole == yielded = Text(1..cursor)

ProbeIsHonest == ClaimsAreShown /\ VerdictIsShown /\ StreamIsWhole
=============================================================================
