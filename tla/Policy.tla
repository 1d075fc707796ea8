------------------------------- MODULE Policy -------------------------------
(* domain/policy.ts: the guards every model reply goes through, and the use  *)
(* the comments prescribe: ask the model again once, then repair.  A         *)
(* sentence is the set of the pattern lists that match it, a text the set of *)
(* its sentences: no guard looks at their order.  A text matches a list when *)
(* one of its sentences does (a pattern that spans two sentences is left     *)
(* out), and is as long as its sentences are many.                           *)
EXTENDS Naturals, FiniteSets

CONSTANTS
  MaxSentences,   \* bound: different sentences of a reply
  Disclosure      \* the disclosure statements of the characters

(* The lists of this module, and the phrases a text may or must contain.     *)
Pattern == {"admits", "undermines", "claims", "forbidden", "required"}
Sentence == SUBSET Pattern

(* A statement is the character's own text and may match anything.           *)
PolicyAssumption == MaxSentences \in Nat /\ Disclosure \subseteq Sentence

VARIABLES
  asked,        \* the fan asked directly whether this is an AI (ai_probe)
  rules,        \* the character's disclosure rules and the content rules
  pass,         \* which answer of the model comes next, or how it ended
  sent          \* the text that went out

vars == <<asked, rules, pass, sent>>

Text == SUBSET Sentence
Reply ==
  {{line[i] : i \in DOMAIN line} : line \in UNION {[1..n -> Sentence] : n \in 0..MaxSentences}}
(* A maxLength of 0 is none.                                                 *)
Rules == [mustDisclose: BOOLEAN, allowUndermining: BOOLEAN, disclosureStatement: Disclosure,
          requires: BOOLEAN, maxLength: 0..MaxSentences]

TypeOK ==
  /\ asked \in BOOLEAN /\ rules \in Rules
  /\ pass \in {"first", "retry", "sent", "repaired", "blocked"}
  /\ sent \in Text

Init ==
  /\ asked \in BOOLEAN /\ rules \in Rules
  /\ pass = "first" /\ sent = {}

-----------------------------------------------------------------------------
Matches(text, pattern) == \E sentence \in text : pattern \in sentence

(* An admission that is walked back.                                         *)
Undermined(text) ==
  Matches(text, "admits") /\ Matches(text, "undermines") /\ ~rules.allowUndermining

Findings(reply) ==
  {f \in {"humanity_claim", "missing_disclosure", "undermined_admission"} :
     \/ f = "humanity_claim" /\ Matches(reply, "claims")
     \/ /\ f = "missing_disclosure"
        /\ asked /\ rules.mustDisclose /\ ~Matches(reply, "admits")
     \/ f = "undermined_admission" /\ Undermined(reply)}

stripSentencesMatching(text, pattern) ==
  {sentence \in text : pattern \notin sentence}

(* Mutant of repairDisclosure: the statement stands in for an empty reply.   *)
repairOnlyEmpty(reply, findings) ==
  LET kept == IF "humanity_claim" \in findings
              THEN stripSentencesMatching(reply, "claims") ELSE reply
  IN IF kept = {} THEN {rules.disclosureStatement} ELSE kept

repairDisclosure(reply, findings) ==
  LET firm == IF "undermined_admission" \in findings
              THEN stripSentencesMatching(reply, "undermines") ELSE reply
      kept == IF "humanity_claim" \in findings
              THEN stripSentencesMatching(firm, "claims") ELSE firm
  IN IF Matches(kept, "admits") THEN kept ELSE {rules.disclosureStatement} \cup kept

enforceDisclosure(reply, isRetry) ==
  IF Findings(reply) = {} THEN [verdict |-> "allow", text |-> reply]
  ELSE IF ~isRetry THEN [verdict |-> "retry", text |-> reply]
  ELSE [verdict |-> "repair", text |-> repairDisclosure(reply, Findings(reply))]

Contents(reply) ==
  {f \in {"forbidden_phrase", "missing_required_phrase", "too_long"} :
     \/ f = "forbidden_phrase" /\ Matches(reply, "forbidden")
     \/ f = "missing_required_phrase" /\ rules.requires /\ ~Matches(reply, "required")
     \/ /\ f = "too_long"
        /\ rules.maxLength # 0 /\ Cardinality(reply) > rules.maxLength}

(* It sees the reply as the model gave it, before any repair.                *)
enforceContentPolicy(reply) ==
  [verdict |-> IF Contents(reply) # {} THEN "block" ELSE "allow", text |-> reply]

SEVERITY_ORDER == <<"allow", "repair", "retry", "block">>
Severity(r) == CHOOSE i \in DOMAIN SEVERITY_ORDER : SEVERITY_ORDER[i] = r.verdict

(* The strictest verdict, of the first that gave it, with its text.          *)
combinePolicies(a, b) == IF Severity(b) > Severity(a) THEN b ELSE a

(* One answer of the model.                                                  *)
Guard(reply) ==
  LET result == combinePolicies(enforceDisclosure(reply, pass = "retry"),
                                enforceContentPolicy(reply))
  IN /\ pass \in {"first", "retry"}
     /\ pass' = CASE result.verdict = "retry" -> "retry"
                  [] result.verdict = "block" -> "blocked"
                  [] result.verdict = "repair" -> "repaired"
                  [] OTHER -> "sent"
     /\ sent' = IF pass' \in {"sent", "repaired"} THEN result.text ELSE sent
     /\ UNCHANGED <<asked, rules>>

Next == \E reply \in Reply : Guard(reply)

Spec == Init /\ [][Next]_vars

-----------------------------------------------------------------------------
(* Whatever the model says, twice: what goes out as it came has nothing      *)
(* against it.  What goes out repaired is what is left of the reply, with    *)
(* the statement before it where it did not admit.  No guard looks at that   *)
(* text again, so it is as good as the statement is: it admits where it has  *)
(* to if the statement does, and claims humanity or contains what is         *)
(* forbidden only if the statement does.  It is too long by no more than the *)
(* statement, and the reply's own words walk no admission of the reply's own *)
(* back; they may walk back the statement's, and a required phrase may have  *)
(* gone with a sentence that was stripped.                                   *)
SentIsHonest ==
  /\ pass = "sent" => Findings(sent) = {} /\ Contents(sent) = {}
  /\ pass = "repaired" =>
       LET statement == rules.disclosureStatement
       IN /\ asked /\ rules.mustDisclose /\ "admits" \in statement => Matches(sent, "admits")
          /\ \A pattern \in {"claims", "forbidden"} :
               Matches(sent, pattern) => pattern \in statement /\ statement \in sent
          /\ ~Undermined(sent \ {statement})
          /\ rules.maxLength # 0 => Cardinality(sent) <= rules.maxLength + 1
=============================================================================
