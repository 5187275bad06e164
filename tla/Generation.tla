------------------------------ MODULE Generation ------------------------------
(* One structured answer from a language model (services/generation): the text *)
(* cut to the kind's budget and once more to what the provider accepts, the     *)
(* calls a provider retries, the parsing of each kind, and the repairs of a     *)
(* malformed summary. The model answers as it likes.                            *)
EXTENDS Naturals, FiniteSets

CONSTANTS
  MaxText,        \* characters of a source text or of a malformed answer
  Instructions,   \* characters a prompt has around its text
  RepairAttempts, \* 2 in the code
  GroqAttempts    \* 5 in the code

VARIABLES
  provider,       \* the configured provider, whether it is on, and its limit
  job             \* the generation

vars == <<provider, job>>

(* What an answer can be: how its JSON reads and what is wrong with its keys    *)
(* and values, and which evidence it cites: of a claim it makes, quoted from    *)
(* the text or invented, or of a claim it does not make.                        *)
Answers == [json : {"plain", "fenced", "unquoted", "broken"},
            faults : SUBSET {"missing", "extra", "value"},
            evidence : SUBSET {"quoted", "invented", "unclaimed"}]

\* Fences are taken off for every kind; unquoted keys are mended for summaries.
ExtractedJson == {"plain", "fenced"}
Mended == ExtractedJson \cup {"unquoted"}

\* The faults no parser forgives; extra keys and odd values pass where they are
\* ignored or converted.
CategoryFaults == {"missing", "extra"}
SummaryFaults(strict) == IF strict THEN {"missing", "value"} ELSE {"missing"}
DigestFaults == {"missing", "value"}
EligibilityFaults == {"missing", "extra", "value"}

(* A kind of generation: the answers it reads, whether it has a request that    *)
(* rewrites a malformed one, whether it checks the evidence, and the parts it   *)
(* may be asked in.                                                             *)
Kind(json, faults, repaired, traced, parts) ==
  [json |-> json, faults |-> faults, repaired |-> repaired, traced |-> traced, parts |-> parts]

AnnouncementSummary == Kind(Mended, SummaryFaults(TRUE), TRUE, TRUE, {1})
NewsSummary == Kind(Mended, SummaryFaults(FALSE), TRUE, FALSE, {1})
DiscussionSummary == Kind(Mended, SummaryFaults(FALSE), TRUE, FALSE, {1})
FeedEligibility == Kind(ExtractedJson, EligibilityFaults, FALSE, FALSE, {1})
RedditDigest == Kind(ExtractedJson, DigestFaults, FALSE, FALSE, {1})
CategorySplit == Kind(ExtractedJson, CategoryFaults, FALSE, FALSE, 1..2)

\* News and discussions differ in their prompts alone.
Kinds == {AnnouncementSummary, NewsSummary, DiscussionSummary, FeedEligibility, RedditDigest,
          CategorySplit}

Parses(kind, a) == a.json \in kind.json /\ a.faults \cap kind.faults = {}

\* normalise_claim_evidence and validated_claim_evidence.
NormaliseClaimEvidence(evidence) == evidence \ {"unclaimed"}
ValidatedClaimEvidence(evidence) == NormaliseClaimEvidence(evidence) \ {"invented"}

Parse(kind, a) == IF kind.traced THEN ValidatedClaimEvidence(a.evidence) ELSE {}

Min2(a, b) == IF a < b THEN a ELSE b

\* The length of the prompt around the first n characters; a repair escapes some.
SummaryRepair(j, n) == Cardinality({c \in j.escaped : c <= n})
PromptOf(j, n) == Instructions + n + (IF j.repairing THEN SummaryRepair(j, n) ELSE 0)
Prompt(n) == PromptOf(job, n)

\* _complete starts with the text cut to its budget.
Asking(j, length, budget) ==
  [j EXCEPT !.pc = "ask", !.cut = Min2(length, budget), !.refused = FALSE, !.attempts = 0]

Init ==
  /\ provider \in [name : {"bedrock", "groq"}, on : BOOLEAN,
                   limit : {Instructions, Instructions + 2, Instructions + MaxText}]
  /\ \E kind \in Kinds, length, budget \in 1..MaxText : \E parts \in kind.parts :
       job = Asking([kind |-> kind, parts |-> parts, length |-> length, budget |-> budget,
                     pc |-> "ask", cut |-> 0, refused |-> FALSE, attempts |-> 0,
                     repairing |-> FALSE, escaped |-> {}, repairs |-> RepairAttempts,
                     answer |-> "none", values |-> 0, evidence |-> {}, asks |-> 0,
                     outcome |-> "none"], length, budget)

Becomes(j) == job' = j /\ UNCHANGED provider

\* A ValueError, a RuntimeError worth a retry, Unavailable, or the value.
Ends(outcome) == Becomes([job EXCEPT !.pc = "done", !.outcome = outcome])

\* configured_provider reads its settings on each call.
SwitchedOff ==
  /\ job.pc = "ask" /\ ~provider.on
  /\ Ends("unavailable")

(* A prompt too large: Bedrock checks it before the request, Groq answers 413   *)
(* to what is over its allowance. The second refusal of a prompt is final.      *)
Refused ==
  /\ job.pc = "ask" /\ provider.on
  /\ Prompt(job.cut) > provider.limit
  /\ IF job.refused THEN Ends("malformed")
     ELSE Becomes([job EXCEPT !.pc = "shorten", !.refused = TRUE])

Shorten ==
  /\ job.pc = "shorten"
  /\ IF Prompt(job.cut) <= provider.limit
     THEN Becomes([job EXCEPT !.pc = "ask", !.attempts = 0])
     ELSE LET over == Prompt(job.cut) - provider.limit IN
          IF job.cut <= over THEN Ends("malformed")
          ELSE Becomes([job EXCEPT !.cut = @ - over])

Asked == job.pc = "ask" /\ provider.on
         /\ (provider.name = "bedrock" => Prompt(job.cut) <= provider.limit)

\* Groq is asked again while it limits the rate; any other failure ends the call.
RateLimited ==
  /\ Asked /\ provider.name = "groq"
  /\ IF job.attempts + 1 = GroqAttempts THEN Ends("retry")
     ELSE Becomes([job EXCEPT !.attempts = @ + 1])

CallFails == Asked /\ Ends("retry")

\* _response_body and _message_text: an answer without text is not asked again.
NoText == Asked /\ Ends("malformed")

\* The next part starts over; the value is complete with the last one.
Parsed ==
  /\ Asked
  /\ \E e \in {Parse(job.kind, a) : a \in {b \in Answers : Parses(job.kind, b)}} :
       LET got == [job EXCEPT !.asks = @ + 1, !.values = @ + 1, !.evidence = @ \cup e]
       IN IF got.values = job.parts
          THEN Becomes([got EXCEPT !.pc = "done", !.outcome = "generated"])
          ELSE Becomes(Asking([got EXCEPT !.repairing = FALSE, !.repairs = RepairAttempts,
                                          !.asks = 0], job.length, job.budget))

\* A malformed summary is rewritten by a request of its own, then parsed as before.
Malformed ==
  /\ Asked
  /\ {a \in Answers : ~Parses(job.kind, a)} # {}
  /\ LET asked == [job EXCEPT !.asks = @ + 1, !.repairs = @ - 1] IN
     IF ~job.kind.repaired \/ job.repairs = 0 THEN Ends("malformed")
     ELSE \E length \in 0..MaxText : \E escaped \in SUBSET (1..length) :
            Becomes(Asking([asked EXCEPT !.repairing = TRUE, !.escaped = escaped],
                           length, MaxText))

Next == SwitchedOff \/ Refused \/ Shorten \/ RateLimited \/ CallFails \/ NoText \/ Parsed \/ Malformed

-----------------------------------------------------------------------------
(* However long the text and however often an answer is repaired, a shortened   *)
(* prompt fits what the provider said it accepts and has text left in it, and   *)
(* one part asks for at most three answers.                                     *)
PromptFits ==
  /\ job.pc = "ask" /\ job.refused =>
       Prompt(job.cut) <= provider.limit /\ job.cut > 0
  /\ job.asks <= 1 + RepairAttempts

(* A value is generated from every part of the request, and an announcement's   *)
(* cites only passages of its own text, whatever a repair rewrote.              *)
ValueHolds ==
  job.outcome = "generated" =>
    /\ job.values = job.parts
    /\ job.evidence \subseteq {"quoted"}
    /\ provider.on
=============================================================================
