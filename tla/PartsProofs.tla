---------------------------- MODULE PartsProofs ----------------------------
(* The promises of the parts that MCParts runs, proved of every behaviour of    *)
(* each and for every value of its constants: the release tooling, the source   *)
(* adapters and their web session, the generation of values, the two stores of  *)
(* a summary, and the email sender.                                             *)
EXTENDS MCParts, SequenceTheorems, FiniteSetTheorems, TLAPS

-----------------------------------------------------------------------------
(* Release: s1 is the stack, s2 its change sets under review and s3 the jobs of *)
(* the workflows.                                                               *)

(* What AlertsReachSite asks of a live stack is true of every set of values a   *)
(* plan holds, and of the stack it was made from.                               *)
Reaches(values) ==
  values["NotificationsEnabled"] = "true" =>
    /\ values["AlertSenderEmail"] # ""
    /\ values["FrontendBaseUrl"] =
         IF values["SiteDomainName"] # "" THEN values["SiteDomainName"] ELSE Rel!CloudFront

Values(values) == values = [n \in Rel!Names |-> values[n]]

StackRight(stack) ==
  /\ stack.url \in {"", Rel!CloudFront}
  /\ stack.status = "absent" => stack.values = Rel!NoValues
  /\ stack.status # "absent" => Values(stack.values) /\ Reaches(stack.values)

(* A plan changes what was chosen; one that executes keeps the domain and knows *)
(* the release to go back to; a rollback changes no value.                      *)
PlanRight(p) ==
  /\ StackRight(p.live)
  /\ Values(p.values) /\ Reaches(p.values)
  /\ p.live.status # "absent" =>
       \A n \in Rel!Names \ {"FrontendBaseUrl"} :
         p.values[n] # p.live.values[n] => n \in p.chosen
  /\ p.execute =>
       /\ p.live.status # "absent"
       /\ p.previous = p.live.image
       /\ p.live.values["SiteDomainName"] # "" => p.values["SiteDomainName"] # ""
  /\ p.rollback => p.live.status # "absent" /\ p.values = p.live.values

AsPlanned(p, stack) == p.live.values = stack.values /\ p.live.image = stack.image

JobRight(job, stack) ==
  /\ DOMAIN job = DOMAIN Rel!Idle
  /\ job.pc # "idle" => PlanRight(job.plan)
  /\ job.pc = "checked" /\ ~job.moved => AsPlanned(job.plan, stack)

ChangeSetRight(c, stack) ==
  PlanRight(c.plan) /\ (~c.moved => AsPlanned(c.plan, stack))

ReleaseInv ==
  /\ StackRight(s1)
  /\ DOMAIN s3 = Rel!Jobs
  /\ \A j \in Rel!Jobs : JobRight(s3[j], s1)
  /\ \A c \in s2 : ChangeSetRight(c, s1)

\* A job without a plan promises nothing.
LEMMA IdleRight ==
  ASSUME NEW stack
  PROVE  JobRight(Rel!Idle, stack)
  BY DEF JobRight, Rel!Idle

\* The invariant gives the three promises.
LEMMA ReleasePromises ==
  ASSUME ReleaseInv
  PROVE  Rel!NothingUndone /\ Rel!ReviewedAsPlanned /\ Rel!AlertsReachSite
  <1>1. Rel!NothingUndone
    <2> SUFFICES ASSUME NEW j \in Rel!Jobs, s3[j].pc = "checked", s3[j].plan.execute, ~s3[j].moved
                 PROVE  /\ Rel!Exists
                        /\ s3[j].plan.previous = s1.image
                        /\ s1.values["SiteDomainName"] # "" =>
                             s3[j].plan.values["SiteDomainName"] # ""
                        /\ \A n \in Rel!Names \ {"FrontendBaseUrl"} :
                             s3[j].plan.values[n] # s1.values[n] => n \in s3[j].plan.chosen
      BY DEF Rel!NothingUndone
    <2>1. PlanRight(s3[j].plan) /\ AsPlanned(s3[j].plan, s1)
      BY DEF ReleaseInv, JobRight
    <2>2. Rel!Exists
      <3>1. DOMAIN s1.values = Rel!Names
        BY <2>1 DEF PlanRight, AsPlanned, StackRight, Values
      <3>2. DOMAIN Rel!NoValues = {} /\ Rel!Names # {}
        BY DEF Rel!NoValues, Rel!Names
      <3> QED
        BY <3>1, <3>2 DEF ReleaseInv, StackRight, Rel!Exists
    <2> QED
      BY <2>1, <2>2 DEF PlanRight, AsPlanned
  <1>2. Rel!ReviewedAsPlanned
    BY DEF Rel!ReviewedAsPlanned, ReleaseInv, ChangeSetRight, PlanRight, AsPlanned
  <1>3. Rel!AlertsReachSite
    BY DEF Rel!AlertsReachSite, ReleaseInv, StackRight, Reaches
  <1> QED
    BY <1>1, <1>2, <1>3

LEMMA ReleaseInit ==
  ASSUME Rel!Init
  PROVE  ReleaseInv
  <1>1. StackRight(s1)
    <2>1. CASE s1 = Rel!Absent
      BY <2>1 DEF Rel!Absent, StackRight
    <2>2. CASE s1 = [status |-> "complete", image |-> Rel!NoSha, url |-> Rel!CloudFront,
                     values |-> [n \in Rel!Names |->
                                  IF n = "OperationsEmail" THEN "ops" ELSE Rel!Default[n]]]
      <3>1. s1.values["NotificationsEnabled"] = "false"
        BY <2>2 DEF Rel!Names, Rel!Default
      <3> QED
        BY <2>2, <3>1 DEF StackRight, Values, Reaches, Rel!CloudFront
    <2> QED
      BY <2>1, <2>2 DEF Rel!Init
  <1> QED
    BY <1>1, IdleRight DEF Rel!Init, ReleaseInv

\* What resolve makes of the values nobody chose.
LEMMA Resolved ==
  ASSUME NEW live, NEW explicit, NEW unlessEmpty
  PROVE  /\ Values(Rel!Resolve(live, explicit, unlessEmpty))
         /\ \A n \in Rel!Names :
              n \in DOMAIN live /\ n \notin Rel!Chosen(explicit, unlessEmpty) =>
                Rel!Resolve(live, explicit, unlessEmpty)[n] = live[n]
  <1>1. DOMAIN explicit \subseteq Rel!Chosen(explicit, unlessEmpty)
    BY DEF Rel!Chosen
  <1> QED
    BY <1>1 DEF Values, Rel!Resolve

\* A plan that passes its checks is right, whatever was set for it.
LEMMA PlanMade ==
  ASSUME ReleaseInv, NEW j \in Rel!Jobs, NEW sha, NEW explicit, NEW unlessEmpty,
         NEW execute \in BOOLEAN, NEW rollback \in BOOLEAN,
         rollback => explicit = Rel!NoValues /\ unlessEmpty = Rel!NoValues,
         Rel!Plan(j, sha, explicit, unlessEmpty, execute, rollback)
  PROVE  PlanRight(s3'[j].plan)
  <1> DEFINE r == Rel!Resolve(s1.values, explicit, unlessEmpty)
             v == IF rollback THEN r
                  ELSE [r EXCEPT !["FrontendBaseUrl"] = Rel!FrontendBaseUrl(r)]
             p == [sha |-> sha, execute |-> execute, rollback |-> rollback, values |-> v,
                   chosen |-> Rel!Chosen(explicit, unlessEmpty), live |-> s1,
                   previous |-> Rel!Previous, template |-> s7]
  <1>1. s3'[j].plan = p
    BY DEF Rel!Plan, ReleaseInv, Rel!Idle
  <1>2. /\ Values(r)
        /\ \A n \in Rel!Names :
             n \in DOMAIN s1.values /\ n \notin p.chosen => r[n] = s1.values[n]
    BY Resolved
  <1>3. StackRight(s1)
    BY DEF ReleaseInv
  <1>4. Rel!Exists => DOMAIN s1.values = Rel!Names
    BY <1>3 DEF StackRight, Values, Rel!Exists
  <1>5. /\ (execute \/ rollback) => Rel!Exists
        /\ ~rollback => ~Rel!LinkProblem(r)
        /\ execute => Rel!Previous # Rel!NoSha /\ ~Rel!RemovesDomain(r)
        /\ ~Rel!RuleFailure(v)
    BY DEF Rel!Plan
  <1>6. Values(v) /\ \A n \in Rel!Names \ {"FrontendBaseUrl"} : v[n] = r[n]
    BY <1>2 DEF Values
  <1>7. rollback => v = s1.values
    <2> SUFFICES ASSUME rollback
                 PROVE  r = s1.values
      OBVIOUS
    <2>1. Rel!Chosen(explicit, unlessEmpty) = {}
      BY DEF Rel!Chosen, Rel!NoValues
    <2>2. \A n \in Rel!Names : r[n] = s1.values[n]
      BY <1>2, <1>4, <1>5, <2>1
    <2> HIDE DEF r
    <2> QED
      BY <1>2, <1>3, <1>5, <2>2 DEF Values, StackRight, Rel!Exists
  <1>8. Reaches(v)
    <2>1. CASE rollback
      BY <1>3, <1>5, <1>7, <2>1 DEF StackRight, Rel!Exists
    <2>2. CASE ~rollback
      <3> SUFFICES ASSUME v["NotificationsEnabled"] = "true"
                   PROVE  /\ v["AlertSenderEmail"] # ""
                          /\ v["FrontendBaseUrl"] =
                               IF v["SiteDomainName"] # "" THEN v["SiteDomainName"]
                               ELSE Rel!CloudFront
        BY DEF Reaches
      <3>1. v["AlertSenderEmail"] # ""
        BY <1>5 DEF Rel!RuleFailure
      <3>2. /\ v["SiteDomainName"] = r["SiteDomainName"]
            /\ v["NotificationsEnabled"] = r["NotificationsEnabled"]
        BY <1>6 DEF Rel!Names
      <3>3. v["FrontendBaseUrl"] = Rel!FrontendBaseUrl(r)
        BY <1>2, <2>2 DEF Values, Rel!Names
      <3> HIDE DEF r, v
      <3>4. r["SiteDomainName"] = "" => Rel!Exists /\ s1.url # ""
        BY <1>5, <2>2, <3>2 DEF Rel!LinkProblem
      <3> QED
        BY <1>3, <3>1, <3>2, <3>3, <3>4 DEF Rel!FrontendBaseUrl, StackRight
    <2> QED
      BY <2>1, <2>2
  <1>9. Rel!Exists =>
          \A n \in Rel!Names \ {"FrontendBaseUrl"} : v[n] # s1.values[n] => n \in p.chosen
    BY <1>2, <1>4, <1>6
  <1>10. execute => /\ Rel!Previous = s1.image
                    /\ s1.values["SiteDomainName"] # "" => v["SiteDomainName"] # ""
    <2>1. v["SiteDomainName"] = r["SiteDomainName"]
      BY <1>6 DEF Rel!Names
    <2> HIDE DEF r, v
    <2> QED
      BY <1>5, <2>1 DEF Rel!Previous, Rel!RemovesDomain
  <1>11. /\ p.live = s1 /\ p.values = v /\ p.execute = execute /\ p.rollback = rollback
         /\ p.previous = Rel!Previous
    OBVIOUS
  <1> HIDE DEF r, v, p
  <1> QED
    BY <1>1, <1>3, <1>5, <1>6, <1>7, <1>8, <1>9, <1>10, <1>11 DEF PlanRight, Rel!Exists

\* Planning leaves the stack, its change sets and the other jobs alone.
LEMMA PlanKept ==
  ASSUME ReleaseInv, Rel!PlanCommand
  PROVE  ReleaseInv'
  <1> SUFFICES ASSUME NEW j \in Rel!Jobs, NEW sha, NEW explicit, NEW unlessEmpty,
                      NEW execute \in BOOLEAN, NEW rollback \in BOOLEAN,
                      rollback => explicit = Rel!NoValues /\ unlessEmpty = Rel!NoValues,
                      Rel!Plan(j, sha, explicit, unlessEmpty, execute, rollback)
               PROVE  ReleaseInv'
    BY DEF Rel!PlanCommand, Rel!PlanRelease, Rel!PlanRollback, Rel!Jobs
  <1>1. PlanRight(s3'[j].plan)
    BY PlanMade
  <1>2. /\ UNCHANGED <<s1, s2>>
        /\ DOMAIN s3' = Rel!Jobs
        /\ \A k \in Rel!Jobs \ {j} : s3'[k] = s3[k]
        /\ s3'[j].pc = "planned" /\ DOMAIN s3'[j] = DOMAIN Rel!Idle
    BY DEF Rel!Plan, ReleaseInv, Rel!Idle
  <1>3. \A k \in Rel!Jobs : JobRight(s3'[k], s1)
    BY <1>1, <1>2 DEF ReleaseInv, JobRight
  <1> QED
    BY <1>2, <1>3 DEF ReleaseInv

\* A step that leaves the stack and its change sets alone.
LEMMA JobsKept ==
  ASSUME ReleaseInv
  PROVE  /\ Rel!Build \/ Rel!World => ReleaseInv'
         /\ \A j \in Rel!Jobs : Rel!Stop(j) \/ Rel!Apply(j) => ReleaseInv'
  <1>1. Rel!Build \/ Rel!World => ReleaseInv'
    BY DEF Rel!Build, Rel!World, ReleaseInv
  <1>2. ASSUME NEW j \in Rel!Jobs, Rel!Stop(j)
        PROVE  ReleaseInv'
    <2>1. \A k \in Rel!Jobs : s3'[k] = Rel!Idle \/ s3'[k] = s3[k]
      BY <1>2 DEF Rel!Stop, ReleaseInv
    <2> QED
      BY <1>2, <2>1, IdleRight DEF Rel!Stop, ReleaseInv
  <1>3. ASSUME NEW j \in Rel!Jobs, Rel!Apply(j)
        PROVE  ReleaseInv'
    <2>1. /\ UNCHANGED <<s1, s2>>
          /\ DOMAIN s3' = Rel!Jobs
          /\ \A k \in Rel!Jobs \ {j} : s3'[k] = s3[k]
      BY <1>3 DEF Rel!Apply, ReleaseInv
    <2>2. s3'[j].plan = s3[j].plan /\ DOMAIN s3'[j] = DOMAIN Rel!Idle
      BY <1>3 DEF Rel!Apply, ReleaseInv, JobRight, Rel!Idle
    <2>3. AsPlanned(s3[j].plan, s1) /\ PlanRight(s3[j].plan)
      BY <1>3 DEF Rel!Apply, Rel!Applicable, AsPlanned, ReleaseInv, JobRight
    <2>4. \A k \in Rel!Jobs : JobRight(s3'[k], s1)
      BY <2>1, <2>2, <2>3 DEF ReleaseInv, JobRight
    <2> QED
      BY <2>1, <2>4 DEF ReleaseInv
  <1> QED
    BY <1>1, <1>2, <1>3

\* A change set that CloudFormation applies, or fails to create a stack from.
LEMMA ExecutedRight ==
  ASSUME NEW p, PlanRight(p), Rel!Executed(p)
  PROVE  StackRight(s1') /\ s2' = {}
  <1>1. s1' \in {Rel!Applied(p), Rel!Broken(p)} /\ s2' = {}
    BY DEF Rel!Executed, Rel!Changed
  <1>2. StackRight(Rel!Applied(p)) /\ StackRight(Rel!Broken(p))
    BY DEF StackRight, PlanRight, Rel!Applied, Rel!Broken
  <1> QED
    BY <1>1, <1>2

\* A change of the stack marks every job that has checked it.
LEMMA MovedKept ==
  ASSUME ReleaseInv, NEW except, s3' = Rel!Moved(except), StackRight(s1'), s2' = {}
  PROVE  ReleaseInv'
  <1>1. DOMAIN s3' = Rel!Jobs
    BY DEF Rel!Moved
  <1>2. ASSUME NEW k \in Rel!Jobs
        PROVE  JobRight(s3'[k], s1')
    <2>1. CASE k = except
      BY <2>1, IdleRight DEF Rel!Moved
    <2>2. CASE k # except
      <3>1. s3'[k] = [s3[k] EXCEPT !.moved = s3[k].pc = "checked"]
        BY <2>2 DEF Rel!Moved
      <3>2. DOMAIN s3[k] = DOMAIN Rel!Idle /\ (s3[k].pc # "idle" => PlanRight(s3[k].plan))
        BY DEF ReleaseInv, JobRight
      <3>3. /\ DOMAIN s3'[k] = DOMAIN Rel!Idle
            /\ s3'[k].pc = s3[k].pc /\ s3'[k].plan = s3[k].plan
            /\ s3'[k].moved <=> s3[k].pc = "checked"
        BY <3>1, <3>2 DEF Rel!Idle
      <3> QED
        BY <3>2, <3>3 DEF JobRight
    <2> QED
      BY <2>1, <2>2
  <1> QED
    BY <1>1, <1>2 DEF ReleaseInv

LEMMA DeployKept ==
  ASSUME ReleaseInv,
         \/ \E j \in Rel!Jobs : Rel!SamDeployExecutes(j) \/ Rel!SamDeployForReview(j)
         \/ \E c \in s2 : Rel!ExecuteChangeSet(c)
  PROVE  ReleaseInv'
  <1>1. ASSUME NEW j \in Rel!Jobs, Rel!SamDeployExecutes(j)
        PROVE  ReleaseInv'
    <2>1. PlanRight(s3[j].plan)
      BY <1>1 DEF Rel!SamDeployExecutes, ReleaseInv, JobRight
    <2> QED
      BY <1>1, <2>1, ExecutedRight, MovedKept DEF Rel!SamDeployExecutes
  <1>2. ASSUME NEW c \in s2, Rel!ExecuteChangeSet(c)
        PROVE  ReleaseInv'
    <2>1. PlanRight(c.plan)
      BY DEF ReleaseInv, ChangeSetRight
    <2> QED
      BY <1>2, <2>1, ExecutedRight, MovedKept DEF Rel!ExecuteChangeSet
  <1>3. ASSUME NEW j \in Rel!Jobs, Rel!SamDeployForReview(j)
        PROVE  ReleaseInv'
    <2> DEFINE c == [plan |-> s3[j].plan, moved |-> s3[j].moved]
    <2>1. /\ s2' = s2 \cup {c} /\ UNCHANGED s1
          /\ s3' = [s3 EXCEPT ![j] = Rel!Idle]
      BY <1>3 DEF Rel!SamDeployForReview
    <2>2. ChangeSetRight(c, s1)
      BY <1>3 DEF Rel!SamDeployForReview, ReleaseInv, JobRight, ChangeSetRight
    <2> HIDE DEF c
    <2>3. \A k \in Rel!Jobs : s3'[k] = Rel!Idle \/ s3'[k] = s3[k]
      BY <2>1 DEF ReleaseInv
    <2> QED
      BY <2>1, <2>2, <2>3, IdleRight DEF ReleaseInv
  <1> QED
    BY <1>1, <1>2, <1>3

LEMMA ReleaseStep ==
  ASSUME ReleaseInv, Rel!Next
  PROVE  ReleaseInv'
  BY PlanKept, JobsKept, DeployKept DEF Rel!Next

-----------------------------------------------------------------------------
(* Sites: s1 is the adapter's task, s2 the call it awaits and s3 the session.   *)

TaskFields ==
  {"style", "pc", "pages", "links", "resolved", "failures", "trouble", "outcome", "document",
   "leaked"}

ArticleStyles == {"single", "walk", "widget"}
Over == {"leaving", "closed"}

Results ==
  {"none", "page", "document", "unreachable", "retry", "layout", "not_found", "rejected"}

DocumentRight(t) == Sit!Validated(t.document.size, t.document.bytes, t.document.type)

\* The three sources that read another page instead.
FellBack(t) == t.style \in {"fallback", "widget", "walk"} /\ t.failures = 0

(* Only articles are skipped, and each that is skipped is trouble.              *)
TaskBase(t) ==
  /\ DOMAIN t = TaskFields
  /\ t.resolved \in Nat /\ t.failures \in Nat
  /\ t.trouble \in BOOLEAN
  /\ t.failures > 0 => t.trouble /\ t.style \in ArticleStyles

\* What FinalNeedsAnswer and OutcomeHolds say of a task.
EndRight(t) ==
  /\ t.outcome \in {"layout", "permanent"} => ~t.trouble \/ FellBack(t)
  /\ t.outcome = "listed" => t.resolved > 0
  /\ t.outcome = "unreachable" => t.trouble /\ (t.style # "years" => t.resolved = 0)
  /\ t.outcome = "document" => DocumentRight(t)

(* A task that goes on has had no trouble, unless articles were skipped or      *)
(* another page was read instead; nothing is resolved before the articles.      *)
OnTheWay(t) ==
  /\ t.outcome = "none"
  /\ t.trouble => t.failures > 0 \/ t.style \in {"fallback", "widget", "walk"}
  /\ t.pc = "articles" => t.style \in ArticleStyles
  /\ t.pc = "walk" => t.style = "walk"
  /\ t.pc # "articles" /\ t.style # "years" => t.resolved = 0 /\ t.failures = 0

TaskRight(t) == TaskBase(t) /\ EndRight(t) /\ (t.pc \notin Over => OnTheWay(t))

(* No call is under way when a task ends, nor once its articles are read; only  *)
(* two calls can find that a layout has changed.                                *)
CallRight(t, c) ==
  /\ DOMAIN c = {"op", "step", "hops", "result"}
  /\ c.result \in Results
  /\ c.result = "layout" => t.style \in {"page", "click"}
  /\ c.result = "document" => DocumentRight(t)
  /\ t.pc \in Over \/ (t.pc = "articles" /\ t.links = 0) => c.step = "none"

SitesInv ==
  /\ TaskRight(s1) /\ CallRight(s1, s2)
  /\ DOMAIN s3 = {"driver", "browser", "context", "page"}
  /\ s3.page => s2.step \in {"opened", "loaded"}
  /\ s1.pc = "closed" /\ ~s1.leaked => s3 = Sit!NoSession

\* The invariant gives the three promises.
LEMMA SitesPromises ==
  ASSUME SitesInv
  PROVE  Sit!NothingLeftOpen /\ Sit!FinalNeedsAnswer /\ Sit!OutcomeHolds
  <1>1. TaskBase(s1) /\ EndRight(s1)
    BY DEF SitesInv, TaskRight
  <1>2. Sit!NothingLeftOpen
    <2>1. s1.pc \in {"leaving", "closed"} => s2.step = "none"
      BY DEF SitesInv, CallRight, Over
    <2> QED
      BY <2>1 DEF SitesInv, Sit!NothingLeftOpen
  <1>3. Sit!FinalNeedsAnswer
    BY <1>1 DEF EndRight, FellBack, Sit!FinalNeedsAnswer
  <1>4. Sit!OutcomeHolds
    BY <1>1 DEF EndRight, DocumentRight, Sit!OutcomeHolds
  <1> QED
    BY <1>2, <1>3, <1>4

LEMMA SitesInit ==
  ASSUME Sit!Init
  PROVE  SitesInv
  <1>1. PICK style : s1 = [Sit!NoTask EXCEPT !.style = style, !.pc = "first"]
    BY DEF Sit!Init
  <1>2. /\ DOMAIN s1 = TaskFields /\ s1.style = style /\ s1.pc = "first"
        /\ s1.resolved = 0 /\ s1.failures = 0 /\ s1.trouble = FALSE /\ s1.outcome = "none"
    BY <1>1 DEF Sit!NoTask, TaskFields
  <1>3. TaskRight(s1)
    <2>1. TaskBase(s1)
      <3>1. s1.trouble \in BOOLEAN
        BY <1>2
      <3> QED
        BY <1>2, <3>1 DEF TaskBase
    <2>2. EndRight(s1) /\ OnTheWay(s1)
      BY <1>2 DEF EndRight, OnTheWay
    <2> QED
      BY <2>1, <2>2 DEF TaskRight
  <1>4. CallRight(s1, s2)
    BY <1>2 DEF Sit!Init, Sit!NoCall, CallRight, Results
  <1> QED
    BY <1>2, <1>3, <1>4 DEF Sit!Init, Sit!NoSession, SitesInv

(* A step of a call: it may return, or bring a document that passes; no page    *)
(* stays open behind it.                                                        *)
LEMMA CallStepKept ==
  ASSUME SitesInv, s2.step \notin {"none", "returned"},
         DOMAIN s2' = {"op", "step", "hops", "result"}, s2'.result \in Results,
         s2'.result = "layout" => s1.style \in {"page", "click"},
         s2'.result = "document" => DocumentRight(s1'),
         UNCHANGED s1 \/ \E d : s1' = [s1 EXCEPT !.document = d] /\ DocumentRight(s1'),
         DOMAIN s3' = {"driver", "browser", "context", "page"},
         s3'.page => s2'.step \in {"opened", "loaded"}
  PROVE  SitesInv'
  <1>1. /\ DOMAIN s1' = TaskFields
        /\ s1'.style = s1.style /\ s1'.pc = s1.pc /\ s1'.links = s1.links
        /\ s1'.resolved = s1.resolved /\ s1'.failures = s1.failures
        /\ s1'.trouble = s1.trouble /\ s1'.outcome = s1.outcome /\ s1'.leaked = s1.leaked
        /\ s1'.document = s1.document \/ DocumentRight(s1')
    BY DEF SitesInv, TaskRight, TaskBase, TaskFields
  <1>2. s1.pc \notin Over /\ ~(s1.pc = "articles" /\ s1.links = 0)
    BY DEF SitesInv, CallRight
  <1>3. TaskRight(s1')
    <2>1. s1.outcome = "none"
      BY <1>2 DEF SitesInv, TaskRight, OnTheWay
    <2> QED
      BY <1>1, <2>1 DEF SitesInv, TaskRight, TaskBase, EndRight, OnTheWay
  <1>4. CallRight(s1', s2')
    BY <1>1, <1>2 DEF CallRight
  <1> QED
    BY <1>1, <1>2, <1>3, <1>4 DEF SitesInv, Over

LEMMA ReturnKept ==
  ASSUME SitesInv, s2.step \notin {"none", "returned"}, NEW r \in Results \ {"document"},
         r = "layout" => s1.style \in {"page", "click"}, Sit!Return(r)
  PROVE  SitesInv'
  <1>1. /\ DOMAIN s2' = {"op", "step", "hops", "result"} /\ s2'.result = r
        /\ DOMAIN s3' = {"driver", "browser", "context", "page"} /\ s3'.page = FALSE
        /\ UNCHANGED s1
    BY DEF Sit!Return, SitesInv, CallRight
  <1> QED
    BY <1>1, CallStepKept

LEMMA ReadAnythingKept ==
  ASSUME SitesInv, s2.step \notin {"none", "returned"}, Sit!ReadAnything
  PROVE  SitesInv'
  <1>1. PICK size, bytes, type : Sit!Read(size, bytes, type)
    BY DEF Sit!ReadAnything
  <1>2. CASE ~Sit!Validated(size, bytes, type)
    BY <1>1, <1>2, ReturnKept DEF Sit!Read, Results
  <1>3. CASE Sit!Validated(size, bytes, type)
    <2>1. PICK d : d = [size |-> size, bytes |-> bytes, type |-> type]
      OBVIOUS
    <2>2. /\ s1' = [s1 EXCEPT !.document = d]
          /\ DOMAIN s2' = {"op", "step", "hops", "result"} /\ s2'.result = "document"
          /\ DOMAIN s3' = {"driver", "browser", "context", "page"} /\ s3'.page = FALSE
      BY <1>1, <1>3, <2>1 DEF Sit!Read, SitesInv, CallRight
    <2>3. s1'.document = d
      BY <2>2 DEF SitesInv, TaskRight, TaskBase, TaskFields
    <2>4. DocumentRight(s1')
      BY <1>3, <2>1, <2>3 DEF DocumentRight
    <2>5. s2'.result \in Results
      BY <2>2 DEF Results
    <2> QED
      BY <2>2, <2>4, <2>5, CallStepKept
  <1> QED
    BY <1>2, <1>3

LEMMA SessionKept ==
  ASSUME SitesInv,
         \/ Sit!StartBrowser \/ Sit!PlainGet \/ Sit!OpenPage \/ Sit!RenderGoto
         \/ Sit!RenderRead \/ Sit!RequestPage \/ Sit!Seed \/ Sit!RequestDocument
         \/ Sit!Hop \/ Sit!Click
  PROVE  SitesInv'
  <1>1. /\ DOMAIN s2 = {"op", "step", "hops", "result"} /\ s2.result \in Results
        /\ s2.result = "layout" => s1.style \in {"page", "click"}
        /\ s2.result = "document" => DocumentRight(s1)
        /\ DOMAIN s3 = {"driver", "browser", "context", "page"}
    BY DEF SitesInv, CallRight
  <1>2. s2.step \notin {"none", "returned"}
    BY DEF Sit!StartBrowser, Sit!PlainGet, Sit!OpenPage, Sit!RenderGoto, Sit!RenderRead,
           Sit!RequestPage, Sit!Seed, Sit!RequestDocument, Sit!Hop, Sit!Click
  <1>3. ASSUME UNCHANGED s1, DOMAIN s2' = DOMAIN s2, s2'.result = s2.result,
               DOMAIN s3' = DOMAIN s3, s3'.page => s2'.step \in {"opened", "loaded"}
        PROVE  SitesInv'
    BY <1>1, <1>2, <1>3, CallStepKept
  <1>4. CASE Sit!StartBrowser
    <2>1. CASE Sit!Return("retry")
      BY <1>2, <2>1, ReturnKept DEF Results
    <2>2. CASE /\ s3' = IF ~s3.driver THEN [s3 EXCEPT !.driver = TRUE]
                        ELSE IF ~s3.browser THEN [s3 EXCEPT !.browser = TRUE]
                        ELSE [s3 EXCEPT !.context = TRUE]
               /\ UNCHANGED <<s1, s2>>
      <3>1. DOMAIN s3' = DOMAIN s3 /\ s3'.page = s3.page
        BY <1>1, <2>2
      <3> QED
        BY <1>3, <2>2, <3>1 DEF SitesInv
    <2> QED
      BY <1>4, <2>1, <2>2 DEF Sit!StartBrowser
  <1>5. CASE Sit!PlainGet
    <2>1. PICK r \in {"page", "unreachable", "retry"} : Sit!Return(r)
      BY <1>5 DEF Sit!PlainGet
    <2> QED
      BY <1>2, <2>1, ReturnKept DEF Results
  <1>6. CASE Sit!OpenPage
    <2>1. CASE Sit!Return("retry")
      BY <1>2, <2>1, ReturnKept DEF Results
    <2>2. CASE /\ s3' = [s3 EXCEPT !.page = TRUE]
               /\ s2' = [s2 EXCEPT !.step = "opened"]
               /\ UNCHANGED s1
      BY <1>1, <1>3, <2>2
    <2> QED
      BY <1>6, <2>1, <2>2 DEF Sit!OpenPage
  <1>7. CASE Sit!RenderGoto
    <2>1. CASE Sit!Return("unreachable")
      BY <1>2, <2>1, ReturnKept DEF Results
    <2>2. CASE s2' = [s2 EXCEPT !.step = "loaded"] /\ UNCHANGED <<s1, s3>>
      BY <1>1, <1>3, <2>2
    <2> QED
      BY <1>7, <2>1, <2>2 DEF Sit!RenderGoto
  <1>8. CASE Sit!RenderRead
    <2>1. PICK r \in {"page", "retry", "layout"} :
            Sit!Return(r) /\ (r = "layout" => s1.style \in {"page", "click"})
      BY <1>8 DEF Sit!RenderRead
    <2> QED
      BY <1>2, <2>1, ReturnKept DEF Results
  <1>9. CASE Sit!RequestPage
    <2>1. PICK r \in {"unreachable", "page", "not_found", "rejected", "retry"} : Sit!Return(r)
      BY <1>9 DEF Sit!RequestPage, Sit!StatusClasses
    <2> QED
      BY <1>2, <2>1, ReturnKept DEF Results
  <1>10. CASE Sit!Seed
    <2>1. CASE \E r \in {"retry", "rejected"} : Sit!Return(r)
      BY <1>2, <2>1, ReturnKept DEF Results
    <2>2. CASE /\ s3' = [s3 EXCEPT !.page = FALSE]
               /\ s2' = [s2 EXCEPT !.step = "seeded"]
               /\ UNCHANGED s1
      BY <1>1, <1>3, <2>2
    <2> QED
      BY <1>10, <2>1, <2>2 DEF Sit!Seed
  <1>11. CASE Sit!RequestDocument
    <2>1. CASE \E s \in {"not_found", "rejected", "retry"} : Sit!Return(s)
      BY <1>2, <2>1, ReturnKept DEF Results
    <2> QED
      BY <1>2, <1>11, <2>1, ReadAnythingKept DEF Sit!RequestDocument
  <1>12. CASE Sit!Hop
    <2>1. CASE \E s \in {"not_found", "rejected", "retry"} : Sit!Return(s)
      BY <1>2, <2>1, ReturnKept DEF Results
    <2>2. CASE s2' = [s2 EXCEPT !.hops = s2.hops + 1] /\ UNCHANGED <<s1, s3>>
      <3>1. DOMAIN s2' = DOMAIN s2 /\ s2'.result = s2.result /\ s2'.step = s2.step
        BY <1>1, <2>2
      <3> QED
        BY <1>3, <2>2, <3>1 DEF SitesInv
    <2> QED
      BY <1>2, <1>12, <2>1, <2>2, ReadAnythingKept DEF Sit!Hop
  <1>13. CASE Sit!Click
    <2>1. CASE \E r \in {"retry", "rejected"} : Sit!Return(r)
      BY <1>2, <2>1, ReturnKept DEF Results
    <2> QED
      BY <1>2, <1>13, <2>1, ReadAnythingKept DEF Sit!Click
  <1> QED
    BY <1>4, <1>5, <1>6, <1>7, <1>8, <1>9, <1>10, <1>11, <1>12, <1>13

-----------------------------------------------------------------------------
(* The adapters' steps.                                                         *)

\* An adapter starts a call, goes on with its task, or ends it.
LEMMA CallsKept ==
  ASSUME SitesInv, NEW op, Sit!Calls(op), s1.pc \notin Over,
         s1.pc = "articles" => s1.links # 0
  PROVE  SitesInv'
  <1>1. /\ DOMAIN s2' = {"op", "step", "hops", "result"} /\ s2'.result = "none"
        /\ UNCHANGED <<s1, s3>> /\ s2.step = "none"
    BY DEF Sit!Calls, Sit!NoCall
  <1>2. CallRight(s1, s2)'
    BY <1>1 DEF CallRight, Results
  <1> QED
    BY <1>1, <1>2 DEF SitesInv, Over

LEMMA ContinueKept ==
  ASSUME SitesInv, s2.step \in {"none", "returned"}, NEW t, Sit!Continue(t),
         TaskRight(t), t.pc # "closed"
  PROVE  SitesInv'
  <1>1. s1' = t /\ s2' = Sit!NoCall /\ UNCHANGED s3 /\ ~s3.page
    BY DEF Sit!Continue, SitesInv
  <1>2. CallRight(t, s2')
    BY <1>1 DEF CallRight, Sit!NoCall, Results
  <1> QED
    BY <1>1, <1>2 DEF SitesInv

LEMMA EndsKept ==
  ASSUME SitesInv, s2.step \in {"none", "returned"}, NEW t, NEW o, Sit!Ends(t, o),
         TaskBase(t),
         o \in {"layout", "permanent"} => ~t.trouble \/ FellBack(t),
         o = "listed" => t.resolved > 0,
         o = "unreachable" => t.trouble /\ (t.style # "years" => t.resolved = 0),
         o = "document" => DocumentRight(t)
  PROVE  SitesInv'
  <1>1. PICK e : e = [t EXCEPT !.pc = "leaving", !.outcome = o]
    OBVIOUS
  <1>2. /\ DOMAIN e = TaskFields /\ e.pc = "leaving" /\ e.outcome = o
        /\ e.style = t.style /\ e.resolved = t.resolved /\ e.failures = t.failures
        /\ e.trouble = t.trouble /\ e.document = t.document
    BY <1>1 DEF TaskBase, TaskFields
  <1>3. TaskRight(e)
    BY <1>2 DEF TaskRight, TaskBase, EndRight, FellBack, DocumentRight, Over
  <1>4. Sit!Continue(e)
    BY <1>1 DEF Sit!Ends
  <1> QED
    BY <1>2, <1>3, <1>4, ContinueKept

\* A listing with nothing to read is a changed layout, and then nothing was skipped.
LEMMA ListedKept ==
  ASSUME SitesInv, s2.step \in {"none", "returned"}, NEW t, Sit!Listed(t),
         TaskBase(t), t.resolved = 0 => ~t.trouble \/ FellBack(t)
  PROVE  SitesInv'
  <1>1. PICK o : o = IF t.resolved = 0 THEN "layout" ELSE "listed"
    OBVIOUS
  <1>2. Sit!Ends(t, o)
    BY <1>1 DEF Sit!Listed
  <1>3. t.resolved \in Nat
    BY DEF TaskBase
  <1>4. o = "listed" => t.resolved > 0
    BY <1>1, <1>3
  <1> QED
    BY <1>1, <1>2, <1>4, EndsKept

\* A task that waits for its call's result is on its way.
LEMMA OnItsWay ==
  ASSUME SitesInv, s2.step = "returned"
  PROVE  TaskBase(s1) /\ s1.pc \notin Over /\ OnTheWay(s1)
  BY DEF SitesInv, TaskRight, CallRight

\* What noting a failed call changes of a task.
LEMMA TroubleIs ==
  ASSUME TaskBase(s1)
  PROVE  LET t == Sit!Trouble
         IN /\ TaskBase(t)
            /\ t.trouble <=> s1.trouble \/ s2.result \in {"unreachable", "retry"}
            /\ t.style = s1.style /\ t.pc = s1.pc /\ t.links = s1.links
            /\ t.resolved = s1.resolved /\ t.failures = s1.failures
            /\ t.document = s1.document /\ t.outcome = s1.outcome
  <1>1. PICK t : t = Sit!Trouble
    OBVIOUS
  <1>2. /\ DOMAIN t = TaskFields
        /\ t.trouble = (s1.trouble \/ s2.result \in {"unreachable", "retry"})
        /\ t.style = s1.style /\ t.pc = s1.pc /\ t.links = s1.links
        /\ t.resolved = s1.resolved /\ t.failures = s1.failures
        /\ t.document = s1.document /\ t.outcome = s1.outcome
    BY <1>1 DEF Sit!Trouble, TaskBase, TaskFields
  <1>3. TaskBase(t)
    BY <1>2 DEF TaskBase
  <1> QED
    BY <1>1, <1>2, <1>3

\* A listing ends with the error of a call that failed.
LEMMA RefusedKept ==
  ASSUME SitesInv, Sit!Refused, s1.style \in Sit!ListStyles,
         Sit!Answered("unreachable") => s1.pc # "articles"
  PROVE  SitesInv'
  <1>1. /\ s2.step = "returned" /\ s2.result \notin {"page", "document"}
        /\ Sit!Ends(Sit!Trouble, s2.result)
        /\ s2.result = "unreachable" => s1.pc # "articles"
    BY DEF Sit!Refused, Sit!Failed, Sit!Answered
  <1>2. TaskBase(s1) /\ s1.pc \notin Over /\ OnTheWay(s1)
    BY <1>1, OnItsWay
  <1>3. s2.result \in Results /\ (s2.result = "layout" => s1.style \in {"page", "click"})
    BY DEF SitesInv, CallRight
  <1>4. PICK t, o : t = Sit!Trouble /\ o = s2.result
    OBVIOUS
  <1>5. /\ TaskBase(t)
        /\ t.trouble <=> s1.trouble \/ o \in {"unreachable", "retry"}
        /\ t.style = s1.style /\ t.resolved = s1.resolved /\ t.failures = s1.failures
    BY <1>2, <1>4, TroubleIs
  <1>6. o \in {"layout", "permanent"} => ~t.trouble
    <2> SUFFICES ASSUME o = "layout"
                 PROVE  ~t.trouble
      BY <1>3, <1>4 DEF Results
    <2>1. s1.style \in {"page", "click"}
      BY <1>3, <1>4
    <2>2. ~(s1.failures > 0)
      BY <1>2, <2>1 DEF TaskBase, ArticleStyles
    <2>3. ~s1.trouble
      BY <1>2, <2>1, <2>2 DEF OnTheWay
    <2> QED
      BY <1>5, <2>3
  <1>7. o = "unreachable" => t.trouble /\ (t.style # "years" => t.resolved = 0)
    BY <1>1, <1>2, <1>4, <1>5 DEF OnTheWay
  <1>8. o \notin {"listed", "document"}
    BY <1>1, <1>3, <1>4 DEF Results
  <1>9. Sit!Ends(t, o)
    BY <1>1, <1>4
  <1> QED
    BY <1>1, <1>5, <1>6, <1>7, <1>8, <1>9, EndsKept

(* What a page yields: a task that changes its counts, without trouble of its   *)
(* own.                                                                         *)
LEMMA ListingKept ==
  ASSUME SitesInv, s2.step = "returned", NEW n \in Nat,
         s1.pc # "articles",
         s1.style \in {"feed", "page", "years"} \/ s1.style = "fallback"
  PROVE  /\ Sit!Listed([s1 EXCEPT !.resolved = n]) => SitesInv'
         /\ Sit!Listed([s1 EXCEPT !.resolved = @ + n]) => SitesInv'
  <1>1. TaskBase(s1) /\ s1.pc \notin Over /\ OnTheWay(s1)
    BY OnItsWay
  <1>2. s1.failures = 0 /\ (s1.trouble => s1.style = "fallback")
    <2>1. ~(s1.failures > 0) /\ s1.failures \in Nat
      BY <1>1 DEF TaskBase, ArticleStyles
    <2> QED
      BY <1>1, <2>1 DEF OnTheWay
  <1>3. ASSUME NEW m \in Nat, Sit!Listed([s1 EXCEPT !.resolved = m])
        PROVE  SitesInv'
    <2>1. PICK t : t = [s1 EXCEPT !.resolved = m]
      OBVIOUS
    <2>2. /\ DOMAIN t = TaskFields /\ t.resolved = m /\ t.style = s1.style
          /\ t.failures = s1.failures /\ t.trouble = s1.trouble
      BY <1>1, <2>1 DEF TaskBase, TaskFields
    <2>3. TaskBase(t) /\ (~t.trouble \/ FellBack(t))
      BY <1>1, <1>2, <1>3, <2>2 DEF TaskBase, FellBack
    <2>4. Sit!Listed(t)
      BY <1>3, <2>1
    <2> QED
      BY <2>3, <2>4, ListedKept
  <1>4. s1.resolved + n \in Nat
    BY <1>1 DEF TaskBase
  <1>5. PICK sum : sum = s1.resolved + n
    OBVIOUS
  <1>6. [s1 EXCEPT !.resolved = @ + n] = [s1 EXCEPT !.resolved = sum]
    BY <1>5
  <1> QED
    BY <1>3, <1>4, <1>5, <1>6

(* Each listing reads its page, or pages, and lists what it found; its page's   *)
(* links are opened one by one where they are articles.                         *)
LEMMA PagesKept ==
  ASSUME SitesInv,
         Sit!FeedPage \/ Sit!ListingPage \/ Sit!FallbackPage \/ Sit!YearsPage
  PROVE  SitesInv'
  <1>1. \A n \in Sit!Links : n \in Nat
    BY DEF Sit!Links
  <1>2. CASE Sit!FeedPage
    <2>1. s1.style = "feed" /\ s1.pc = "first" /\ s1.style \in Sit!ListStyles
      BY <1>2 DEF Sit!FeedPage, Sit!First, Sit!ListStyles
    <2>2. CASE Sit!Calls("get")
      BY <2>1, <2>2, CallsKept DEF Over
    <2>3. CASE Sit!Refused
      BY <2>1, <2>3, RefusedKept
    <2>4. CASE Sit!Answered("page") /\ Sit!Ends(s1, "layout")
      <3>1. s2.step = "returned"
        BY <2>4 DEF Sit!Answered
      <3>2. TaskBase(s1) /\ OnTheWay(s1)
        BY <3>1, OnItsWay
      <3>3. ~s1.trouble
        BY <2>1, <3>2 DEF OnTheWay, TaskBase, ArticleStyles
      <3> QED
        BY <2>4, <3>1, <3>2, <3>3, EndsKept
    <2>5. CASE Sit!Answered("page")
               /\ \E n \in Sit!Links : Sit!Listed([s1 EXCEPT !.resolved = n])
      BY <1>1, <2>1, <2>5, ListingKept DEF Sit!Answered
    <2> QED
      BY <1>2, <2>2, <2>3, <2>4, <2>5 DEF Sit!FeedPage
  <1>3. CASE Sit!ListingPage
    <2>1. s1.style = "page" /\ s1.pc = "first" /\ s1.style \in Sit!ListStyles
      BY <1>3 DEF Sit!ListingPage, Sit!First, Sit!ListStyles
    <2>2. CASE Sit!Calls("render")
      BY <2>1, <2>2, CallsKept DEF Over
    <2>3. CASE Sit!Refused
      BY <2>1, <2>3, RefusedKept
    <2>4. CASE Sit!Answered("page")
               /\ \E n \in Sit!Links : Sit!Listed([s1 EXCEPT !.resolved = n])
      BY <1>1, <2>1, <2>4, ListingKept DEF Sit!Answered
    <2> QED
      BY <1>3, <2>2, <2>3, <2>4 DEF Sit!ListingPage
  <1>4. CASE Sit!FallbackPage
    <2>1. s1.style = "fallback" /\ s1.style \in Sit!ListStyles
      BY <1>4 DEF Sit!FallbackPage, Sit!ListStyles
    <2>2. s2.step = "returned" => s1.pc # "articles"
      BY <2>1, OnItsWay DEF OnTheWay, ArticleStyles
    <2>3. CASE Sit!Calls(IF s1.pc = "first" THEN "render" ELSE "get")
               /\ s1.pc \in {"first", "plain"}
      BY <2>3, CallsKept DEF Over
    <2>4. CASE Sit!Answered("unreachable") /\ s1.pc = "first"
               /\ Sit!Continue([Sit!Trouble EXCEPT !.pc = "plain"])
      <3>1. s2.step = "returned" /\ TaskBase(s1) /\ OnTheWay(s1)
        BY <2>4, OnItsWay DEF Sit!Answered
      <3>2. PICK t : t = Sit!Trouble
        OBVIOUS
      <3>3. /\ TaskBase(t) /\ t.style = "fallback" /\ t.outcome = "none"
            /\ t.resolved = 0 /\ t.failures = 0
        BY <2>1, <2>4, <3>1, <3>2, TroubleIs DEF OnTheWay
      <3>4. PICK e : e = [t EXCEPT !.pc = "plain"]
        OBVIOUS
      <3>5. /\ DOMAIN e = TaskFields /\ e.pc = "plain" /\ e.style = "fallback"
            /\ e.outcome = "none" /\ e.resolved = 0 /\ e.failures = 0
            /\ e.trouble = t.trouble
        BY <3>3, <3>4 DEF TaskBase, TaskFields
      <3>6. TaskRight(e)
        BY <3>3, <3>5 DEF TaskRight, TaskBase, EndRight, OnTheWay, Over
      <3>7. Sit!Continue(e)
        BY <2>4, <3>2, <3>4
      <3> QED
        BY <3>1, <3>5, <3>6, <3>7, ContinueKept
    <2>5. CASE Sit!Refused
      BY <2>1, <2>2, <2>5, RefusedKept DEF Sit!Answered
    <2>6. CASE Sit!Answered("page")
               /\ \E n \in Sit!Links : Sit!Listed([s1 EXCEPT !.resolved = n])
      BY <1>1, <2>1, <2>2, <2>6, ListingKept DEF Sit!Answered
    <2> QED
      BY <1>4, <2>3, <2>4, <2>5, <2>6 DEF Sit!FallbackPage
  <1>5. CASE Sit!YearsPage
    <2>1. s1.style = "years" /\ s1.style \in Sit!ListStyles
      BY <1>5 DEF Sit!YearsPage, Sit!ListStyles
    <2>2. s2.step = "returned" => s1.pc # "articles"
      BY <2>1, OnItsWay DEF OnTheWay, ArticleStyles
    <2>3. CASE Sit!Calls("render") /\ s1.pc \in {"first", "year"}
      BY <2>3, CallsKept DEF Over
    <2>4. CASE Sit!Refused
      BY <2>1, <2>2, <2>4, RefusedKept DEF Sit!Answered
    <2>5. ASSUME s2.step = "returned", NEW years, NEW n \in Nat, NEW pc, pc = "year",
                 Sit!Continue([s1 EXCEPT !.pc = pc, !.pages = years, !.resolved = n])
          PROVE  SitesInv'
      <3>1. TaskBase(s1) /\ OnTheWay(s1)
        BY <2>5, OnItsWay
      <3>2. PICK t : t = [s1 EXCEPT !.pc = pc, !.pages = years, !.resolved = n]
        OBVIOUS
      <3>3. /\ DOMAIN t = TaskFields /\ t.pc = "year" /\ t.style = "years"
            /\ t.outcome = "none" /\ t.resolved = n /\ t.failures = s1.failures
            /\ t.trouble = s1.trouble
        BY <2>1, <2>5, <3>1, <3>2 DEF TaskBase, TaskFields, OnTheWay
      <3>4. TaskRight(t)
        BY <2>1, <3>1, <3>3 DEF TaskRight, TaskBase, EndRight, OnTheWay, Over
      <3>5. Sit!Continue(t)
        BY <2>5, <3>2
      <3> QED
        BY <2>5, <3>3, <3>4, <3>5, ContinueKept
    <2>6. CASE Sit!Answered("page") /\ s1.pc = "first"
               /\ \E n \in Sit!Links, years \in 0..2 :
                    /\ years = 2 => n = 0
                    /\ IF years = 0 THEN Sit!Listed([s1 EXCEPT !.resolved = n])
                       ELSE Sit!Continue([s1 EXCEPT !.pc = "year", !.pages = years,
                                                    !.resolved = n])
      <3>1. PICK n \in Sit!Links, years \in 0..2 :
              IF years = 0 THEN Sit!Listed([s1 EXCEPT !.resolved = n])
              ELSE Sit!Continue([s1 EXCEPT !.pc = "year", !.pages = years, !.resolved = n])
        BY <2>6
      <3>2. CASE years = 0
        BY <1>1, <2>1, <2>2, <2>6, <3>1, <3>2, ListingKept DEF Sit!Answered
      <3>3. CASE years # 0
        BY <1>1, <2>5, <2>6, <3>1, <3>3 DEF Sit!Answered
      <3> QED
        BY <3>2, <3>3
    <2>7. CASE Sit!Answered("page") /\ s1.pc = "year"
               /\ \E n \in Sit!Links :
                    IF s1.pages = 2
                    THEN Sit!Continue([s1 EXCEPT !.pages = 1, !.resolved = n])
                    ELSE Sit!Listed([s1 EXCEPT !.resolved = @ + n])
      <3>1. PICK n \in Sit!Links :
              IF s1.pages = 2 THEN Sit!Continue([s1 EXCEPT !.pages = 1, !.resolved = n])
              ELSE Sit!Listed([s1 EXCEPT !.resolved = @ + n])
        BY <2>7
      <3>2. CASE s1.pages # 2
        BY <1>1, <2>1, <2>2, <2>7, <3>1, <3>2, ListingKept DEF Sit!Answered
      <3>3. CASE s1.pages = 2
        <4>1. s2.step = "returned" /\ TaskBase(s1) /\ OnTheWay(s1)
          BY <2>7, OnItsWay DEF Sit!Answered
        <4>2. PICK t : t = [s1 EXCEPT !.pages = 1, !.resolved = n]
          OBVIOUS
        <4>3. /\ DOMAIN t = TaskFields /\ t.pc = "year" /\ t.style = "years"
              /\ t.outcome = "none" /\ t.resolved = n /\ t.failures = s1.failures
              /\ t.trouble = s1.trouble
          BY <2>1, <2>7, <4>1, <4>2 DEF TaskBase, TaskFields, OnTheWay
        <4>4. TaskRight(t)
          BY <1>1, <2>1, <4>1, <4>3 DEF TaskRight, TaskBase, EndRight, OnTheWay, Over
        <4>5. Sit!Continue(t)
          BY <3>1, <3>3, <4>2
        <4> QED
          BY <4>1, <4>3, <4>4, <4>5, ContinueKept
      <3> QED
        BY <3>2, <3>3
    <2> QED
      BY <1>5, <2>3, <2>4, <2>6, <2>7 DEF Sit!YearsPage
  <1> QED
    BY <1>2, <1>3, <1>4, <1>5

\* A task that goes on to its articles, or to a page before them.
LEMMA OnwardKept ==
  ASSUME SitesInv, s2.step \in {"none", "returned"}, NEW t, Sit!Continue(t), TaskBase(t),
         t.outcome = "none",
         t.pc \in {"articles", "walk", "widget"},
         t.pc = "articles" => t.style \in ArticleStyles,
         t.pc = "walk" => t.style = "walk",
         t.trouble => t.failures > 0 \/ t.style \in {"widget", "walk"},
         t.pc # "articles" => t.resolved = 0 /\ t.failures = 0
  PROVE  SitesInv'
  <1>1. TaskRight(t)
    BY DEF TaskRight, EndRight, OnTheWay, Over
  <1> QED
    BY <1>1, ContinueKept

LEMMA LinksKept ==
  ASSUME SitesInv,
         Sit!WidgetPage \/ Sit!ReportsPage \/ Sit!FirstOfWalk \/ Sit!WalkOn
  PROVE  SitesInv'
  <1>1. ASSUME s2.step = "returned", s1.pc # "articles", s1.style \in ArticleStyles,
               NEW n, NEW pc \in {"articles", "walk", "widget"}, pc = "walk" => s1.style = "walk",
               \/ Sit!Continue([s1 EXCEPT !.links = n, !.pc = pc])
               \/ Sit!Continue([s1 EXCEPT !.links = @ + n, !.pc = pc])
               \/ Sit!Continue([s1 EXCEPT !.pc = pc])
        PROVE  SitesInv'
    <2>1. TaskBase(s1) /\ OnTheWay(s1) /\ s1.resolved = 0 /\ s1.failures = 0
      BY <1>1, OnItsWay DEF OnTheWay, ArticleStyles
    <2>2. PICK m : m = s1.links + n
      OBVIOUS
    <2>3. PICK a, b, c : /\ a = [s1 EXCEPT !.links = n, !.pc = pc]
                         /\ b = [s1 EXCEPT !.links = m, !.pc = pc]
                         /\ c = [s1 EXCEPT !.pc = pc]
      OBVIOUS
    <2>4. \A t \in {a, b, c} : /\ DOMAIN t = TaskFields /\ t.pc = pc /\ t.style = s1.style
                               /\ t.outcome = s1.outcome /\ t.resolved = s1.resolved
                               /\ t.failures = s1.failures /\ t.trouble = s1.trouble
      BY <2>1, <2>3 DEF TaskBase, TaskFields
    <2>5. Sit!Continue(a) \/ Sit!Continue(b) \/ Sit!Continue(c)
      BY <1>1, <2>2, <2>3
    <2>6. PICK t \in {a, b, c} : Sit!Continue(t)
      BY <2>5
    <2>7. TaskBase(t)
      BY <2>1, <2>4 DEF TaskBase
    <2>8. t.outcome = "none" /\ (t.trouble => t.style \in {"widget", "walk"})
      BY <1>1, <2>1, <2>4 DEF OnTheWay, ArticleStyles
    <2> QED
      BY <1>1, <2>1, <2>4, <2>6, <2>7, <2>8, OnwardKept
  <1>2. ASSUME s2.step = "returned", s1.pc # "articles", s1.style \in {"widget", "walk"},
               NEW pc \in {"articles", "widget"},
               Sit!Continue([Sit!Trouble EXCEPT !.pc = pc])
        PROVE  SitesInv'
    <2>1. TaskBase(s1) /\ OnTheWay(s1) /\ s1.resolved = 0 /\ s1.failures = 0
      BY <1>2, OnItsWay DEF OnTheWay
    <2>2. PICK t : t = Sit!Trouble
      OBVIOUS
    <2>3. /\ TaskBase(t) /\ t.style = s1.style /\ t.outcome = "none"
          /\ t.resolved = 0 /\ t.failures = 0
      BY <2>1, <2>2, TroubleIs DEF OnTheWay
    <2>4. PICK e : e = [t EXCEPT !.pc = pc]
      OBVIOUS
    <2>5. /\ DOMAIN e = TaskFields /\ e.pc = pc /\ e.style = t.style
          /\ e.outcome = "none" /\ e.resolved = 0 /\ e.failures = 0
          /\ e.trouble = t.trouble
      BY <2>3, <2>4 DEF TaskBase, TaskFields
    <2>6. TaskBase(e)
      BY <2>3, <2>5 DEF TaskBase
    <2>7. Sit!Continue(e)
      BY <1>2, <2>2, <2>4
    <2> QED
      BY <1>2, <2>3, <2>5, <2>6, <2>7, OnwardKept DEF ArticleStyles
  <1>3. CASE Sit!WidgetPage
    <2>1. s1.style = "widget" /\ s1.style \in Sit!ListStyles
      BY <1>3 DEF Sit!WidgetPage, Sit!ListStyles
    <2>2. CASE Sit!Calls("render") /\ s1.pc \in {"first", "widget"}
      BY <2>2, CallsKept DEF Over
    <2>3. CASE Sit!Answered("unreachable") /\ s1.pc = "first"
               /\ Sit!Continue([Sit!Trouble EXCEPT !.pc = "widget"])
      BY <1>2, <2>1, <2>3 DEF Sit!Answered
    <2>4. CASE Sit!Refused /\ (Sit!Answered("unreachable") => s1.pc = "widget")
      BY <2>1, <2>4, RefusedKept
    <2>5. CASE Sit!Answered("page") /\ s1.pc = "first"
               /\ Sit!Continue([s1 EXCEPT !.pc = "widget"])
      BY <1>1, <2>1, <2>5 DEF Sit!Answered, ArticleStyles
    <2>6. CASE Sit!Answered("page") /\ s1.pc = "widget"
               /\ \E n \in Sit!Links : Sit!Continue([s1 EXCEPT !.links = n, !.pc = "articles"])
      BY <1>1, <2>1, <2>6 DEF Sit!Answered, ArticleStyles
    <2> QED
      BY <1>3, <2>2, <2>3, <2>4, <2>5, <2>6 DEF Sit!WidgetPage
  <1>4. CASE Sit!ReportsPage
    <2>1. s1.style = "single" /\ s1.pc = "first" /\ s1.style \in Sit!ListStyles
      BY <1>4 DEF Sit!ReportsPage, Sit!First, Sit!ListStyles
    <2>2. CASE Sit!Calls("render")
      BY <2>1, <2>2, CallsKept DEF Over
    <2>3. CASE Sit!Refused
      BY <2>1, <2>3, RefusedKept
    <2>4. CASE Sit!Answered("page")
               /\ \E n \in Sit!Links : Sit!Continue([s1 EXCEPT !.links = n, !.pc = "articles"])
      BY <1>1, <2>1, <2>4 DEF Sit!Answered, ArticleStyles
    <2> QED
      BY <1>4, <2>2, <2>3, <2>4 DEF Sit!ReportsPage
  <1>5. CASE Sit!FirstOfWalk
    <2>1. s1.style = "walk" /\ s1.pc = "first" /\ s1.style \in Sit!ListStyles
      BY <1>5 DEF Sit!FirstOfWalk, Sit!First, Sit!ListStyles
    <2>2. CASE Sit!Calls("render")
      BY <2>1, <2>2, CallsKept DEF Over
    <2>3. CASE Sit!Refused
      BY <2>1, <2>3, RefusedKept
    <2>4. CASE Sit!Answered("page")
               /\ \E n \in Sit!Links :
                    Sit!Continue([s1 EXCEPT !.links = n,
                                            !.pc = IF n = 0 THEN "articles" ELSE "walk"])
      <3>1. PICK n : Sit!Continue([s1 EXCEPT !.links = n,
                                             !.pc = IF n = 0 THEN "articles" ELSE "walk"])
        BY <2>4
      <3>2. PICK pc : pc = IF n = 0 THEN "articles" ELSE "walk"
        OBVIOUS
      <3>3. pc \in {"articles", "walk", "widget"}
        BY <3>2
      <3>4. Sit!Continue([s1 EXCEPT !.links = n, !.pc = pc])
        BY <3>1, <3>2
      <3> QED
        BY <1>1, <2>1, <2>4, <3>3, <3>4 DEF Sit!Answered, ArticleStyles
    <2> QED
      BY <1>5, <2>2, <2>3, <2>4 DEF Sit!FirstOfWalk
  <1>6. CASE Sit!WalkOn
    <2>1. s1.pc = "walk" /\ s1.style \in Sit!ListStyles
      BY <1>6 DEF Sit!WalkOn, Sit!Listing
    <2>2. s2.step = "returned" => s1.style = "walk"
      BY <2>1, OnItsWay DEF OnTheWay
    <2>3. CASE Sit!Calls("render")
      BY <2>1, <2>3, CallsKept DEF Over
    <2>4. CASE Sit!Answered("unreachable")
               /\ Sit!Continue([Sit!Trouble EXCEPT !.pc = "articles"])
      BY <1>2, <2>1, <2>2, <2>4 DEF Sit!Answered
    <2>5. CASE Sit!Refused /\ ~Sit!Answered("unreachable")
      BY <2>1, <2>5, RefusedKept
    <2>6. CASE Sit!Answered("page")
               /\ \E n \in Sit!Links :
                    Sit!Continue([s1 EXCEPT !.links = @ + n, !.pc = "articles"])
      BY <1>1, <2>1, <2>2, <2>6 DEF Sit!Answered, ArticleStyles
    <2> QED
      BY <1>6, <2>3, <2>4, <2>5, <2>6 DEF Sit!WalkOn
  <1> QED
    BY <1>3, <1>4, <1>5, <1>6

(* Articles: each is resolved or skipped, and one that is skipped is trouble.   *)
LEMMA ArticlesKept ==
  ASSUME SitesInv, Sit!Article \/ Sit!Resolved
  PROVE  SitesInv'
  <1>1. s1.pc = "articles" /\ s1.style \in Sit!ListStyles
    BY DEF Sit!Article, Sit!Resolved, Sit!Listing
  <1>2. TaskBase(s1) /\ OnTheWay(s1) /\ s1.style \in ArticleStyles
    BY <1>1 DEF SitesInv, TaskRight, OnTheWay, Over
  <1>3. CASE Sit!Article
    <2>0. s1.links # 0
      <3>1. s1.links > 0
        BY <1>3 DEF Sit!Article
      <3>2. s1.links = 0 => 0 > 0
        BY <3>1
      <3> QED
        BY <3>2
    <2>1. CASE Sit!Calls("render")
      BY <1>1, <2>0, <2>1, CallsKept DEF Over
    <2>2. ASSUME s2.step \in {"none", "returned"}, NEW n \in Nat, NEW links,
                 Sit!Continue([s1 EXCEPT !.links = links, !.resolved = n])
          PROVE  SitesInv'
      <3>1. PICK t : t = [s1 EXCEPT !.links = links, !.resolved = n]
        OBVIOUS
      <3>2. /\ DOMAIN t = TaskFields /\ t.pc = s1.pc /\ t.style = s1.style
            /\ t.outcome = s1.outcome /\ t.resolved = n
            /\ t.failures = s1.failures /\ t.trouble = s1.trouble
        BY <1>2, <3>1 DEF TaskBase, TaskFields
      <3>3. TaskBase(t) /\ t.outcome = "none"
            /\ (t.trouble => t.failures > 0 \/ t.style \in {"widget", "walk"})
        BY <1>2, <3>2 DEF TaskBase, OnTheWay, ArticleStyles
      <3>4. Sit!Continue(t)
        BY <2>2, <3>1
      <3> QED
        BY <1>1, <1>2, <2>2, <3>2, <3>3, <3>4, OnwardKept
    <2>3. CASE /\ s2.step = "none"
               /\ s1.style \in {"single", "walk"}
               /\ Sit!Continue([s1 EXCEPT !.links = @ - 1, !.resolved = @ + 1])
      <3>1. s1.resolved + 1 \in Nat
        BY <1>2 DEF TaskBase
      <3>2. PICK links, n : links = s1.links - 1 /\ n = s1.resolved + 1
        OBVIOUS
      <3>3. Sit!Continue([s1 EXCEPT !.links = links, !.resolved = n])
        BY <2>3, <3>2
      <3> QED
        BY <2>2, <2>3, <3>1, <3>2, <3>3
    <2>4. CASE /\ Sit!Answered("page")
               /\ \E found \in Sit!Found :
                    Sit!Continue([s1 EXCEPT !.links = @ - 1, !.resolved = @ + found])
      <3>1. PICK found \in Sit!Found :
              Sit!Continue([s1 EXCEPT !.links = @ - 1, !.resolved = @ + found])
        BY <2>4
      <3>2. s1.resolved + found \in Nat
        BY <1>2, <3>1 DEF TaskBase, Sit!Found
      <3>3. PICK links, n : links = s1.links - 1 /\ n = s1.resolved + found
        OBVIOUS
      <3>4. Sit!Continue([s1 EXCEPT !.links = links, !.resolved = n])
        BY <3>1, <3>3
      <3> QED
        BY <2>2, <2>4, <3>2, <3>3, <3>4 DEF Sit!Answered
    <2>5. CASE /\ Sit!Answered("unreachable")
               /\ Sit!Continue([Sit!Trouble EXCEPT !.links = @ - 1, !.failures = @ + 1])
      <3>1. s2.step = "returned" /\ s2.result = "unreachable"
        BY <2>5 DEF Sit!Answered
      <3>2. PICK t : t = Sit!Trouble
        OBVIOUS
      <3>3. /\ TaskBase(t) /\ t.style = s1.style /\ t.outcome = "none" /\ t.pc = s1.pc
            /\ t.resolved = s1.resolved /\ t.failures = s1.failures /\ t.trouble
        BY <1>2, <3>1, <3>2, TroubleIs DEF OnTheWay
      <3>4. PICK links, n : links = t.links - 1 /\ n = t.failures + 1
        OBVIOUS
      <3>5. n \in Nat /\ n > 0
        BY <3>3, <3>4 DEF TaskBase
      <3>6. PICK e : e = [t EXCEPT !.links = links, !.failures = n]
        OBVIOUS
      <3>7. /\ DOMAIN e = TaskFields /\ e.pc = t.pc /\ e.style = t.style
            /\ e.outcome = "none" /\ e.resolved = t.resolved /\ e.failures = n
            /\ e.trouble = t.trouble
        BY <3>3, <3>6 DEF TaskBase, TaskFields
      <3>8. TaskBase(e)
        BY <1>2, <3>3, <3>5, <3>7 DEF TaskBase
      <3>9. Sit!Continue(e)
        BY <2>5, <3>2, <3>4, <3>6
      <3> QED
        BY <1>1, <1>2, <3>1, <3>3, <3>5, <3>7, <3>8, <3>9, OnwardKept
    <2>6. CASE Sit!Refused /\ ~Sit!Answered("unreachable")
      BY <1>1, <2>6, RefusedKept
    <2> QED
      BY <1>3, <2>1, <2>3, <2>4, <2>5, <2>6 DEF Sit!Article
  <1>4. CASE Sit!Resolved
    <2>1. s2.step = "none" /\ s1.failures \in Nat
      BY <1>1, <1>4 DEF Sit!Resolved, SitesInv, CallRight, TaskRight, TaskBase
    <2>2. CASE s1.failures > 0 /\ s1.resolved = 0
      <3>1. Sit!Ends(s1, "unreachable")
        BY <1>4, <2>2 DEF Sit!Resolved
      <3>2. s1.trouble
        BY <1>2, <2>2 DEF TaskBase
      <3> QED
        BY <1>2, <2>1, <2>2, <3>1, <3>2, EndsKept
    <2>3. CASE ~(s1.failures > 0 /\ s1.resolved = 0)
      <3>1. Sit!Listed(s1)
        BY <1>4, <2>3 DEF Sit!Resolved
      <3>2. s1.resolved = 0 => ~s1.trouble \/ FellBack(s1)
        BY <1>2, <2>1, <2>3 DEF OnTheWay, FellBack
      <3> QED
        BY <1>2, <2>1, <3>1, <3>2, ListedKept
    <2> QED
      BY <2>2, <2>3
  <1> QED
    BY <1>3, <1>4

\* A fetch meets no trouble before it ends.
LEMMA FetchesKept ==
  ASSUME SitesInv,
         \/ Sit!DownloadFetch \/ Sit!ResourceFetch \/ Sit!SeededFetch \/ Sit!ArticleFetch
         \/ Sit!ClickFetch
  PROVE  SitesInv'
  <1>1. s1.style \in {"download", "resource", "seeded", "article", "click"}
    BY DEF Sit!DownloadFetch, Sit!ResourceFetch, Sit!SeededFetch, Sit!ArticleFetch,
           Sit!ClickFetch, Sit!First
  <1>2. s1.pc \notin Over =>
          /\ TaskBase(s1) /\ s1.outcome = "none" /\ ~s1.trouble /\ s1.pc # "articles"
          /\ s1.resolved = 0 /\ s1.failures = 0
    <2> SUFFICES ASSUME s1.pc \notin Over
                 PROVE  /\ TaskBase(s1) /\ s1.outcome = "none" /\ ~s1.trouble
                        /\ s1.pc # "articles"
                        /\ s1.resolved = 0 /\ s1.failures = 0
      OBVIOUS
    <2>1. TaskBase(s1) /\ OnTheWay(s1)
      BY DEF SitesInv, TaskRight
    <2> QED
      BY <1>1, <2>1 DEF OnTheWay, ArticleStyles
  <1>3. s2.step = "returned" => s1.pc \notin Over
    BY OnItsWay
  <1>4. ASSUME NEW op, Sit!Calls(op), s1.pc \in {"first", "second"}
        PROVE  SitesInv'
    BY <1>4, CallsKept DEF Over
  <1>5. ASSUME NEW codes, Sit!Fetched(codes)
        PROVE  SitesInv'
    <2>1. CASE Sit!Answered("document") /\ Sit!Ends(s1, "document")
      <3>1. s2.step = "returned" /\ DocumentRight(s1)
        BY <2>1 DEF Sit!Answered, SitesInv, CallRight
      <3> QED
        BY <1>2, <1>3, <2>1, <3>1, EndsKept
    <2>2. CASE Sit!Failed /\ Sit!Ends(Sit!Trouble, Sit!Raised(s2.result))
      <3>1. s2.step = "returned"
        BY <2>2 DEF Sit!Failed
      <3>2. PICK t, o : t = Sit!Trouble /\ o = Sit!Raised(s2.result)
        OBVIOUS
      <3>3. /\ TaskBase(t)
            /\ t.trouble <=> s1.trouble \/ s2.result \in {"unreachable", "retry"}
        BY <1>2, <1>3, <3>1, <3>2, TroubleIs
      <3>4. o \in {"permanent", "retry"} /\ (o = "permanent" => ~t.trouble)
        BY <1>2, <1>3, <3>1, <3>2, <3>3 DEF Sit!Raised
      <3>5. Sit!Ends(t, o)
        BY <2>2, <3>2
      <3> QED
        BY <3>1, <3>3, <3>4, <3>5, EndsKept
    <2> QED
      BY <1>5, <2>1, <2>2 DEF Sit!Fetched
  <1>6. ASSUME s1.pc \notin Over, s2.step \in {"none", "returned"}, Sit!Ends(s1, "permanent")
        PROVE  SitesInv'
    BY <1>2, <1>6, EndsKept
  <1>7. ASSUME s2.step = "returned", Sit!Continue([s1 EXCEPT !.pc = "second"])
        PROVE  SitesInv'
    <2>1. PICK t : t = [s1 EXCEPT !.pc = "second"]
      OBVIOUS
    <2>2. /\ DOMAIN t = TaskFields /\ t.pc = "second" /\ t.style = s1.style
          /\ t.outcome = s1.outcome /\ t.resolved = s1.resolved
          /\ t.failures = s1.failures /\ t.trouble = s1.trouble
      BY <1>2, <1>3, <1>7, <2>1 DEF TaskBase, TaskFields
    <2>3. TaskBase(t) /\ OnTheWay(t) /\ EndRight(t)
      BY <1>2, <1>3, <1>7, <2>2 DEF TaskBase, OnTheWay, EndRight
    <2>4. Sit!Continue(t)
      BY <1>7, <2>1
    <2> QED
      BY <1>7, <2>2, <2>3, <2>4, ContinueKept DEF TaskRight
  <1>8. CASE Sit!DownloadFetch
    BY <1>4, <1>5, <1>8 DEF Sit!DownloadFetch, Sit!First
  <1>9. CASE Sit!ResourceFetch
    <2>1. CASE s1.pc \in {"first", "second"} /\ Sit!Calls("download")
      BY <1>4, <2>1
    <2>2. CASE Sit!Fetched(IF s1.pc = "first" THEN {"not_found"} ELSE {})
      <3>1. PICK codes : codes = IF s1.pc = "first" THEN {"not_found"} ELSE {}
        OBVIOUS
      <3> QED
        BY <1>5, <2>2, <3>1
    <2>3. CASE /\ Sit!Answered("not_found") /\ s1.pc = "first"
               /\ \/ Sit!Continue([s1 EXCEPT !.pc = "second"])
                  \/ Sit!Ends(s1, "permanent")
      BY <1>3, <1>6, <1>7, <2>3 DEF Sit!Answered
    <2> QED
      BY <1>9, <2>1, <2>2, <2>3 DEF Sit!ResourceFetch
  <1>10. ASSUME s1.pc = "first", Sit!Refuses
         PROVE  SitesInv'
    BY <1>6, <1>10 DEF Sit!Refuses, Over
  <1>11. CASE Sit!SeededFetch
    BY <1>4, <1>5, <1>10, <1>11 DEF Sit!SeededFetch, Sit!First
  <1>12. CASE Sit!ArticleFetch
    BY <1>3, <1>4, <1>5, <1>6, <1>7, <1>10, <1>12 DEF Sit!ArticleFetch, Sit!Answered
  <1>13. CASE Sit!ClickFetch
    BY <1>3, <1>4, <1>5, <1>6, <1>7, <1>10, <1>13 DEF Sit!ClickFetch, Sit!Answered
  <1> QED
    BY <1>8, <1>9, <1>11, <1>12, <1>13

(* Closing leaves nothing open, unless closing the browser fails, which hides   *)
(* what the task came to.                                                       *)
LEMMA CloseKept ==
  ASSUME SitesInv, Sit!Close
  PROVE  SitesInv'
  <1>1. s1.pc = "leaving" /\ UNCHANGED s2 /\ TaskRight(s1) /\ DOMAIN s1 = TaskFields
    BY DEF Sit!Close, SitesInv, TaskRight, TaskBase
  <1>2. s2.step = "none" /\ ~s3.page
    BY <1>1 DEF SitesInv, CallRight, Over
  <1>3. CASE s3' = Sit!NoSession /\ s1' = [s1 EXCEPT !.pc = "closed"]
    <2>1. /\ DOMAIN s1' = TaskFields /\ s1'.pc = "closed" /\ s1'.style = s1.style
          /\ s1'.outcome = s1.outcome /\ s1'.resolved = s1.resolved
          /\ s1'.failures = s1.failures /\ s1'.trouble = s1.trouble
          /\ s1'.document = s1.document
      BY <1>1, <1>3 DEF TaskFields
    <2>2. TaskRight(s1')
      BY <1>1, <2>1 DEF TaskRight, TaskBase, EndRight, FellBack, DocumentRight, Over
    <2>3. CallRight(s1', s2')
      BY <1>1, <1>2, <2>1 DEF SitesInv, CallRight, DocumentRight
    <2>4. DOMAIN s3' = {"driver", "browser", "context", "page"} /\ ~s3'.page
      BY <1>3 DEF Sit!NoSession
    <2> QED
      BY <1>3, <2>2, <2>3, <2>4 DEF SitesInv, Sit!NoSession
  <1>4. CASE /\ s1' = [s1 EXCEPT !.pc = "closed", !.outcome = "retry", !.leaked = TRUE]
             /\ UNCHANGED s3
    <2>1. /\ DOMAIN s1' = TaskFields /\ s1'.pc = "closed" /\ s1'.style = s1.style
          /\ s1'.outcome = "retry" /\ s1'.resolved = s1.resolved
          /\ s1'.failures = s1.failures /\ s1'.trouble = s1.trouble
          /\ s1'.document = s1.document /\ s1'.leaked
      BY <1>1, <1>4 DEF TaskFields
    <2>2. TaskRight(s1')
      BY <1>1, <2>1 DEF TaskRight, TaskBase, EndRight, Over
    <2>3. CallRight(s1', s2')
      BY <1>1, <1>2, <2>1 DEF SitesInv, CallRight, DocumentRight
    <2> QED
      BY <1>2, <1>4, <2>1, <2>2, <2>3 DEF SitesInv
  <1> QED
    BY <1>3, <1>4 DEF Sit!Close

LEMMA SitesStep ==
  ASSUME SitesInv, Sit!Next
  PROVE  SitesInv'
  BY SessionKept, PagesKept, LinksKept, ArticlesKept, FetchesKept, CloseKept DEF Sit!Next

-----------------------------------------------------------------------------
(* Generation: s1 is the provider and s2 the generation.                        *)

GenerationFields ==
  {"kind", "parts", "length", "budget", "pc", "cut", "refused", "attempts", "repairing",
   "escaped", "repairs", "answer", "values", "evidence", "asks", "outcome"}

(* Every answer that was asked for is paid with a repair, until the last one. A *)
(* prompt that was refused has text left in it, and fits before it is asked     *)
(* again.                                                                       *)
Counted(j) ==
  /\ j.asks \in Nat /\ j.repairs \in Nat
  /\ j.pc # "done" => j.asks + j.repairs = RepairAttempts
  /\ j.asks <= 1 + RepairAttempts

Sized(j) ==
  /\ j.length \in 0..MaxText /\ j.budget \in 0..MaxText
  /\ j.cut \in Nat /\ j.escaped \subseteq 1..MaxText

GenerationRight(j) ==
  /\ DOMAIN j = GenerationFields
  /\ Counted(j) /\ Sized(j)
  /\ j.pc = "shorten" => j.refused /\ j.cut > 0
  /\ j.pc = "ask" /\ j.refused => Gen!PromptOf(j, j.cut) <= s1.limit /\ j.cut > 0
  /\ j.evidence \subseteq {"quoted"}
  /\ j.pc # "done" => j.outcome = "none"
  /\ j.outcome = "generated" => j.values = j.parts /\ s1.on

GenerationInv ==
  /\ s1.limit \in Nat /\ s1.limit >= Instructions
  /\ GenerationRight(s2)

LEMMA GenerationPromises ==
  ASSUME GenerationInv
  PROVE  Gen!PromptFits /\ Gen!ValueHolds
  BY DEF GenerationInv, GenerationRight, Counted, Gen!PromptFits, Gen!ValueHolds, Gen!Prompt

\* The length of a prompt; without text it is that of the instructions.
LEMMA PromptIs ==
  ASSUME NEW j, Sized(j), NEW n \in Nat
  PROVE  /\ Gen!PromptOf(j, n) \in Nat
         /\ Gen!PromptOf(j, 0) = Instructions
  <1> DEFINE E(m) == {c \in j.escaped : c <= m}
  <1>1. IsFiniteSet(1..MaxText)
    BY BoundsAssumption, FS_Interval
  <1>2. IsFiniteSet(E(n)) /\ E(n) \subseteq 1..MaxText
    <2>1. E(n) \subseteq 1..MaxText
      BY DEF Sized
    <2> HIDE DEF E
    <2> QED
      BY <1>1, <2>1, FS_Subset
  <1>3. Cardinality(E(n)) \in Nat
    <2> HIDE DEF E
    <2> QED
      BY <1>2, FS_CardinalityType
  <1>4. Cardinality(E(0)) = 0
    <2>1. E(0) = {}
      BY BoundsAssumption DEF Sized
    <2> QED
      BY <2>1, FS_EmptySet
  <1>5. Gen!SummaryRepair(j, n) = Cardinality(E(n)) /\ Gen!SummaryRepair(j, 0) = Cardinality(E(0))
    BY DEF Gen!SummaryRepair, Gen!Cardinality, Cardinality
  <1> HIDE DEF E
  <1>6. PICK more, none : more = Gen!SummaryRepair(j, n) /\ none = Gen!SummaryRepair(j, 0)
    OBVIOUS
  <1>7. more \in Nat /\ none = 0
    BY <1>3, <1>4, <1>5, <1>6
  <1>8. /\ Gen!PromptOf(j, n) = Instructions + n + (IF j.repairing THEN more ELSE 0)
        /\ Gen!PromptOf(j, 0) = Instructions + 0 + (IF j.repairing THEN none ELSE 0)
    BY <1>6 DEF Gen!PromptOf
  <1> QED
    BY <1>7, <1>8, BoundsAssumption

\* A generation that starts to ask.
LEMMA AskingRight ==
  ASSUME NEW j, DOMAIN j = GenerationFields,
         j.asks \in Nat, j.repairs \in Nat, j.asks + j.repairs = RepairAttempts,
         j.length \in 0..MaxText, j.budget \in 0..MaxText, j.escaped \subseteq 1..MaxText,
         j.evidence \subseteq {"quoted"}, j.outcome = "none",
         NEW length \in 0..MaxText, NEW budget \in 0..MaxText
  PROVE  GenerationRight(Gen!Asking(j, length, budget))
  <1>1. PICK a : a = Gen!Asking(j, length, budget)
    OBVIOUS
  <1>2. /\ DOMAIN a = GenerationFields
        /\ a.pc = "ask" /\ a.cut = Gen!Min2(length, budget) /\ a.refused = FALSE
        /\ a.asks = j.asks /\ a.repairs = j.repairs
        /\ a.length = j.length /\ a.budget = j.budget /\ a.escaped = j.escaped
        /\ a.evidence = j.evidence /\ a.outcome = j.outcome
    BY <1>1 DEF Gen!Asking, GenerationFields
  <1>3. Gen!Min2(length, budget) \in Nat
    BY BoundsAssumption DEF Gen!Min2
  <1>4. j.asks <= 1 + RepairAttempts
    BY BoundsAssumption
  <1> QED
    BY <1>1, <1>2, <1>3, <1>4 DEF GenerationRight, Counted, Sized

LEMMA GenerationInit ==
  ASSUME Gen!Init
  PROVE  GenerationInv
  <1>1. s1.limit \in Nat /\ s1.limit >= Instructions
    <2>1. s1.limit \in {Instructions, Instructions + 2, Instructions + MaxText}
      BY DEF Gen!Init
    <2> QED
      BY <2>1, BoundsAssumption
  <1>2. PICK kind \in Gen!Kinds, length \in 1..MaxText, budget \in 1..MaxText :
          \E parts \in kind.parts : s2 = Gen!Asking([kind |-> kind, parts |-> parts, length |-> length,
                           budget |-> budget, pc |-> "ask", cut |-> 0, refused |-> FALSE,
                           attempts |-> 0, repairing |-> FALSE, escaped |-> {},
                           repairs |-> RepairAttempts, answer |-> "none", values |-> 0,
                           evidence |-> {}, asks |-> 0, outcome |-> "none"], length, budget)
    BY DEF Gen!Init
  <1>a. PICK parts \in kind.parts :
          s2 = Gen!Asking([kind |-> kind, parts |-> parts, length |-> length,
                           budget |-> budget, pc |-> "ask", cut |-> 0, refused |-> FALSE,
                           attempts |-> 0, repairing |-> FALSE, escaped |-> {},
                           repairs |-> RepairAttempts, answer |-> "none", values |-> 0,
                           evidence |-> {}, asks |-> 0, outcome |-> "none"], length, budget)
    BY <1>2
  <1>3. PICK j : j = [kind |-> kind, parts |-> parts, length |-> length,
                      budget |-> budget, pc |-> "ask", cut |-> 0, refused |-> FALSE,
                      attempts |-> 0, repairing |-> FALSE, escaped |-> {},
                      repairs |-> RepairAttempts, answer |-> "none", values |-> 0,
                      evidence |-> {}, asks |-> 0, outcome |-> "none"]
    OBVIOUS
  <1>4. /\ DOMAIN j = GenerationFields
        /\ j.asks = 0 /\ j.repairs = RepairAttempts /\ j.length = length /\ j.budget = budget
        /\ j.escaped = {} /\ j.evidence = {} /\ j.outcome = "none"
    BY <1>3 DEF GenerationFields
  <1>5. length \in 0..MaxText /\ budget \in 0..MaxText
    BY BoundsAssumption
  <1>6. GenerationRight(Gen!Asking(j, length, budget))
    BY <1>4, <1>5, BoundsAssumption, AskingRight
  <1> QED
    BY <1>1, <1>a, <1>3, <1>6 DEF GenerationInv

\* A generation that ends without a value.
LEMMA EndedRight ==
  ASSUME GenerationInv, NEW outcome, outcome # "generated", Gen!Ends(outcome)
  PROVE  GenerationInv'
  <1>1. PICK j : j = [s2 EXCEPT !.pc = "done", !.outcome = outcome]
    OBVIOUS
  <1>2. s2' = j /\ UNCHANGED s1
    BY <1>1 DEF Gen!Ends, Gen!Becomes
  <1>3. /\ DOMAIN j = DOMAIN s2 /\ j.pc = "done" /\ j.outcome = outcome
        /\ j.asks = s2.asks /\ j.repairs = s2.repairs /\ j.length = s2.length
        /\ j.budget = s2.budget /\ j.cut = s2.cut /\ j.escaped = s2.escaped
        /\ j.evidence = s2.evidence
    BY <1>1 DEF GenerationInv, GenerationRight, GenerationFields
  <1> QED
    BY <1>2, <1>3 DEF GenerationInv, GenerationRight, Counted, Sized

\* A refused prompt is cut until it fits, and never to nothing.
LEMMA ShortenKept ==
  ASSUME GenerationInv, Gen!Refused \/ Gen!Shorten
  PROVE  GenerationInv'
  <1>1. /\ DOMAIN s2 = GenerationFields /\ Counted(s2) /\ Sized(s2)
        /\ s2.evidence \subseteq {"quoted"}
        /\ s1.limit \in Nat /\ s1.limit >= Instructions
    BY DEF GenerationInv, GenerationRight
  <1>2. Gen!Prompt(s2.cut) \in Nat /\ Gen!PromptOf(s2, 0) = Instructions
    BY <1>1, PromptIs DEF Sized, Gen!Prompt
  <1>3. CASE Gen!Refused
    <2>1. CASE s2.refused
      BY <1>3, <2>1, EndedRight DEF Gen!Refused
    <2>2. CASE ~s2.refused
      <3>1. PICK j : j = [s2 EXCEPT !.pc = "shorten", !.refused = TRUE]
        OBVIOUS
      <3>2. s2' = j /\ UNCHANGED s1 /\ s2.pc = "ask" /\ Gen!Prompt(s2.cut) > s1.limit
        BY <1>3, <2>2, <3>1 DEF Gen!Refused, Gen!Becomes
      <3>3. /\ DOMAIN j = DOMAIN s2 /\ j.pc = "shorten" /\ j.refused = TRUE
            /\ j.outcome = s2.outcome
            /\ j.asks = s2.asks /\ j.repairs = s2.repairs /\ j.length = s2.length
            /\ j.budget = s2.budget /\ j.cut = s2.cut /\ j.escaped = s2.escaped
            /\ j.evidence = s2.evidence
        BY <1>1, <3>1 DEF GenerationFields
      <3>4. s2.cut > 0
        <4>1. s2.cut # 0
          <5> SUFFICES ASSUME s2.cut = 0
                       PROVE  FALSE
            OBVIOUS
          <5>1. Gen!Prompt(s2.cut) = Instructions
            BY <1>2 DEF Gen!Prompt
          <5> QED
            BY <1>1, <3>2, <5>1, BoundsAssumption
        <4> QED
          BY <1>1, <4>1 DEF Sized
      <3> QED
        BY <1>1, <3>2, <3>3, <3>4 DEF GenerationInv, GenerationRight, Counted, Sized
    <2> QED
      BY <2>1, <2>2
  <1>4. CASE Gen!Shorten
    <2>1. s2.pc = "shorten" /\ s2.refused /\ s2.cut > 0 /\ s2.outcome = "none"
      BY <1>4 DEF Gen!Shorten, GenerationInv, GenerationRight
    <2>2. CASE Gen!Prompt(s2.cut) <= s1.limit
      <3>1. PICK j : j = [s2 EXCEPT !.pc = "ask", !.attempts = 0]
        OBVIOUS
      <3>2. s2' = j /\ UNCHANGED s1
        BY <1>4, <2>2, <3>1 DEF Gen!Shorten, Gen!Becomes
      <3>3. /\ DOMAIN j = DOMAIN s2 /\ j.pc = "ask" /\ j.refused = s2.refused
            /\ j.outcome = s2.outcome /\ j.repairing = s2.repairing
            /\ j.asks = s2.asks /\ j.repairs = s2.repairs /\ j.length = s2.length
            /\ j.budget = s2.budget /\ j.cut = s2.cut /\ j.escaped = s2.escaped
            /\ j.evidence = s2.evidence
        BY <1>1, <3>1 DEF GenerationFields
      <3>4. Gen!PromptOf(j, j.cut) = Gen!Prompt(s2.cut)
        BY <3>3 DEF Gen!PromptOf, Gen!Prompt, Gen!SummaryRepair
      <3> QED
        BY <1>1, <2>1, <2>2, <3>2, <3>3, <3>4 DEF GenerationInv, GenerationRight, Counted, Sized
    <2>3. CASE ~(Gen!Prompt(s2.cut) <= s1.limit)
      <3>1. PICK over : over = Gen!Prompt(s2.cut) - s1.limit
        OBVIOUS
      <3>2. over \in Nat
        BY <1>1, <1>2, <2>3, <3>1
      <3>3. CASE s2.cut <= over
        BY <1>4, <2>3, <3>1, <3>3, EndedRight DEF Gen!Shorten
      <3>4. CASE ~(s2.cut <= over)
        <4>1. PICK j : j = [s2 EXCEPT !.cut = s2.cut - over]
          OBVIOUS
        <4>2. s2' = j /\ UNCHANGED s1
          BY <1>4, <2>3, <3>1, <3>4, <4>1 DEF Gen!Shorten, Gen!Becomes
        <4>3. /\ DOMAIN j = DOMAIN s2 /\ j.pc = s2.pc /\ j.refused = s2.refused
              /\ j.outcome = s2.outcome /\ j.cut = s2.cut - over
              /\ j.asks = s2.asks /\ j.repairs = s2.repairs /\ j.length = s2.length
              /\ j.budget = s2.budget /\ j.escaped = s2.escaped
              /\ j.evidence = s2.evidence
          BY <1>1, <4>1 DEF GenerationFields
        <4>4. s2.cut - over \in Nat /\ s2.cut - over > 0
          BY <1>1, <3>2, <3>4 DEF Sized
        <4> QED
          BY <1>1, <2>1, <4>2, <4>3, <4>4 DEF GenerationInv, GenerationRight, Counted, Sized
      <3> QED
        BY <3>3, <3>4
    <2> QED
      BY <2>2, <2>3
  <1> QED
    BY <1>3, <1>4

LEMMA CallKept ==
  ASSUME GenerationInv,
         Gen!SwitchedOff \/ Gen!RateLimited \/ Gen!CallFails \/ Gen!NoText
  PROVE  GenerationInv'
  <1>1. CASE Gen!SwitchedOff \/ Gen!CallFails \/ Gen!NoText
    BY <1>1, EndedRight DEF Gen!SwitchedOff, Gen!CallFails, Gen!NoText
  <1>2. CASE Gen!RateLimited
    <2>1. CASE s2.attempts + 1 = GroqAttempts
      BY <1>2, <2>1, EndedRight DEF Gen!RateLimited
    <2>2. CASE s2.attempts + 1 # GroqAttempts
      <3>1. PICK j : j = [s2 EXCEPT !.attempts = s2.attempts + 1]
        OBVIOUS
      <3>2. s2' = j /\ UNCHANGED s1
        BY <1>2, <2>2, <3>1 DEF Gen!RateLimited, Gen!Becomes
      <3>3. /\ DOMAIN j = DOMAIN s2 /\ j.pc = s2.pc /\ j.refused = s2.refused
            /\ j.outcome = s2.outcome /\ j.repairing = s2.repairing
            /\ j.asks = s2.asks /\ j.repairs = s2.repairs /\ j.length = s2.length
            /\ j.budget = s2.budget /\ j.cut = s2.cut /\ j.escaped = s2.escaped
            /\ j.evidence = s2.evidence /\ j.values = s2.values /\ j.parts = s2.parts
        BY <3>1 DEF GenerationInv, GenerationRight, GenerationFields
      <3>4. Gen!PromptOf(j, j.cut) = Gen!PromptOf(s2, s2.cut)
        BY <3>3 DEF Gen!PromptOf, Gen!SummaryRepair
      <3> QED
        BY <3>2, <3>3, <3>4 DEF GenerationInv, GenerationRight, Counted, Sized
    <2> QED
      BY <2>1, <2>2
  <1> QED
    BY <1>1, <1>2

\* What parsing leaves of the evidence an answer cites.
LEMMA EvidenceQuoted ==
  ASSUME NEW kind, NEW a \in Gen!Answers
  PROVE  Gen!Parse(kind, a) \subseteq {"quoted"}
  BY DEF Gen!Answers, Gen!Parse, Gen!ValidatedClaimEvidence, Gen!NormaliseClaimEvidence

LEMMA ParsedKept ==
  ASSUME GenerationInv, Gen!Parsed
  PROVE  GenerationInv'
  <1>1. PICK e : /\ e \subseteq {"quoted"}
                 /\ LET got == [s2 EXCEPT !.asks = @ + 1, !.values = @ + 1,
                                          !.evidence = @ \cup e]
                    IN IF got.values = s2.parts
                       THEN Gen!Becomes([got EXCEPT !.pc = "done", !.outcome = "generated"])
                       ELSE Gen!Becomes(Gen!Asking([got EXCEPT !.repairing = FALSE,
                              !.repairs = RepairAttempts, !.asks = 0], s2.length, s2.budget))
    BY EvidenceQuoted DEF Gen!Parsed
  <1>2. s2.pc = "ask" /\ s1.on
    BY DEF Gen!Parsed, Gen!Asked
  <1>3. PICK got : got = [s2 EXCEPT !.asks = s2.asks + 1, !.values = s2.values + 1,
                                    !.evidence = s2.evidence \cup e]
    OBVIOUS
  <1>4. IF got.values = s2.parts
        THEN Gen!Becomes([got EXCEPT !.pc = "done", !.outcome = "generated"])
        ELSE Gen!Becomes(Gen!Asking([got EXCEPT !.repairing = FALSE,
                 !.repairs = RepairAttempts, !.asks = 0], s2.length, s2.budget))
    BY <1>1, <1>3
  <1>5. DOMAIN s2 = GenerationFields /\ Counted(s2) /\ Sized(s2) /\ s2.outcome = "none"
        /\ s2.evidence \subseteq {"quoted"}
    BY <1>2 DEF GenerationInv, GenerationRight
  <1>6. /\ DOMAIN got = GenerationFields
        /\ got.asks = s2.asks + 1 /\ got.evidence = s2.evidence \cup e
        /\ got.repairs = s2.repairs /\ got.outcome = s2.outcome /\ got.parts = s2.parts
        /\ got.length = s2.length /\ got.budget = s2.budget
        /\ got.cut = s2.cut /\ got.escaped = s2.escaped
    BY <1>3, <1>5 DEF GenerationFields
  <1>7. CASE got.values = s2.parts
    <2>1. PICK j : j = [got EXCEPT !.pc = "done", !.outcome = "generated"]
      OBVIOUS
    <2>2. s2' = j /\ UNCHANGED s1
      BY <1>4, <1>7, <2>1 DEF Gen!Becomes
    <2>3. /\ DOMAIN j = GenerationFields /\ j.pc = "done" /\ j.values = got.values
          /\ j.asks = got.asks /\ j.evidence = got.evidence /\ j.repairs = got.repairs
          /\ j.parts = got.parts /\ j.length = got.length /\ j.budget = got.budget
          /\ j.cut = got.cut /\ j.escaped = got.escaped
      BY <1>6, <2>1 DEF GenerationFields
    <2>4. j.asks \in Nat /\ j.asks <= 1 + RepairAttempts
      BY <1>2, <1>5, <1>6, <2>3, BoundsAssumption DEF Counted
    <2> QED
      BY <1>1, <1>2, <1>5, <1>6, <1>7, <2>2, <2>3, <2>4
         DEF GenerationInv, GenerationRight, Counted, Sized
  <1>8. CASE got.values # s2.parts
    <2>1. PICK j : j = [got EXCEPT !.repairing = FALSE, !.repairs = RepairAttempts, !.asks = 0]
      OBVIOUS
    <2>2. s2' = Gen!Asking(j, s2.length, s2.budget) /\ UNCHANGED s1
      BY <1>4, <1>8, <2>1 DEF Gen!Becomes
    <2>3. /\ DOMAIN j = GenerationFields /\ j.asks = 0 /\ j.repairs = RepairAttempts
          /\ j.evidence = got.evidence /\ j.outcome = got.outcome
          /\ j.length = got.length /\ j.budget = got.budget /\ j.escaped = got.escaped
      BY <1>6, <2>1 DEF GenerationFields
    <2>4. PICK length, budget : length = s2.length /\ budget = s2.budget
      OBVIOUS
    <2>5. GenerationRight(Gen!Asking(j, length, budget))
      BY <1>1, <1>5, <1>6, <2>3, <2>4, BoundsAssumption, AskingRight DEF Sized
    <2>6. PICK next : next = Gen!Asking(j, length, budget)
      OBVIOUS
    <2>7. GenerationRight(next) /\ s2' = next
      BY <2>2, <2>4, <2>5, <2>6
    <2> QED
      BY <2>2, <2>7 DEF GenerationInv, GenerationRight
  <1> QED
    BY <1>7, <1>8

LEMMA MalformedKept ==
  ASSUME GenerationInv, Gen!Malformed
  PROVE  GenerationInv'
  <1>1. s2.pc = "ask"
    BY DEF Gen!Malformed, Gen!Asked
  <1>2. DOMAIN s2 = GenerationFields /\ Counted(s2) /\ Sized(s2) /\ s2.outcome = "none"
        /\ s2.evidence \subseteq {"quoted"}
    BY <1>1 DEF GenerationInv, GenerationRight
  <1>3. CASE ~s2.kind.repaired \/ s2.repairs = 0
    BY <1>3, EndedRight DEF Gen!Malformed
  <1>4. CASE s2.kind.repaired /\ s2.repairs # 0
    <2>1. PICK asked : asked = [s2 EXCEPT !.asks = s2.asks + 1, !.repairs = s2.repairs - 1]
      OBVIOUS
    <2>a. PICK length \in 0..MaxText :
            \E escaped \in SUBSET (1..length) :
              Gen!Becomes(Gen!Asking([asked EXCEPT !.repairing = TRUE, !.escaped = escaped],
                                     length, MaxText))
      BY <1>4, <2>1 DEF Gen!Malformed
    <2>2. PICK escaped \in SUBSET (1..length) :
            Gen!Becomes(Gen!Asking([asked EXCEPT !.repairing = TRUE, !.escaped = escaped],
                                   length, MaxText))
      BY <2>a
    <2>3. PICK j : j = [asked EXCEPT !.repairing = TRUE, !.escaped = escaped]
      OBVIOUS
    <2>4. /\ DOMAIN asked = GenerationFields
          /\ asked.asks = s2.asks + 1 /\ asked.repairs = s2.repairs - 1
          /\ asked.evidence = s2.evidence /\ asked.outcome = s2.outcome
          /\ asked.length = s2.length /\ asked.budget = s2.budget
      BY <1>2, <2>1 DEF GenerationFields
    <2>5. /\ DOMAIN j = GenerationFields
          /\ j.asks = s2.asks + 1 /\ j.repairs = s2.repairs - 1
          /\ j.evidence = s2.evidence /\ j.outcome = s2.outcome
          /\ j.length = s2.length /\ j.budget = s2.budget /\ j.escaped = escaped
      BY <2>3, <2>4 DEF GenerationFields
    <2>6. /\ s2.asks + 1 \in Nat /\ s2.repairs - 1 \in Nat
          /\ (s2.asks + 1) + (s2.repairs - 1) = RepairAttempts
      BY <1>1, <1>2, <1>4, BoundsAssumption DEF Counted
    <2>7. escaped \subseteq 1..MaxText /\ MaxText \in 0..MaxText
      BY BoundsAssumption
    <2>8. GenerationRight(Gen!Asking(j, length, MaxText))
      BY <1>2, <2>5, <2>6, <2>7, AskingRight DEF Sized
    <2>9. PICK next : next = Gen!Asking(j, length, MaxText)
      OBVIOUS
    <2>10. s2' = next /\ UNCHANGED s1
      BY <2>2, <2>3, <2>9 DEF Gen!Becomes
    <2> QED
      BY <2>8, <2>9, <2>10 DEF GenerationInv, GenerationRight
  <1> QED
    BY <1>3, <1>4

LEMMA GenerationStep ==
  ASSUME GenerationInv, Gen!Next
  PROVE  GenerationInv'
  BY ShortenKept, CallKept, ParsedKept, MalformedKept DEF Gen!Next

-----------------------------------------------------------------------------
(* Summaries: s2 and s3 are the two stores of a summary, s5 the transactions    *)
(* that record one, s6 a reader and s7 the summary recorded last. A line is one *)
(* paragraph.                                                                   *)

Fields == {"lines", "classified", "evidence", "model"}

SummaryRecord(s) == s = [f \in Fields |-> s[f]]

(* Each line is under its own key, and lines that are not empty have one that a *)
(* card can show.                                                               *)
LinesRight(lines) ==
  /\ lines = [k \in DOMAIN lines |-> lines[k]]
  /\ DOMAIN lines \subseteq Sum!LineKeys
  /\ \A k \in DOMAIN lines : \E by : lines[k] = <<<<by, k>>>>
  /\ DOMAIN lines # {} => "about" \in DOMAIN lines \/ "summary" \in DOMAIN lines

\* A summary that was recorded, and what the two stores keep of it.
SummaryRight(s) ==
  /\ SummaryRecord(s) /\ LinesRight(s.lines)
  /\ DOMAIN s.lines # {} /\ s.model \in Recorders

MetadataOf(s) == [s EXCEPT !.model = "none"]
RowOf(s) == [text |-> Sum!JoinedText(s.lines), model |-> s.model]

RecorderRight(r) ==
  /\ r.pc \in {"record", "updated", "upserted"} => SummaryRight(r.summary)
  /\ r.pc \in {"updated", "upserted"} => r.metadata = MetadataOf(r.summary)
  /\ r.pc = "upserted" => r.row = RowOf(r.summary)

\* What either store may hold: an older version kept lines of no known recorder.
MetadataRight(meta) == SummaryRecord(meta) /\ LinesRight(meta.lines)
RowRight(row) == \E lines : LinesRight(lines) /\ row.text = Sum!JoinedText(lines)

\* A reader whose two queries no recording came between has read both stores.
ReaderRight ==
  /\ s6.pc \in {"idle", "read", "shown"}
  /\ s6.pc = "read" => MetadataRight(s6.metadata) /\ (~s6.torn => s6.metadata = s2)
  /\ s6.pc = "shown" => \E meta, row : /\ MetadataRight(meta) /\ RowRight(row)
                                       /\ s6.seen = Sum!Read(meta, row)
                                       /\ ~s6.torn => meta = s2 /\ row = s3
  /\ DOMAIN s6 = {"pc", "metadata", "torn", "seen"}

SummaryInv ==
  /\ MetadataRight(s2) /\ RowRight(s3)
  /\ s7 # Sum!NoSummary => /\ SummaryRight(s7)
                           /\ s2 = MetadataOf(s7) /\ s3 = RowOf(s7)
  /\ s5 = [r \in Recorders |-> s5[r]]
  /\ \A r \in Recorders : RecorderRight(s5[r])
                          /\ DOMAIN s5[r] = {"pc", "summary", "metadata", "row"}
  /\ ReaderRight

\* Records with the fields of a summary are equal when their fields are.
LEMMA SameSummary ==
  ASSUME NEW a, NEW b, SummaryRecord(a), SummaryRecord(b),
         a.lines = b.lines, a.classified = b.classified, a.evidence = b.evidence,
         a.model = b.model
  PROVE  a = b
  <1>1. \A f \in Fields : a[f] = b[f]
    BY DEF Fields
  <1> QED
    BY <1>1 DEF SummaryRecord

LEMMA MetadataIs ==
  ASSUME NEW s, SummaryRecord(s)
  PROVE  LET m == MetadataOf(s)
         IN /\ SummaryRecord(m)
            /\ m.lines = s.lines /\ m.classified = s.classified /\ m.evidence = s.evidence
  BY DEF SummaryRecord, MetadataOf, Fields

(* What joining does: the lines there are, in their order. Four paragraphs can  *)
(* only come from all four lines.                                               *)
LEMMA JoinedIs ==
  ASSUME NEW lines, LinesRight(lines)
  PROVE  LET text == Sum!JoinedText(lines)
         IN /\ Len(text) = 4 => /\ DOMAIN lines = Sum!LineKeys
                                /\ \A i \in 1..4 : <<text[i]>> = lines[Sum!TextLines[i]]
            /\ DOMAIN lines # {} => text # <<>>
  <1> DEFINE Part(k) == IF k \in DOMAIN lines THEN lines[k] ELSE <<>>
             T == {lines[k][1] : k \in DOMAIN lines}
  <1>1. ASSUME NEW k \in Sum!LineKeys
        PROVE  /\ Part(k) \in Seq(T)
               /\ k \in DOMAIN lines => Len(Part(k)) = 1 /\ Part(k) = <<Part(k)[1]>>
               /\ k \notin DOMAIN lines => Len(Part(k)) = 0
    <2>1. CASE k \in DOMAIN lines
      <3>1. PICK by : lines[k] = <<<<by, k>>>>
        BY <2>1 DEF LinesRight
      <3>2. <<by, k>> \in T
        BY <2>1, <3>1
      <3> QED
        BY <2>1, <3>1, <3>2
    <2>2. CASE k \notin DOMAIN lines
      BY <2>2
    <2> QED
      BY <2>1, <2>2
  <1>2. Sum!LineKeys = {"summary", "about", "changed", "matters"}
    BY DEF Sum!LineKeys, Sum!TextLines
  <1>3. PICK a, b, c, d : /\ a = Part("summary") /\ b = Part("about")
                          /\ c = Part("changed") /\ d = Part("matters")
    OBVIOUS
  <1>4. /\ a \in Seq(T) /\ b \in Seq(T) /\ c \in Seq(T) /\ d \in Seq(T)
        /\ Len(a) = IF "summary" \in DOMAIN lines THEN 1 ELSE 0
        /\ Len(b) = IF "about" \in DOMAIN lines THEN 1 ELSE 0
        /\ Len(c) = IF "changed" \in DOMAIN lines THEN 1 ELSE 0
        /\ Len(d) = IF "matters" \in DOMAIN lines THEN 1 ELSE 0
    BY <1>1, <1>2, <1>3
  <1>5. Sum!JoinedText(lines) = ((a \o b) \o c) \o d
    BY <1>3 DEF Sum!JoinedText
  <1> HIDE DEF T
  <1>6. PICK ab : ab = a \o b
    OBVIOUS
  <1>7. /\ ab \in Seq(T) /\ Len(ab) = Len(a) + Len(b)
        /\ \A i \in 1 .. Len(a) + Len(b) : ab[i] = IF i <= Len(a) THEN a[i] ELSE b[i - Len(a)]
    BY <1>4, <1>6, ConcatProperties
  <1>8. PICK abc : abc = ab \o c
    OBVIOUS
  <1>9. /\ abc \in Seq(T) /\ Len(abc) = Len(ab) + Len(c)
        /\ \A i \in 1 .. Len(ab) + Len(c) : abc[i] = IF i <= Len(ab) THEN ab[i] ELSE c[i - Len(ab)]
    BY <1>4, <1>7, <1>8, ConcatProperties
  <1>10. PICK text : text = abc \o d
    OBVIOUS
  <1>11. /\ text \in Seq(T) /\ Len(text) = Len(abc) + Len(d)
         /\ \A i \in 1 .. Len(abc) + Len(d) :
              text[i] = IF i <= Len(abc) THEN abc[i] ELSE d[i - Len(abc)]
    <2>1. abc \in Seq(T) /\ d \in Seq(T)
      BY <1>4, <1>9
    <2> QED
      BY <2>1, <1>10, ConcatProperties
  <1>12. Sum!JoinedText(lines) = text
    BY <1>5, <1>6, <1>8, <1>10
  <1>13. ASSUME Len(text) = 4
         PROVE  /\ DOMAIN lines = Sum!LineKeys
                /\ \A i \in 1..4 : <<text[i]>> = lines[Sum!TextLines[i]]
    <2>1. Len(a) = 1 /\ Len(b) = 1 /\ Len(c) = 1 /\ Len(d) = 1
      <3>1. /\ Len(a) \in {0, 1} /\ Len(b) \in {0, 1} /\ Len(c) \in {0, 1} /\ Len(d) \in {0, 1}
            /\ Len(ab) = Len(a) + Len(b) /\ Len(abc) = Len(ab) + Len(c)
            /\ Len(abc) + Len(d) = 4
        BY <1>4, <1>7, <1>9, <1>11, <1>13
      <3>2. \A i, j, k, l \in {0, 1} :
              ((i + j) + k) + l = 4 => i = 1 /\ j = 1 /\ k = 1 /\ l = 1
        OBVIOUS
      <3>3. ((Len(a) + Len(b)) + Len(c)) + Len(d) = 4
        BY <3>1
      <3> QED
        BY <3>1, <3>2, <3>3
    <2>2. DOMAIN lines = Sum!LineKeys
      <3>1. /\ "summary" \in DOMAIN lines /\ "about" \in DOMAIN lines
            /\ "changed" \in DOMAIN lines /\ "matters" \in DOMAIN lines
        BY <1>1, <1>2, <1>3, <2>1
      <3> QED
        BY <1>2, <3>1 DEF LinesRight
    <2>3. Len(ab) = 2 /\ Len(abc) = 3
      BY <1>7, <1>9, <2>1
    <2>4. text[1] = a[1] /\ text[2] = b[1] /\ text[3] = c[1] /\ text[4] = d[1]
      <3>1. ab[1] = a[1] /\ ab[2] = b[1]
        BY <1>7, <2>1
      <3>2. abc[1] = ab[1] /\ abc[2] = ab[2] /\ abc[3] = c[1]
        BY <1>9, <2>1, <2>3
      <3>3. text[1] = abc[1] /\ text[2] = abc[2] /\ text[3] = abc[3] /\ text[4] = d[1]
        BY <1>11, <2>1, <2>3
      <3> QED
        BY <3>1, <3>2, <3>3
    <2>5. /\ lines["summary"] = <<a[1]>> /\ lines["about"] = <<b[1]>>
          /\ lines["changed"] = <<c[1]>> /\ lines["matters"] = <<d[1]>>
      BY <1>1, <1>2, <1>3, <2>2
    <2>6. /\ Sum!TextLines[1] = "summary" /\ Sum!TextLines[2] = "about"
          /\ Sum!TextLines[3] = "changed" /\ Sum!TextLines[4] = "matters"
      BY DEF Sum!TextLines
    <2>7. ASSUME NEW i \in 1..4
          PROVE  <<text[i]>> = lines[Sum!TextLines[i]]
      <3>1. i = 1 \/ i = 2 \/ i = 3 \/ i = 4
        OBVIOUS
      <3> QED
        BY <2>4, <2>5, <2>6, <3>1
    <2> QED
      BY <2>2, <2>7
  <1>14. ASSUME DOMAIN lines # {}
         PROVE  text # <<>>
    <2>1. Len(a) = 1 \/ Len(b) = 1
      BY <1>4, <1>14 DEF LinesRight
    <2>2. Len(a) \in Nat /\ Len(b) \in Nat /\ Len(c) \in Nat /\ Len(d) \in Nat
      BY <1>4
    <2>3. Len(text) # 0
      BY <1>7, <1>9, <1>11, <2>1, <2>2
    <2> QED
      BY <2>3
  <1> QED
    BY <1>12, <1>13, <1>14

\* The lines of joined text are under their own keys.
LEMMA ParagraphsRight ==
  ASSUME NEW lines, LinesRight(lines)
  PROVE  LET found == Sum!ParagraphLines(Sum!JoinedText(lines))
         IN LinesRight(found) /\ DOMAIN found \subseteq DOMAIN lines
  <1>1. PICK text : text = Sum!JoinedText(lines)
    OBVIOUS
  <1>2. PICK found : found = Sum!ParagraphLines(text)
    OBVIOUS
  <1>3. Sum!LineKeys = {"summary", "about", "changed", "matters"}
    BY DEF Sum!LineKeys, Sum!TextLines
  <1>4. CASE Len(text) = 4
    <2>1. /\ DOMAIN lines = Sum!LineKeys
          /\ \A i \in 1..4 : <<text[i]>> = lines[Sum!TextLines[i]]
      BY <1>1, <1>4, JoinedIs
    <2>2. found = [k \in Sum!LineKeys |-> <<text[CHOOSE i \in 1..4 : Sum!TextLines[i] = k]>>]
      BY <1>2, <1>4 DEF Sum!ParagraphLines
    <2>3. ASSUME NEW k \in Sum!LineKeys
          PROVE  found[k] = lines[k]
      <3>1. PICK i : i = CHOOSE n \in 1..4 : Sum!TextLines[n] = k
        OBVIOUS
      <3>2. i \in 1..4 /\ Sum!TextLines[i] = k
        BY <3>1 DEF Sum!LineKeys
      <3> QED
        BY <2>1, <2>2, <3>1, <3>2
    <2> QED
      BY <1>1, <1>2, <2>1, <2>2, <2>3 DEF LinesRight
  <1>5. CASE Len(text) # 4
    <2>1. found = Sum!NoLines
      BY <1>2, <1>5 DEF Sum!ParagraphLines
    <2> QED
      BY <1>1, <1>2, <2>1 DEF LinesRight, Sum!NoLines
  <1> QED
    BY <1>4, <1>5

\* Lines laid over others.
LEMMA OverRight ==
  ASSUME NEW first, NEW second, LinesRight(first), LinesRight(second)
  PROVE  /\ LinesRight(Sum!Over(first, second))
         /\ DOMAIN second \subseteq DOMAIN first => Sum!Over(first, second) = first
         /\ Sum!Over(first, second) = Sum!NoLines <=> DOMAIN first = {} /\ DOMAIN second = {}
  <1>1. PICK over : over = Sum!Over(first, second)
    OBVIOUS
  <1>2. /\ over = [k \in DOMAIN first \cup DOMAIN second |->
                     IF k \in DOMAIN first THEN first[k] ELSE second[k]]
        /\ DOMAIN over = DOMAIN first \cup DOMAIN second
    BY <1>1 DEF Sum!Over
  <1>3. LinesRight(over)
    BY <1>2 DEF LinesRight
  <1>4. DOMAIN second \subseteq DOMAIN first => over = first
    BY <1>2 DEF LinesRight
  <1>5. over = Sum!NoLines <=> DOMAIN first = {} /\ DOMAIN second = {}
    BY <1>2 DEF Sum!NoLines
  <1> QED
    BY <1>1, <1>3, <1>4, <1>5

(* What reading shows: lines under their own keys, or the whole joined text     *)
(* under the first key.                                                         *)
LEMMA ReadIs ==
  ASSUME NEW meta, NEW row, MetadataRight(meta), RowRight(row)
  PROVE  LET seen == Sum!Read(meta, row)
         IN DOMAIN seen.lines # {"summary"} => LinesRight(seen.lines)
  <1>1. PICK joined : LinesRight(joined) /\ row.text = Sum!JoinedText(joined)
    BY DEF RowRight
  <1>2. PICK found : found = Sum!ParagraphLines(row.text) /\ LinesRight(found)
    BY <1>1, ParagraphsRight
  <1>3. PICK lines : lines = Sum!Over(meta.lines, found) /\ LinesRight(lines)
    BY <1>2, OverRight DEF MetadataRight
  <1>4. PICK filled : filled = IF lines = Sum!NoLines /\ row.text # <<>>
                               THEN [k \in {"summary"} |-> row.text] ELSE lines
    OBVIOUS
  <1>5. PICK seen : seen = Sum!Read(meta, row)
    OBVIOUS
  <1>6. seen = IF filled = Sum!NoLines THEN Sum!NoSummary
               ELSE [meta EXCEPT !.lines = filled, !.model = row.model]
    BY <1>2, <1>3, <1>4, <1>5 DEF Sum!Read
  <1>7. seen.lines = filled
    <2>1. "lines" \in DOMAIN meta
      BY DEF MetadataRight, SummaryRecord, Fields
    <2> QED
      BY <1>6, <2>1 DEF Sum!NoSummary
  <1>8. DOMAIN filled # {"summary"} => filled = lines
    BY <1>4
  <1> QED
    BY <1>3, <1>5, <1>7, <1>8

\* Both stores of a recorded summary give that summary back.
LEMMA ReadsBack ==
  ASSUME NEW s, SummaryRight(s)
  PROVE  Sum!Read(MetadataOf(s), RowOf(s)) = s
  <1>1. PICK meta : meta = MetadataOf(s)
    OBVIOUS
  <1>2. /\ SummaryRecord(meta) /\ meta.lines = s.lines
        /\ meta.classified = s.classified /\ meta.evidence = s.evidence
    BY <1>1, MetadataIs DEF SummaryRight
  <1>3. PICK row : row = RowOf(s)
    OBVIOUS
  <1>4. row.text = Sum!JoinedText(s.lines) /\ row.model = s.model
    BY <1>3 DEF RowOf
  <1>5. PICK found : /\ found = Sum!ParagraphLines(row.text)
                     /\ LinesRight(found) /\ DOMAIN found \subseteq DOMAIN s.lines
    BY <1>4, ParagraphsRight DEF SummaryRight
  <1>6. Sum!Over(meta.lines, found) = s.lines
    BY <1>2, <1>5, OverRight DEF SummaryRight
  <1>7. s.lines # Sum!NoLines
    BY DEF SummaryRight, Sum!NoLines
  <1>8. Sum!Read(meta, row) = [meta EXCEPT !.lines = s.lines, !.model = s.model]
    BY <1>4, <1>5, <1>6, <1>7 DEF Sum!Read
  <1>9. PICK back : back = [meta EXCEPT !.lines = s.lines, !.model = s.model]
    OBVIOUS
  <1>10. /\ SummaryRecord(back)
         /\ back.lines = s.lines /\ back.classified = s.classified
         /\ back.evidence = s.evidence /\ back.model = s.model
    BY <1>2, <1>9 DEF SummaryRecord, Fields
  <1>11. back = s
    BY <1>10, SameSummary DEF SummaryRight
  <1> QED
    BY <1>1, <1>3, <1>8, <1>9, <1>11

\* Whatever a model answers, its summary is right once it is recorded.
LEMMA AnswerRight ==
  ASSUME NEW r \in Recorders, NEW s \in Sum!FromAnswer(r)
  PROVE  /\ SummaryRecord(s) /\ s.model = r
         /\ s.lines # Sum!NoLines => SummaryRight(s)
  <1>1. PICK has \in {Sum!LineKeys, {}} \cup {Sum!LineKeys \ {k} : k \in Sum!LineKeys},
             c \in BOOLEAN, e \in BOOLEAN :
          s = [lines |-> [k \in has |-> Sum!Line(r, k, k = "none")], classified |-> c,
               evidence |-> e, model |-> r]
    BY DEF Sum!FromAnswer
  <1>2. SummaryRecord(s) /\ s.model = r
    BY <1>1 DEF SummaryRecord, Fields
  <1>3. Sum!LineKeys = {"summary", "about", "changed", "matters"}
    BY DEF Sum!LineKeys, Sum!TextLines
  <1>4. s.lines = [k \in has |-> <<<<r, k>>>>]
    BY <1>1, <1>3 DEF Sum!Line
  <1>5. LinesRight(s.lines) /\ DOMAIN s.lines = has
    BY <1>1, <1>3, <1>4 DEF LinesRight
  <1>6. has = {} => s.lines = Sum!NoLines
    BY <1>4 DEF Sum!NoLines
  <1> QED
    BY <1>2, <1>5, <1>6 DEF SummaryRight

LEMMA SummaryInit ==
  ASSUME Sum!Init
  PROVE  SummaryInv
  <1>1. MetadataRight(s2)
    BY DEF Sum!Init, MetadataRight, SummaryRecord, LinesRight, Fields, Sum!NoSummary, Sum!NoLines
  <1>2. RowRight(s3)
    <2>1. PICK text \in {<<>>, Sum!Line("old", "summary", FALSE),
                         Sum!JoinedText([k \in Sum!LineKeys |-> Sum!Line("old", k, FALSE)])} :
            s3 = [text |-> text, model |-> IF text = <<>> THEN "none" ELSE "old"]
      BY DEF Sum!Init
    <2>2. s3.text = text
      BY <2>1
    <2>3. CASE text = <<>>
      <3>1. PICK none : none = Sum!NoLines
        OBVIOUS
      <3>2. LinesRight(none) /\ Sum!JoinedText(none) = <<>>
        BY <3>1 DEF LinesRight, Sum!NoLines, Sum!JoinedText
      <3> QED
        BY <2>2, <2>3, <3>2 DEF RowRight
    <2>4. CASE text = Sum!Line("old", "summary", FALSE)
      <3>1. PICK one : one = [k \in {"summary"} |-> <<<<"old", k>>>>]
        OBVIOUS
      <3>2. LinesRight(one)
        BY <3>1 DEF LinesRight, Sum!LineKeys, Sum!TextLines
      <3>3. Sum!JoinedText(one) = <<<<"old", "summary">>>>
        BY <3>1 DEF Sum!JoinedText
      <3> QED
        BY <2>2, <2>4, <3>2, <3>3 DEF RowRight, Sum!Line
    <2>5. CASE text = Sum!JoinedText([k \in Sum!LineKeys |-> Sum!Line("old", k, FALSE)])
      <3>1. PICK four : four = [k \in Sum!LineKeys |-> <<<<"old", k>>>>]
        OBVIOUS
      <3>2. LinesRight(four)
        BY <3>1 DEF LinesRight, Sum!LineKeys, Sum!TextLines
      <3>3. text = Sum!JoinedText(four)
        BY <2>5, <3>1 DEF Sum!Line
      <3> QED
        BY <2>2, <3>2, <3>3 DEF RowRight
    <2> QED
      BY <2>1, <2>3, <2>4, <2>5
  <1>3. s5 = [r \in Recorders |-> s5[r]]
        /\ \A r \in Recorders : RecorderRight(s5[r])
                                /\ DOMAIN s5[r] = {"pc", "summary", "metadata", "row"}
    BY DEF Sum!Init, RecorderRight
  <1>4. ReaderRight
    BY DEF Sum!Init, ReaderRight
  <1> QED
    BY <1>1, <1>2, <1>3, <1>4 DEF Sum!Init, SummaryInv

\* The invariant gives the two promises.
LEMMA SummaryPromises ==
  ASSUME SummaryInv
  PROVE  Sum!ReadBack /\ Sum!NoLineMisplaced
  <1>1. s7 # Sum!NoSummary => Sum!Read(s2, s3) = s7 /\ s3.text = Sum!JoinedText(s7.lines)
    BY ReadsBack DEF SummaryInv, RowOf
  <1>2. Sum!ReadBack
    BY <1>1 DEF Sum!ReadBack
  <1>3. Sum!NoLineMisplaced
    <2> SUFFICES ASSUME s6.pc = "shown", DOMAIN s6.seen.lines # {"summary"}
                 PROVE  /\ \A k \in DOMAIN s6.seen.lines :
                             \A i \in 1..Len(s6.seen.lines[k]) : s6.seen.lines[k][i][2] = k
                        /\ s6.seen.lines # Sum!NoLines => Sum!Brief(s6.seen) # <<>>
                        /\ ~s6.torn /\ s7 # Sum!NoSummary => s6.seen.model \in Recorders
      BY DEF Sum!NoLineMisplaced
    <2>1. PICK meta, row : /\ MetadataRight(meta) /\ RowRight(row)
                           /\ s6.seen = Sum!Read(meta, row)
                           /\ ~s6.torn => meta = s2 /\ row = s3
      BY DEF SummaryInv, ReaderRight
    <2>2. LinesRight(s6.seen.lines)
      BY <2>1, ReadIs
    <2>3. PICK lines : lines = s6.seen.lines
      OBVIOUS
    <2>4. ASSUME NEW k \in DOMAIN lines, NEW i \in 1..Len(lines[k])
          PROVE  lines[k][i][2] = k
      <3>1. PICK by : lines[k] = <<<<by, k>>>>
        BY <2>2, <2>3 DEF LinesRight
      <3> QED
        BY <3>1
    <2>5. lines # Sum!NoLines => Sum!Brief(s6.seen) # <<>>
      <3> SUFFICES ASSUME lines # Sum!NoLines
                   PROVE  Sum!Brief(s6.seen) # <<>>
        OBVIOUS
      <3>1. DOMAIN lines # {}
        BY <2>2, <2>3 DEF LinesRight, Sum!NoLines
      <3>2. \A k \in DOMAIN lines : lines[k] # <<>>
        BY <2>2, <2>3 DEF LinesRight
      <3>3. "about" \in DOMAIN lines \/ "summary" \in DOMAIN lines
        BY <2>2, <2>3, <3>1 DEF LinesRight
      <3> QED
        BY <2>3, <3>2, <3>3 DEF Sum!Brief
    <2>6. ~s6.torn /\ s7 # Sum!NoSummary => s6.seen.model \in Recorders
      BY <1>1, <2>1 DEF SummaryInv, SummaryRight
    <2> QED
      BY <2>3, <2>4, <2>5, <2>6
  <1> QED
    BY <1>2, <1>3

\* A step of one recorder that commits nothing.
LEMMA RecorderKept ==
  ASSUME SummaryInv, NEW r \in Recorders, NEW rec,
         s5' = [s5 EXCEPT ![r] = rec], UNCHANGED <<s2, s3, s6, s7>>,
         RecorderRight(rec), DOMAIN rec = {"pc", "summary", "metadata", "row"}
  PROVE  SummaryInv'
  <1>1. s5' = [x \in Recorders |-> s5'[x]]
        /\ \A x \in Recorders : s5'[x] = rec \/ s5'[x] = s5[x]
    BY DEF SummaryInv
  <1>2. \A x \in Recorders : RecorderRight(s5'[x])
                             /\ DOMAIN s5'[x] = {"pc", "summary", "metadata", "row"}
    BY <1>1 DEF SummaryInv
  <1> QED
    BY <1>1, <1>2 DEF SummaryInv, ReaderRight

LEMMA RecordingKept ==
  ASSUME SummaryInv, NEW r \in Recorders,
         Sum!Record(r) \/ Sum!UpdateArtifact(r) \/ Sum!UpsertRow(r) \/ Sum!RollBack(r)
  PROVE  SummaryInv'
  <1>1. PICK old : old = s5[r]
    OBVIOUS
  <1>2. RecorderRight(old) /\ DOMAIN old = {"pc", "summary", "metadata", "row"}
    BY <1>1 DEF SummaryInv
  <1>3. CASE Sum!Record(r)
    <2>1. PICK s \in Sum!FromAnswer(r), completeOnly \in BOOLEAN :
            s5' = [s5 EXCEPT ![r].summary = s,
                     ![r].pc = IF Sum!Recorded(s, completeOnly) THEN "record" ELSE "refused"]
      BY <1>3 DEF Sum!Record
    <2>2. PICK rec : rec = [old EXCEPT !.summary = s,
                       !.pc = IF Sum!Recorded(s, completeOnly) THEN "record" ELSE "refused"]
      OBVIOUS
    <2>3. s5' = [s5 EXCEPT ![r] = rec]
      BY <1>1, <2>1, <2>2
    <2>4. /\ DOMAIN rec = DOMAIN old /\ rec.summary = s
          /\ rec.pc = IF Sum!Recorded(s, completeOnly) THEN "record" ELSE "refused"
      BY <1>2, <2>2
    <2>5. RecorderRight(rec)
      BY <2>4, AnswerRight DEF RecorderRight, Sum!Recorded
    <2> QED
      BY <1>2, <1>3, <2>3, <2>4, <2>5, RecorderKept DEF Sum!Record
  <1>4. CASE Sum!UpdateArtifact(r)
    <2>1. PICK rec : rec = [old EXCEPT !.pc = "updated", !.metadata = MetadataOf(old.summary)]
      OBVIOUS
    <2>2. s5' = [s5 EXCEPT ![r] = rec] /\ old.pc = "record"
      BY <1>1, <1>4, <2>1 DEF Sum!UpdateArtifact, Sum!MetadataWith, MetadataOf
    <2>3. /\ DOMAIN rec = DOMAIN old /\ rec.summary = old.summary /\ rec.pc = "updated"
          /\ rec.metadata = MetadataOf(old.summary)
      BY <1>2, <2>1
    <2>4. RecorderRight(rec)
      BY <1>2, <2>2, <2>3 DEF RecorderRight
    <2> QED
      BY <1>2, <1>4, <2>2, <2>3, <2>4, RecorderKept DEF Sum!UpdateArtifact
  <1>5. CASE Sum!UpsertRow(r)
    <2>1. PICK rec : rec = [old EXCEPT !.pc = "upserted", !.row = RowOf(old.summary)]
      OBVIOUS
    <2>2. s5' = [s5 EXCEPT ![r] = rec] /\ old.pc = "updated"
      BY <1>1, <1>5, <2>1 DEF Sum!UpsertRow, RowOf
    <2>3. /\ DOMAIN rec = DOMAIN old /\ rec.summary = old.summary /\ rec.pc = "upserted"
          /\ rec.metadata = old.metadata /\ rec.row = RowOf(old.summary)
      BY <1>2, <2>1
    <2>4. RecorderRight(rec)
      BY <1>2, <2>2, <2>3 DEF RecorderRight
    <2> QED
      BY <1>2, <1>5, <2>2, <2>3, <2>4, RecorderKept DEF Sum!UpsertRow
  <1>6. CASE Sum!RollBack(r)
    <2>1. PICK rec : rec = [old EXCEPT !.pc = "done"]
      OBVIOUS
    <2>2. s5' = [s5 EXCEPT ![r] = rec]
      BY <1>1, <1>6, <2>1 DEF Sum!RollBack
    <2>3. DOMAIN rec = DOMAIN old /\ rec.pc = "done"
      BY <1>2, <2>1
    <2>4. RecorderRight(rec)
      BY <2>3 DEF RecorderRight
    <2> QED
      BY <1>2, <1>6, <2>2, <2>3, <2>4, RecorderKept DEF Sum!RollBack
  <1> QED
    BY <1>3, <1>4, <1>5, <1>6

(* A commit replaces both stores at once. A reader between its queries, or that *)
(* has shown a summary, is torn.                                                *)
LEMMA CommitKept ==
  ASSUME SummaryInv, NEW r \in Recorders, Sum!Commit(r)
  PROVE  SummaryInv'
  <1>1. PICK old : old = s5[r]
    OBVIOUS
  <1>2. /\ RecorderRight(old) /\ DOMAIN old = {"pc", "summary", "metadata", "row"}
        /\ old.pc = "upserted"
    BY <1>1 DEF SummaryInv, Sum!Commit
  <1>3. /\ SummaryRight(old.summary)
        /\ old.metadata = MetadataOf(old.summary) /\ old.row = RowOf(old.summary)
    BY <1>2 DEF RecorderRight
  <1>4. s2' = old.metadata /\ s3' = old.row /\ s7' = old.summary
    BY <1>1 DEF Sum!Commit
  <1>5. MetadataRight(s2')
    BY <1>3, <1>4, MetadataIs DEF MetadataRight, SummaryRight
  <1>6. RowRight(s3')
    <2>1. s3'.text = Sum!JoinedText(old.summary.lines)
      BY <1>3, <1>4 DEF RowOf
    <2> QED
      BY <1>3, <2>1 DEF RowRight, SummaryRight
  <1>7. s5' = [x \in Recorders |-> s5'[x]]
        /\ \A x \in Recorders : RecorderRight(s5'[x])
                                /\ DOMAIN s5'[x] = {"pc", "summary", "metadata", "row"}
    <2>1. PICK rec : rec = [old EXCEPT !.pc = "done"]
      OBVIOUS
    <2>2. RecorderRight(rec) /\ DOMAIN rec = DOMAIN old
      BY <1>2, <2>1 DEF RecorderRight
    <2>3. s5' = [s5 EXCEPT ![r] = rec]
      BY <1>1, <2>1 DEF Sum!Commit
    <2> QED
      BY <1>2, <2>2, <2>3 DEF SummaryInv
  <1>8. ReaderRight'
    <2>1. s6' = [s6 EXCEPT !.torn = s6.pc # "idle"]
      BY DEF Sum!Commit
    <2>2. /\ DOMAIN s6' = DOMAIN s6 /\ s6'.pc = s6.pc /\ s6'.metadata = s6.metadata
          /\ s6'.seen = s6.seen /\ (s6.pc # "idle" => s6'.torn)
      BY <2>1 DEF SummaryInv, ReaderRight
    <2> QED
      BY <2>2 DEF SummaryInv, ReaderRight
  <1> QED
    BY <1>3, <1>4, <1>5, <1>6, <1>7, <1>8 DEF SummaryInv

LEMMA ReadingKept ==
  ASSUME SummaryInv, Sum!ReadArtifact \/ Sum!ReadRow \/ Sum!ReadAgain
  PROVE  SummaryInv'
  <1>1. UNCHANGED <<s2, s3, s5, s7>>
    BY DEF Sum!ReadArtifact, Sum!ReadRow, Sum!ReadAgain
  <1>2. CASE Sum!ReadArtifact
    <2>1. /\ DOMAIN s6' = DOMAIN s6 /\ s6'.pc = "read" /\ s6'.metadata = s2
      BY <1>2 DEF Sum!ReadArtifact, SummaryInv, ReaderRight
    <2>2. ReaderRight'
      BY <1>1, <2>1 DEF SummaryInv, ReaderRight
    <2> QED
      BY <1>1, <2>2 DEF SummaryInv
  <1>3. CASE Sum!ReadRow
    <2>1. /\ DOMAIN s6' = {"pc", "metadata", "torn", "seen"} /\ s6'.pc = "shown"
          /\ s6'.torn = s6.torn /\ s6'.seen = Sum!Read(s6.metadata, s3) /\ s6.pc = "read"
      BY <1>3 DEF Sum!ReadRow
    <2>2. MetadataRight(s6.metadata) /\ RowRight(s3) /\ (~s6.torn => s6.metadata = s2)
      BY <2>1 DEF SummaryInv, ReaderRight
    <2>3. PICK meta, row : meta = s6.metadata /\ row = s3
      OBVIOUS
    <2>4. /\ MetadataRight(meta) /\ RowRight(row) /\ s6'.seen = Sum!Read(meta, row)
          /\ ~s6'.torn => meta = s2' /\ row = s3'
      BY <1>1, <2>1, <2>2, <2>3
    <2>5. ReaderRight'
      BY <2>1, <2>4 DEF ReaderRight
    <2> QED
      BY <1>1, <2>5 DEF SummaryInv
  <1>4. CASE Sum!ReadAgain
    <2>1. DOMAIN s6' = {"pc", "metadata", "torn", "seen"} /\ s6'.pc = "idle"
      BY <1>4 DEF Sum!ReadAgain
    <2>2. ReaderRight'
      BY <2>1 DEF ReaderRight
    <2> QED
      BY <1>1, <2>2 DEF SummaryInv
  <1> QED
    BY <1>2, <1>3, <1>4

LEMMA SummaryStep ==
  ASSUME SummaryInv, Sum!Next
  PROVE  SummaryInv'
  BY RecordingKept, CommitKept, ReadingKept DEF Sum!Next

-----------------------------------------------------------------------------
(* Sender: s1 is its settings, s2 the clock, s3 the pacer, s4 the end of the    *)
(* last paced request, s5 the threads and s6 the requests made.                 *)

\* A thread between taking the pacer and giving it back.
Pacing(th) == th.paced /\ th.pc \in {"wait", "post", "posted"}

\* The last request has ended an interval before.
Since(time) == \A p \in s6 : p.end + Interval <= time

(* The one thread that holds the pacer wakes, and starts its request, an        *)
(* interval after the last one ended; its email has passed every check.         *)
ThreadRight(t) ==
  /\ DOMAIN s5[t] = DOMAIN Snd!Idle
  /\ s5[t].pc \in {"pace", "wait"} => s5[t].paced
  /\ s3 = t <=> Pacing(s5[t])
  /\ Pacing(s5[t]) => s5[t].wake \in Nat /\ Since(s5[t].wake)
  /\ Pacing(s5[t]) /\ s5[t].pc # "wait" => s5[t].wake <= s2

ClockRight ==
  /\ s2 \in Nat /\ s2 <= MaxTime
  /\ s4 # Snd!None => s4 \in Nat
  /\ \A p \in s6 :
       /\ p.start \in Nat /\ p.end \in Nat
       /\ p.end <= s2 /\ s4 # Snd!None /\ p.end <= s4

SenderInv ==
  /\ s1.dryRun \in BOOLEAN
  /\ ClockRight
  /\ DOMAIN s5 = Threads
  /\ \A t \in Threads : ThreadRight(t)
  /\ Snd!Spaced
  /\ Snd!CheckedFirst

LEMMA SenderInit ==
  ASSUME Snd!Init
  PROVE  SenderInv
  <1>1. s1.dryRun \in BOOLEAN
    BY DEF Snd!Init
  <1>2. ClockRight /\ Snd!Spaced
    BY BoundsAssumption DEF Snd!Init, ClockRight, Snd!Spaced
  <1>3. DOMAIN s5 = Threads /\ \A t \in Threads : s5[t] = Snd!Idle
    BY DEF Snd!Init
  <1>4. \A t \in Threads : ThreadRight(t)
    BY <1>3, ThreadsAssumption DEF Snd!Init, Snd!Free, Snd!Idle, ThreadRight, Pacing
  <1>5. \A t \in Threads : s5[t].pc = "idle" /\ s5[t].outcome = "none"
    BY <1>3 DEF Snd!Idle
  <1>6. Snd!CheckedFirst
    BY <1>5 DEF Snd!CheckedFirst
  <1> QED
    BY <1>1, <1>2, <1>3, <1>4, <1>6 DEF SenderInv

\* What a thread's step leaves of the other threads.
LEMMA OthersRight ==
  ASSUME SenderInv, NEW t \in Threads, NEW th, Snd!Becomes(t, th),
         UNCHANGED <<s1, s2, s6>>, s3' # s3 => s3' \in {t, Snd!Free} /\ s3 \in {t, Snd!Free}
  PROVE  /\ DOMAIN s5' = Threads
         /\ s5'[t] = th
         /\ \A u \in Threads \ {t} : s5'[u] = s5[u] /\ ThreadRight(u)'
  <1>1. /\ DOMAIN s5' = Threads
        /\ s5'[t] = th
        /\ \A u \in Threads \ {t} : s5'[u] = s5[u]
    BY DEF Snd!Becomes, SenderInv
  <1>2. \A u \in Threads \ {t} : s3' = u <=> s3 = u
    BY ThreadsAssumption DEF Snd!Free
  <1> QED
    BY <1>1, <1>2 DEF SenderInv, ThreadRight, Pacing, Since

\* A thread that is checked leaves every thread checked.
LEMMA CheckedKept ==
  ASSUME SenderInv, NEW t \in Threads, NEW th, Snd!Becomes(t, th), UNCHANGED s1,
         th.pc \in {"pace", "wait", "post", "posted"} =>
           ~s1.dryRun /\ ~Snd!SettingsProblem /\ Snd!CheckMessage(th.email, TRUE) = "none",
         th.outcome = "accepted" /\ th.email.link # "http" =>
           Snd!CheckMessage(th.email, TRUE) = "none"
  PROVE  Snd!CheckedFirst'
  <1>1. /\ s5'[t] = th
        /\ \A u \in Threads \ {t} : s5'[u] = s5[u]
    BY DEF Snd!Becomes, SenderInv
  <1>2. Snd!SettingsProblem' <=> Snd!SettingsProblem
    BY DEF Snd!SettingsProblem
  <1> QED
    BY <1>1, <1>2 DEF SenderInv, Snd!CheckedFirst

\* A step of one thread that makes no request.
LEMMA ThreadKept ==
  ASSUME SenderInv, NEW t \in Threads, NEW th, Snd!Becomes(t, th),
         UNCHANGED <<s1, s2, s4, s6>>,
         s3' # s3 => s3' \in {t, Snd!Free} /\ s3 \in {t, Snd!Free},
         ThreadRight(t)', Snd!CheckedFirst'
  PROVE  SenderInv'
  <1>1. DOMAIN s5' = Threads /\ \A u \in Threads : ThreadRight(u)'
    BY OthersRight
  <1>2. ClockRight' /\ Snd!Spaced'
    BY DEF SenderInv, ClockRight, Snd!Spaced, Snd!None
  <1> QED
    BY <1>1, <1>2 DEF SenderInv

\* An email is checked before anything else, and a thread starts without the pacer.
LEMMA SendKept ==
  ASSUME SenderInv, NEW t \in Threads, Snd!Send(t)
  PROVE  SenderInv'
  <1>1. PICK to \in Snd!Texts \ {"missing"}, subject \in Snd!Texts \ {"missing"},
             link \in Snd!Links \cup {"none"}, paced \in BOOLEAN :
          LET email == [to |-> to, subject |-> subject, link |-> link]
              stop == Snd!CheckMessage(email, ~s1.dryRun)
              asked == [Snd!Idle EXCEPT !.email = email, !.paced = Snd!Paced(paced)]
          IN Snd!Becomes(t,
               CASE stop # "none" -> [asked EXCEPT !.pc = "answered", !.outcome = stop]
                 [] stop = "none" /\ s1.dryRun ->
                      [asked EXCEPT !.pc = "answered", !.outcome = "accepted"]
                 [] stop = "none" /\ ~s1.dryRun /\ Snd!SettingsProblem ->
                      [asked EXCEPT !.pc = "answered", !.outcome = "misconfigured"]
                 [] OTHER -> [asked EXCEPT !.pc = IF paced THEN "pace" ELSE "post"])
    BY DEF Snd!Send
  <1> DEFINE email == [to |-> to, subject |-> subject, link |-> link]
             stop == Snd!CheckMessage(email, ~s1.dryRun)
  <1>2. PICK th : /\ Snd!Becomes(t, th)
                  /\ DOMAIN th = DOMAIN Snd!Idle
                  /\ th.email = email
                  /\ th.paced = Snd!Paced(paced)
                  /\ \/ th.pc = "answered" /\ th.outcome = stop /\ stop # "none"
                     \/ /\ th.pc = "answered" /\ th.outcome = "accepted"
                        /\ s1.dryRun /\ stop = "none"
                     \/ th.pc = "answered" /\ th.outcome = "misconfigured"
                     \/ /\ th.pc = IF paced THEN "pace" ELSE "post"
                        /\ th.outcome = "none"
                        /\ ~s1.dryRun /\ ~Snd!SettingsProblem /\ stop = "none"
    <2> DEFINE asked == [Snd!Idle EXCEPT !.email = email, !.paced = Snd!Paced(paced)]
    <2>1. PICK idle : idle = asked
      OBVIOUS
    <2>2. /\ DOMAIN idle = DOMAIN Snd!Idle /\ idle.email = email
          /\ idle.paced = Snd!Paced(paced) /\ idle.outcome = "none"
          /\ {"pc", "outcome"} \subseteq DOMAIN idle
      BY <2>1 DEF Snd!Idle
    <2>3. \/ stop # "none"
             /\ Snd!Becomes(t, [idle EXCEPT !.pc = "answered", !.outcome = stop])
          \/ stop = "none" /\ s1.dryRun
             /\ Snd!Becomes(t, [idle EXCEPT !.pc = "answered", !.outcome = "accepted"])
          \/ Snd!Becomes(t, [idle EXCEPT !.pc = "answered", !.outcome = "misconfigured"])
          \/ stop = "none" /\ ~s1.dryRun /\ ~Snd!SettingsProblem
             /\ Snd!Becomes(t, [idle EXCEPT !.pc = IF paced THEN "pace" ELSE "post"])
      BY <1>1, <2>1
    <2> HIDE DEF asked, email, stop
    <2>4. CASE stop # "none"
               /\ Snd!Becomes(t, [idle EXCEPT !.pc = "answered", !.outcome = stop])
      <3>1. PICK th : th = [idle EXCEPT !.pc = "answered", !.outcome = stop]
        OBVIOUS
      <3>2. /\ DOMAIN th = DOMAIN Snd!Idle /\ th.email = email /\ th.paced = Snd!Paced(paced)
            /\ th.pc = "answered" /\ th.outcome = stop
        BY <2>2, <3>1
      <3>3. Snd!Becomes(t, th)
        BY <2>4, <3>1
      <3> QED
        BY <2>4, <3>2, <3>3
    <2>5. CASE stop = "none" /\ s1.dryRun
               /\ Snd!Becomes(t, [idle EXCEPT !.pc = "answered", !.outcome = "accepted"])
      <3>1. PICK th : th = [idle EXCEPT !.pc = "answered", !.outcome = "accepted"]
        OBVIOUS
      <3>2. /\ DOMAIN th = DOMAIN Snd!Idle /\ th.email = email /\ th.paced = Snd!Paced(paced)
            /\ th.pc = "answered" /\ th.outcome = "accepted"
        BY <2>2, <3>1
      <3>3. Snd!Becomes(t, th)
        BY <2>5, <3>1
      <3> QED
        BY <2>5, <3>2, <3>3
    <2>6. CASE Snd!Becomes(t, [idle EXCEPT !.pc = "answered", !.outcome = "misconfigured"])
      <3>1. PICK th : th = [idle EXCEPT !.pc = "answered", !.outcome = "misconfigured"]
        OBVIOUS
      <3>2. /\ DOMAIN th = DOMAIN Snd!Idle /\ th.email = email /\ th.paced = Snd!Paced(paced)
            /\ th.pc = "answered" /\ th.outcome = "misconfigured"
        BY <2>2, <3>1
      <3>3. Snd!Becomes(t, th)
        BY <2>6, <3>1
      <3> QED
        BY <2>6, <3>2, <3>3
    <2>7. CASE stop = "none" /\ ~s1.dryRun /\ ~Snd!SettingsProblem
               /\ Snd!Becomes(t, [idle EXCEPT !.pc = IF paced THEN "pace" ELSE "post"])
      <3>1. PICK th : th = [idle EXCEPT !.pc = IF paced THEN "pace" ELSE "post"]
        OBVIOUS
      <3>2. /\ DOMAIN th = DOMAIN Snd!Idle /\ th.email = email /\ th.paced = Snd!Paced(paced)
            /\ (th.pc = IF paced THEN "pace" ELSE "post") /\ th.outcome = "none"
        BY <2>2, <3>1
      <3>3. Snd!Becomes(t, th)
        BY <2>7, <3>1
      <3> QED
        BY <2>7, <3>2, <3>3
    <2> QED
      BY <2>3, <2>4, <2>5, <2>6, <2>7
  <1>3. UNCHANGED <<s1, s2, s3, s4, s6>> /\ s5[t].pc = "idle"
    BY DEF Snd!Send
  <1>4. ThreadRight(t)'
    <2>1. s3 # t
      BY <1>3 DEF SenderInv, ThreadRight, Pacing
    <2>2. s5'[t] = th
      BY <1>2 DEF Snd!Becomes, SenderInv
    <2>3. ~Pacing(th)
      BY <1>2 DEF Pacing, Snd!Paced
    <2> QED
      BY <1>2, <1>3, <2>1, <2>2, <2>3 DEF ThreadRight, Pacing, Snd!Paced
  <1>5. stop \in {"none", "rejected", "misconfigured"}
    BY DEF Snd!CheckMessage
  <1>6. s1.dryRun /\ stop = "none" /\ link # "http" => Snd!CheckMessage(email, TRUE) = "none"
    BY DEF SenderInv, Snd!CheckMessage, Snd!WebLink, Snd!Mailbox, Snd!SingleLine, Snd!Links
  <1>7. ~s1.dryRun => stop = Snd!CheckMessage(email, TRUE)
    BY DEF SenderInv
  <1>8. email.link = link
    OBVIOUS
  <1> HIDE DEF email, stop
  <1>9. Snd!CheckedFirst'
    BY <1>2, <1>3, <1>5, <1>6, <1>7, <1>8, CheckedKept
  <1> QED
    BY <1>2, <1>3, <1>4, <1>9, ThreadKept

\* Taking the pacer, and every step between that and the end of the request.
LEMMA AcquireKept ==
  ASSUME SenderInv, NEW t \in Threads, Snd!Acquire(t)
  PROVE  SenderInv'
  <1>0. PICK th : th = [s5[t] EXCEPT !.pc = "wait",
                          !.wake = IF s4 = Snd!None THEN s2 ELSE s4 + Interval]
    OBVIOUS
  <1>1. /\ Snd!Becomes(t, th)
        /\ DOMAIN th = DOMAIN Snd!Idle
        /\ th.email = s5[t].email /\ th.outcome = s5[t].outcome
        /\ th.paced = s5[t].paced
        /\ th.pc = "wait"
        /\ th.wake = IF s4 = Snd!None THEN s2 ELSE s4 + Interval
    BY <1>0 DEF Snd!Acquire, SenderInv, ThreadRight, Snd!Idle
  <1>2. /\ UNCHANGED <<s1, s2, s4, s6>> /\ s5[t].pc = "pace"
        /\ s3 = Snd!Free /\ s3' = t
    BY DEF Snd!Acquire
  <1>3. th.wake \in Nat /\ Since(th.wake)
    BY <1>1, BoundsAssumption DEF SenderInv, ClockRight, Since
  <1>4. s5'[t] = th
    BY <1>1 DEF Snd!Becomes, SenderInv
  <1>5. ThreadRight(t)'
    <2>1. th.paced
      BY <1>1, <1>2 DEF SenderInv, ThreadRight
    <2> QED
      BY <1>1, <1>2, <1>3, <1>4, <2>1 DEF ThreadRight, Pacing, Since
  <1>6. Snd!CheckedFirst'
    BY <1>1, <1>2, CheckedKept DEF SenderInv, Snd!CheckedFirst
  <1> QED
    BY <1>1, <1>2, <1>5, <1>6, ThreadKept

LEMMA RequestKept ==
  ASSUME SenderInv, NEW t \in Threads, Snd!Slept(t) \/ Snd!Post(t)
  PROVE  SenderInv'
  <1>1. PICK th : /\ Snd!Becomes(t, th)
                  /\ DOMAIN th = DOMAIN Snd!Idle
                  /\ th.email = s5[t].email /\ th.outcome = s5[t].outcome
                  /\ th.paced = s5[t].paced
                  /\ \/ /\ s5[t].pc = "wait" /\ th.pc = "post" /\ th.wake = s5[t].wake
                        /\ s2 >= th.wake
                     \/ s5[t].pc = "post" /\ th.pc = "posted" /\ th.wake = s2
    <2>1. PICK slept : slept = [s5[t] EXCEPT !.pc = "post"]
      OBVIOUS
    <2>2. PICK sent : sent = [s5[t] EXCEPT !.pc = "posted", !.wake = s2]
      OBVIOUS
    <2>3. CASE Snd!Slept(t)
      BY <2>1, <2>3 DEF Snd!Slept, SenderInv, ThreadRight, Snd!Idle
    <2>4. CASE Snd!Post(t)
      <3>1. /\ Snd!Becomes(t, sent)
            /\ DOMAIN sent = DOMAIN Snd!Idle
            /\ sent.email = s5[t].email /\ sent.outcome = s5[t].outcome
            /\ sent.paced = s5[t].paced
            /\ s5[t].pc = "post" /\ sent.pc = "posted" /\ sent.wake = s2
        BY <2>2, <2>4 DEF Snd!Post, SenderInv, ThreadRight, Snd!Idle
      <3> QED
        BY <3>1
    <2> QED
      BY <2>3, <2>4
  <1>2. UNCHANGED <<s1, s2, s3, s4, s6>>
    BY DEF Snd!Slept, Snd!Post
  <1>3. s5'[t] = th
    BY <1>1 DEF Snd!Becomes, SenderInv
  <1>4. ThreadRight(t)'
    <2>1. Pacing(th) <=> Pacing(s5[t])
      BY <1>1 DEF Pacing
    <2>2. Pacing(th) => th.wake \in Nat /\ Since(th.wake) /\ th.wake <= s2
      <3> SUFFICES ASSUME Pacing(th)
                   PROVE  th.wake \in Nat /\ Since(th.wake) /\ th.wake <= s2
        OBVIOUS
      <3>1. s5[t].wake \in Nat /\ Since(s5[t].wake)
        BY <2>1 DEF SenderInv, ThreadRight
      <3>2. s2 \in Nat
        BY DEF SenderInv, ClockRight
      <3>3. CASE th.wake = s5[t].wake /\ s2 >= th.wake
        BY <3>1, <3>2, <3>3
      <3>4. CASE s5[t].pc = "post" /\ th.wake = s2
        <4>1. s5[t].wake <= s2
          BY <2>1, <3>4 DEF SenderInv, ThreadRight
        <4>2. Since(s2)
          <5> SUFFICES ASSUME NEW p \in s6
                       PROVE  p.end + Interval <= s2
            BY DEF Since
          <5>1. p.end \in Nat /\ p.end + Interval <= s5[t].wake
            BY <3>1 DEF SenderInv, ClockRight, Since
          <5> QED
            BY <3>1, <3>2, <4>1, <5>1, BoundsAssumption
        <4> QED
          BY <3>2, <3>4, <4>2
      <3> QED
        BY <1>1, <3>3, <3>4
    <2>3. th.pc \in {"post", "posted"} /\ (s3 = t <=> Pacing(s5[t]))
      BY <1>1 DEF SenderInv, ThreadRight
    <2> QED
      BY <1>1, <1>2, <1>3, <2>1, <2>2, <2>3 DEF ThreadRight, Since
  <1>5. Snd!CheckedFirst'
    BY <1>1, <1>2, CheckedKept DEF SenderInv, Snd!CheckedFirst
  <1> QED
    BY <1>1, <1>2, <1>4, <1>5, ThreadKept

LEMMA TakeKept ==
  ASSUME SenderInv, NEW t \in Threads, Snd!Take(t)
  PROVE  SenderInv'
  <1>1. Snd!Becomes(t, Snd!Idle) /\ s5[t].pc = "answered" /\ UNCHANGED <<s1, s2, s3, s4, s6>>
    BY DEF Snd!Take
  <1>2. s5'[t] = Snd!Idle
    BY <1>1 DEF Snd!Becomes, SenderInv
  <1>3. ThreadRight(t)'
    BY <1>1, <1>2 DEF SenderInv, ThreadRight, Pacing, Snd!Idle
  <1>4. PICK th : th = Snd!Idle
    OBVIOUS
  <1>5. th.pc = "idle" /\ th.outcome = "none"
    BY <1>4 DEF Snd!Idle
  <1>6. Snd!CheckedFirst'
    BY <1>1, <1>4, <1>5, CheckedKept
  <1> QED
    BY <1>1, <1>3, <1>4, <1>6, ThreadKept

\* The end of a request: of one that was paced, an interval after the last one.
LEMMA ResponseKept ==
  ASSUME SenderInv, NEW t \in Threads, Snd!Response(t)
  PROVE  SenderInv'
  <1>0. PICK answer \in Snd!Answers : Snd!Ends(t, answer)
    BY DEF Snd!Response
  <1>a. PICK th : th = [s5[t] EXCEPT !.pc = "answered", !.outcome = answer]
    OBVIOUS
  <1>1. /\ Snd!Becomes(t, th)
        /\ DOMAIN th = DOMAIN Snd!Idle
        /\ th.email = s5[t].email
        /\ th.pc = "answered"
    BY <1>0, <1>a DEF Snd!Ends, SenderInv, ThreadRight, Snd!Idle
  <1>2. s5[t].pc = "posted" /\ UNCHANGED <<s1, s2>>
    BY DEF Snd!Response
  <1>3. s5'[t] = th /\ ~Pacing(th)
    BY <1>1 DEF Snd!Becomes, SenderInv, Pacing
  <1>4. Snd!CheckMessage(th.email, TRUE) = "none"
    BY <1>1, <1>2 DEF SenderInv, Snd!CheckedFirst
  <1>5. Snd!CheckedFirst'
    BY <1>1, <1>2, <1>4, CheckedKept
  <1>6. CASE ~s5[t].paced
    <2>1. UNCHANGED <<s3, s4, s6>>
      BY <1>6 DEF Snd!Response
    <2>2. ThreadRight(t)'
      BY <1>1, <1>3, <1>6, <2>1 DEF SenderInv, ThreadRight, Pacing
    <2> QED
      BY <1>1, <1>2, <1>5, <2>1, <2>2, ThreadKept
  <1>7. CASE s5[t].paced
    <2>1. PICK q : q = [by |-> t, start |-> s5[t].wake, end |-> s2]
      OBVIOUS
    <2>2. s4' = s2 /\ s3' = Snd!Free /\ s6' = s6 \cup {q}
      BY <1>7, <2>1 DEF Snd!Response
    <2>3. s3 = t /\ s5[t].wake \in Nat /\ Since(s5[t].wake) /\ s5[t].wake <= s2
      BY <1>2, <1>7 DEF SenderInv, ThreadRight, Pacing
    <2>4. s2 \in Nat /\ s2 # Snd!None
      BY BoundsAssumption DEF SenderInv, ClockRight, Snd!None
    <2>5. q.start = s5[t].wake /\ q.end = s2
      BY <2>1
    <2>6. \A p \in s6 : p.start \in Nat /\ p.end \in Nat /\ p.end <= s2
      BY DEF SenderInv, ClockRight
    <2>7. ClockRight'
      <3>1. \A p \in s6' : /\ p.start \in Nat /\ p.end \in Nat
                           /\ p.end <= s2 /\ p.end <= s2
        BY <2>2, <2>3, <2>4, <2>5, <2>6
      <3> QED
        BY <1>2, <2>2, <2>4, <3>1 DEF ClockRight, SenderInv, Snd!None
    <2>8. Snd!Spaced'
      <3>1. \A p \in s6 : q.start >= p.end + Interval
        BY <2>3, <2>5, <2>6, BoundsAssumption DEF Since
      <3> QED
        BY <2>2, <3>1 DEF SenderInv, Snd!Spaced
    <2>9. \A u \in Threads \ {t} : ~Pacing(s5[u])
      BY <2>3 DEF SenderInv, ThreadRight
    <2>10. \A u \in Threads : ThreadRight(u)'
      <3> SUFFICES ASSUME NEW u \in Threads
                   PROVE  ThreadRight(u)'
        OBVIOUS
      <3>1. s3' # u
        BY <2>2, ThreadsAssumption DEF Snd!Free
      <3>2. ~Pacing(s5'[u])
        BY <1>1, <1>3, <2>9 DEF Snd!Becomes, SenderInv
      <3>3. DOMAIN s5'[u] = DOMAIN Snd!Idle /\ (s5'[u].pc \in {"pace", "wait"} => s5'[u].paced)
        BY <1>1, <1>3 DEF Snd!Becomes, SenderInv, ThreadRight
      <3> QED
        BY <3>1, <3>2, <3>3 DEF ThreadRight
    <2>11. DOMAIN s5' = Threads
      BY <1>1 DEF Snd!Becomes, SenderInv
    <2> QED
      BY <1>2, <1>5, <2>7, <2>8, <2>10, <2>11 DEF SenderInv
  <1> QED
    BY <1>6, <1>7

LEMMA TickKept ==
  ASSUME SenderInv, Snd!Tick
  PROVE  SenderInv'
  <1>1. s2' = s2 + 1 /\ s2 < MaxTime /\ UNCHANGED <<s1, s3, s4, s5, s6>>
    BY DEF Snd!Tick
  <1>2. ClockRight'
    <2>1. s2' \in Nat /\ s2' <= MaxTime /\ s2 <= s2'
      BY <1>1, BoundsAssumption DEF SenderInv, ClockRight
    <2>2. \A p \in s6 : p.end \in Nat /\ p.end <= s2 => p.end <= s2'
      BY <1>1 DEF SenderInv, ClockRight
    <2> QED
      BY <1>1, <2>1, <2>2 DEF SenderInv, ClockRight, Snd!None
  <1>3. ASSUME NEW t \in Threads
        PROVE  ThreadRight(t)'
    <2>1. ThreadRight(t) /\ s2 \in Nat
      BY DEF SenderInv, ClockRight
    <2>2. Pacing(s5[t]) /\ s5[t].pc # "wait" => s5[t].wake <= s2'
      BY <1>1, <2>1 DEF ThreadRight
    <2> QED
      BY <1>1, <2>1, <2>2 DEF ThreadRight, Pacing, Since
  <1>4. Snd!Spaced' /\ Snd!CheckedFirst'
    BY <1>1 DEF SenderInv, Snd!Spaced, Snd!CheckedFirst, Snd!SettingsProblem
  <1> QED
    BY <1>1, <1>2, <1>3, <1>4 DEF SenderInv

LEMMA SenderStep ==
  ASSUME SenderInv, Snd!Next
  PROVE  SenderInv'
  BY SendKept, AcquireKept, RequestKept, ResponseKept, TakeKept, TickKept DEF Snd!Next

\* The invariant holds the two promises.
LEMMA SenderPromises ==
  ASSUME SenderInv
  PROVE  Snd!Spaced /\ Snd!CheckedFirst
  BY DEF SenderInv

-----------------------------------------------------------------------------
(* One behaviour runs one part: its invariant is the invariant of that part.    *)
ReleasesInv == part = "release" => ReleaseInv
SourcesInv == part = "sites" => SitesInv
ServicesInv ==
  /\ part = "generation" => GenerationInv
  /\ part = "summaries" => SummaryInv
  /\ part = "sender" => SenderInv

LEMMA StutterKept ==
  ASSUME UNCHANGED <<part, all>>
  PROVE  /\ ReleasesInv => ReleasesInv'
         /\ SourcesInv => SourcesInv'
         /\ ServicesInv => ServicesInv'
  <1>1. UNCHANGED <<part, s1, s2, s3, s4, s5, s6, s7, s8, s9>>
    BY DEF all
  <1>2. ReleasesInv => ReleasesInv'
    BY <1>1 DEF ReleasesInv, ReleaseInv
  <1>3. SourcesInv => SourcesInv'
    BY <1>1 DEF SourcesInv, SitesInv
  <1>4. GenerationInv => GenerationInv'
    BY <1>1 DEF GenerationInv, GenerationRight
  <1>5. SummaryInv => SummaryInv'
    BY <1>1 DEF SummaryInv, ReaderRight
  <1>6. SenderInv => SenderInv'
    BY <1>1 DEF SenderInv, ClockRight, ThreadRight, Since, Snd!None, Snd!Spaced,
                Snd!CheckedFirst, Snd!SettingsProblem
  <1>7. ServicesInv => ServicesInv'
    BY <1>1, <1>4, <1>5, <1>6 DEF ServicesInv
  <1> QED
    BY <1>2, <1>3, <1>7

(* Release: whatever plans, builds, rollbacks and reviews interleave, with any  *)
(* number of plans and changes of the world: nothing an operator chose is       *)
(* undone, a reviewer executes what was planned, and an alert's links lead to a *)
(* site (tools/release.py).                                                     *)
THEOREM ReleasesAreKept == Spec => []ReleasesKept
  <1>1. Init => ReleasesInv
    BY ReleaseInit DEF Init, ReleasesInv
  <1>2. ReleasesInv /\ [Next]_<<part, all>> => ReleasesInv'
    <2>1. ReleasesInv /\ Next => ReleasesInv'
      BY ReleaseStep DEF Next, ReleasesInv
    <2> QED
      BY <2>1, StutterKept
  <1>3. ReleasesInv => ReleasesKept
    BY ReleasePromises DEF ReleasesInv, ReleasesKept
  <1> QED
    BY <1>1, <1>2, <1>3, PTL DEF Spec

(* Sites: whatever a site answers at any step of any adapter, for listings of   *)
(* any length: nothing stays open, a site out of reach is not taken for one     *)
(* that changed, and what is fetched is a supported document (scrapers/).       *)
THEOREM SitesAreKept == Spec => []SitesKept
  <1>1. Init => SourcesInv
    BY SitesInit DEF Init, SourcesInv
  <1>2. SourcesInv /\ [Next]_<<part, all>> => SourcesInv'
    <2>1. SourcesInv /\ Next => SourcesInv'
      BY SitesStep DEF Next, SourcesInv
    <2> QED
      BY <2>1, StutterKept
  <1>3. SourcesInv => SitesKept
    BY SitesPromises DEF SourcesInv, SitesKept
  <1> QED
    BY <1>1, <1>2, <1>3, PTL DEF Spec

(* Services: for texts of any length, any number of recorders and of threads:   *)
(* prompts fit and values hold, the summary recorded last is read back, and     *)
(* paced emails are an interval apart and checked before they are posted        *)
(* (services/generation, artifact_summary.py, email_sender.py).                 *)
THEOREM ServicesAreKept == Spec => []ServicesKept
  <1>1. Init => ServicesInv
    BY GenerationInit, SummaryInit, SenderInit DEF Init, ServicesInv
  <1>2. ServicesInv /\ [Next]_<<part, all>> => ServicesInv'
    <2>1. ServicesInv /\ Next => ServicesInv'
      BY GenerationStep, SummaryStep, SenderStep DEF Next, ServicesInv
    <2> QED
      BY <2>1, StutterKept
  <1>3. ServicesInv => ServicesKept
    BY GenerationPromises, SummaryPromises, SenderPromises DEF ServicesInv, ServicesKept
  <1> QED
    BY <1>1, <1>2, <1>3, PTL DEF Spec
=============================================================================
