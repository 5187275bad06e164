------------------------------- MODULE Release -------------------------------
(* Planning and applying a deploy of infra/template.yaml (tools/release.py).  *)
(* A plan is made from the live stack, the release's images are built while   *)
(* it waits, and apply runs the one sam deploy the plan describes. Releases   *)
(* and rollback preparations run in two workflows of their own, and reviewed  *)
(* change sets are executed from a third, so the stack can move under a plan. *)
EXTENDS Naturals, FiniteSets

CONSTANTS
  Shas,         \* the full release SHAs
  MaxPlans,     \* plans made in one behaviour
  MaxChanges    \* changes of the world around the stack

VARIABLES
  stack,        \* the live stack
  changeSets,   \* the stack's change sets awaiting a review
  jobs,         \* what each workflow is doing
  images,       \* the SHAs whose three images are all in ECR
  siteVars,     \* the GitHub variables a release reads
  brevoKey,     \* the type of the parameter behind NotificationsEnabled
  template,     \* the template file in the checkout
  plans, changes

vars == <<stack, changeSets, jobs, images, siteVars, brevoKey, template, plans, changes>>

Names == {"SiteDomainName", "NotificationsEnabled", "FrontendBaseUrl",
          "AlertSenderEmail", "OperationsEmail"}

\* The parameters that have a default; OperationsEmail has none.
Default == [SiteDomainName |-> "", NotificationsEnabled |-> "false",
            FrontendBaseUrl |-> "example.invalid", AlertSenderEmail |-> ""]

NoValues == [n \in {} |-> ""]
NoSha == "untagged"
Absent == [status |-> "absent", values |-> NoValues, image |-> NoSha, url |-> ""]
CloudFront == "cloudfront"

\* A stack that is REVIEW_IN_PROGRESS counts as absent.
Exists == stack.status # "absent"

(* A parameter's value: --set, --set-unless-empty, the live stack, then the   *)
(* template default.                                                          *)
Chosen(explicit, unlessEmpty) ==
  DOMAIN explicit \cup {n \in DOMAIN unlessEmpty : unlessEmpty[n] \notin {"", "keep"}}

Resolvable(live, explicit, unlessEmpty) ==
  Names \subseteq Chosen(explicit, unlessEmpty) \cup DOMAIN live \cup DOMAIN Default

Resolve(live, explicit, unlessEmpty) ==
  [n \in Names |->
    CASE n \in DOMAIN explicit -> explicit[n]
      [] n \in Chosen(explicit, unlessEmpty) \ DOMAIN explicit -> unlessEmpty[n]
      [] n \notin Chosen(explicit, unlessEmpty) /\ n \in DOMAIN live -> live[n]
      [] OTHER -> Default[n]]

\* Where emails link to: the custom domain, else the stack's CloudFront URL.
FrontendBaseUrl(values) ==
  IF values["SiteDomainName"] # "" THEN values["SiteDomainName"]
  ELSE IF Exists /\ stack.url # "" THEN stack.url ELSE values["FrontendBaseUrl"]

LinkProblem(values) ==
  /\ values["SiteDomainName"] = ""
  /\ IF Exists THEN stack.url = "" ELSE values["NotificationsEnabled"] = "true"

RuleFailure(values) ==
  values["NotificationsEnabled"] = "true" /\ values["AlertSenderEmail"] = ""

\* A value its parameter's pattern or allowed values rule out.
Malformed == "malformed"
ValueProblem(values) == \E n \in Names : values[n] = Malformed

\* The switch a secret is behind is on.
Gated(values) == values["NotificationsEnabled"] = "true"

SecretProblem(values) == Gated(values) /\ brevoKey # "SecureString"

ImageExists(sha) == sha \in images

\* A tag that is not a full SHA names no release to roll back to.
Previous == IF Exists /\ stack.image \in Shas THEN stack.image ELSE NoSha

RemovesDomain(values) ==
  /\ Exists
  /\ stack.values["SiteDomainName"] # ""
  /\ values["SiteDomainName"] = ""

\* Each workflow runs one deploy at a time.
Jobs == {"deploy", "rollback"}

NoPlan == [sha |-> NoSha, execute |-> FALSE, rollback |-> FALSE, values |-> NoValues,
           chosen |-> {}, live |-> Absent, previous |-> NoSha, template |-> 0]
Idle == [pc |-> "idle", plan |-> NoPlan, moved |-> FALSE]

\* A stack is absent, or was deployed by hand from images without a SHA tag.
Init ==
  /\ stack \in {Absent,
       [status |-> "complete", image |-> NoSha, url |-> CloudFront,
        values |-> [n \in Names |-> IF n = "OperationsEmail" THEN "ops" ELSE Default[n]]]}
  /\ changeSets = {}
  /\ jobs = [j \in Jobs |-> Idle]
  /\ images = {}
  /\ siteVars = [domain |-> "", sender |-> "sender"]
  /\ brevoKey = "SecureString"
  /\ template = 0
  /\ plans = 0
  /\ changes = 0

\* The workflow sets these from GitHub variables, even when they are empty.
WorkflowValues ==
  [SiteDomainName |-> siteVars.domain, AlertSenderEmail |-> siteVars.sender,
   OperationsEmail |-> "ops"]

\* What a manual run chose for one switch; a push leaves it empty, which keeps it as well.
Choices == {[n \in {"NotificationsEnabled"} |-> c] : c \in {"keep", "true", "false"}}

(* _plan: an executed release needs a live stack that can be rolled back and   *)
(* keeps its custom domain; a rollback's images must still exist. A refused    *)
(* plan leaves nothing behind.                                                 *)
Plan(j, sha, explicit, unlessEmpty, execute, rollback) ==
  LET resolved == Resolve(stack.values, explicit, unlessEmpty)
      values == IF rollback THEN resolved
                ELSE [resolved EXCEPT !["FrontendBaseUrl"] = FrontendBaseUrl(resolved)]
  IN /\ jobs[j].pc = "idle"
     /\ plans < MaxPlans
     /\ (execute \/ rollback) => Exists
     /\ Resolvable(stack.values, explicit, unlessEmpty)
     /\ ~rollback => ~LinkProblem(resolved)
     /\ execute => Previous # NoSha /\ ~RemovesDomain(resolved)
     /\ rollback => ImageExists(sha)
     /\ ~ValueProblem(values)
     /\ ~RuleFailure(values)
     /\ ~SecretProblem(values)
     /\ plans' = plans + 1
     /\ jobs' = [jobs EXCEPT ![j] = [Idle EXCEPT !.pc = "planned",
          !.plan = [sha |-> sha, execute |-> execute, rollback |-> rollback,
                    values |-> values, chosen |-> Chosen(explicit, unlessEmpty),
                    live |-> stack, previous |-> Previous, template |-> template]]]
     /\ UNCHANGED <<stack, changeSets, images, siteVars, brevoKey, template, changes>>

PlanRelease(sha, explicit, unlessEmpty, execute) ==
  Plan("deploy", sha, explicit, unlessEmpty, execute, FALSE)

\* A rollback sets nothing and is only ever prepared for a review.
PlanRollback(sha) == Plan("rollback", sha, NoValues, NoValues, FALSE, TRUE)

\* _plan_command: a manual run or a push of the deploy workflow, or a rollback.
PlanCommand ==
  \/ \E sha \in Shas, explicit \in {WorkflowValues, NoValues}, unlessEmpty \in Choices,
        execute \in BOOLEAN : PlanRelease(sha, explicit, unlessEmpty, execute)
  \/ \E sha \in Shas : PlanRollback(sha)

\* The workflow pushes the images its release still lacks; a build may fail.
Build ==
  /\ jobs["deploy"].pc = "planned"
  /\ images' = images \cup {jobs["deploy"].plan.sha}
  /\ UNCHANGED <<stack, changeSets, jobs, siteVars, brevoKey, template, plans, changes>>

Stop(j) ==
  /\ jobs[j].pc # "idle"
  /\ jobs' = [jobs EXCEPT ![j] = Idle]
  /\ UNCHANGED <<stack, changeSets, images, siteVars, brevoKey, template, plans, changes>>

\* Mutant: only the template and the images are looked at.
ApplicableUnread(plan) == template = plan.template /\ ImageExists(plan.sha)

(* apply: the template must be the planned one, the stack as the plan found   *)
(* it and the images in ECR; sam deploy runs only after all three.            *)
Applicable(plan) ==
  /\ template = plan.template
  /\ stack.values = plan.live.values
  /\ stack.image = plan.live.image
  /\ ImageExists(plan.sha)

Apply(j) ==
  /\ jobs[j].pc = "planned"
  /\ Applicable(jobs[j].plan)
  /\ jobs' = [jobs EXCEPT ![j].pc = "checked", ![j].moved = FALSE]
  /\ UNCHANGED <<stack, changeSets, images, siteVars, brevoKey, template, plans, changes>>

(* CloudFormation applies a change set or rolls it back; applied, it makes    *)
(* every other one of the stack obsolete. A stack whose creation failed keeps *)
(* its parameters, has no outputs and takes no further change.                *)
Changed(after) ==
  /\ after # stack
  /\ stack' = after
  /\ changeSets' = {}

Applied(plan) ==
  [status |-> "complete", values |-> plan.values, image |-> plan.sha, url |-> CloudFront]
Broken(plan) ==
  [status |-> "failed", values |-> plan.values, image |-> plan.sha, url |-> ""]

Executed(plan) ==
  \/ /\ stack.status # "failed"
     /\ ImageExists(plan.sha)
     /\ Changed(Applied(plan))
  \/ /\ ~Exists
     /\ Changed(Broken(plan))

Moved(except) ==
  [j \in Jobs |-> IF j = except THEN Idle
                  ELSE [jobs[j] EXCEPT !.moved = jobs[j].pc = "checked"]]

SamDeployExecutes(j) ==
  /\ jobs[j].pc = "checked"
  /\ jobs[j].plan.execute
  /\ Executed(jobs[j].plan)
  /\ jobs' = Moved(j)
  /\ UNCHANGED <<images, siteVars, brevoKey, template, plans, changes>>

SamDeployForReview(j) ==
  /\ jobs[j].pc = "checked"
  /\ ~jobs[j].plan.execute
  /\ stack.status # "failed"
  /\ changeSets' = changeSets \cup {[plan |-> jobs[j].plan, moved |-> jobs[j].moved]}
  /\ jobs' = [jobs EXCEPT ![j] = Idle]
  /\ UNCHANGED <<stack, images, siteVars, brevoKey, template, plans, changes>>

\* A reviewer executes an available change set, in a workflow of its own.
ExecuteChangeSet(c) ==
  /\ Executed(c.plan)
  /\ jobs' = Moved("none")
  /\ UNCHANGED <<images, siteVars, brevoKey, template, plans, changes>>

World ==
  /\ changes < MaxChanges
  /\ changes' = changes + 1
  /\ UNCHANGED <<stack, changeSets, jobs, plans>>

ChangeVariables ==
  /\ \E d \in {"", "site", Malformed}, s \in {"", "sender"} : siteVars' = [domain |-> d, sender |-> s]
  /\ UNCHANGED <<images, brevoKey, template>>

ChangeSecret ==
  /\ brevoKey' \in {"none", "String", "SecureString"}
  /\ UNCHANGED <<images, siteVars, template>>

ExpireImages ==
  /\ \E s \in images : images' = images \ {s}
  /\ UNCHANGED <<brevoKey, siteVars, template>>

EditTemplate ==
  /\ template' = template + 1
  /\ UNCHANGED <<images, brevoKey, siteVars>>

Next ==
  \/ PlanCommand
  \/ Build
  \/ \E j \in Jobs :
       \/ Apply(j)
       \/ SamDeployExecutes(j)
       \/ SamDeployForReview(j)
       \/ Stop(j)
  \/ \E c \in changeSets : ExecuteChangeSet(c)
  \/ World /\ (ChangeVariables \/ ChangeSecret \/ ExpireImages \/ EditTemplate)

-----------------------------------------------------------------------------
(* A release that deploys without a review never undoes what someone else      *)
(* applied while its images were built: it changes only what was chosen for    *)
(* it, keeps the custom domain and knows the release to roll back to. Only a   *)
(* stack that moved after apply's own check is outside the promise.            *)
NothingUndone ==
  \A j \in Jobs : jobs[j].pc = "checked" /\ jobs[j].plan.execute /\ ~jobs[j].moved =>
    LET p == jobs[j].plan IN
      /\ Exists
      /\ p.previous = stack.image
      /\ stack.values["SiteDomainName"] # "" => p.values["SiteDomainName"] # ""
      /\ \A n \in Names \ {"FrontendBaseUrl"} :
           p.values[n] # stack.values[n] => n \in p.chosen

(* A change set under review still describes the live stack: executing a       *)
(* rollback swaps the images and nothing else.                                 *)
ReviewedAsPlanned ==
  \A c \in changeSets : ~c.moved =>
    /\ c.plan.live.values = stack.values
    /\ c.plan.live.image = stack.image
    /\ c.plan.rollback => c.plan.values = stack.values

(* A live stack that sends alerts has a sender, and links them to the custom   *)
(* domain exactly when it has one, otherwise to its own distribution.          *)
AlertsReachSite ==
  stack.status = "complete" /\ stack.values["NotificationsEnabled"] = "true" =>
    /\ stack.values["AlertSenderEmail"] # ""
    /\ stack.values["FrontendBaseUrl"] =
         IF stack.values["SiteDomainName"] # "" THEN stack.values["SiteDomainName"]
         ELSE CloudFront
=============================================================================
