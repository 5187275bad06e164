--------------------------- MODULE Subscriptions ---------------------------
(***************************************************************************)
(* One investor's alert subscription (app/services/alert_subscriptions.py  *)
(* over app/crud/alert_subscription.py and app/crud/alert_rule.py): the    *)
(* web requests that save it, ask for a verification link, open one or     *)
(* unsubscribe, each a few short transactions that other requests of the   *)
(* same investor may come between.  Investors share no row, so one is      *)
(* enough.                                                                 *)
(*                                                                         *)
(* The database runs at READ COMMITTED.  The upsert of a save locks the    *)
(* subscription's row until the save commits, so everything from the       *)
(* upsert to the commit is one action; what the save read before it is     *)
(* another.  Tokens are the facts they carry: a link is the secret that    *)
(* signed it, the request it names and the mailbox it was sent to.  Two    *)
(* readings of the clock never give the same microsecond.                  *)
(***************************************************************************)
EXTENDS Integers, FiniteSets

CONSTANTS
  Requests,   \* web requests running at the same time
  Addresses,  \* mailboxes the investor's account may name over time
  Secrets,    \* unsubscribe secrets (their hashes) that can be made
  Interval,   \* VERIFICATION_RESEND_INTERVAL
  Lifetime,   \* ALERT_VERIFICATION_TOKEN_TTL_HOURS
  MaxNow,     \* bound: clock
  MaxFaults   \* bound: requests that stop half-way
ASSUME TimesAreCounts == /\ Interval \in Nat /\ Lifetime \in Nat
                         /\ MaxNow \in Nat /\ MaxFaults \in Nat
ASSUME NoneIsNothing  == "none" \notin Addresses /\ "none" \notin Secrets

VARIABLES
  sub,        \* the alert_subscriptions row
  rule,       \* whether the default alert rule is on, "none" without one
  requests,   \* [Requests -> Request]
  now,        \* the next clock reading
  minted,     \* secrets made so far
  mailed,     \* verification links that reached a mailbox
  opened,     \* links someone opened
  tokens,     \* secrets somebody holds a working kind of unsubscribe token of
  failed,     \* request times that were marked failed
  lost,       \* request times of requests that stopped before their email
  spell,      \* history: request times since the address last changed
  faults

vars == <<sub, rule, requests, now, minted, mailed, opened, tokens,
          failed, lost, spell, faults>>

-----------------------------------------------------------------------------
Never    == 0
Statuses == {"unverified", "pending", "verified", "failed"}
Row      == [email: Addresses \cup {"none"}, enabled: BOOLEAN,
             status: Statuses, requested: Nat,
             secret: Secrets \cup {"none"}]
\* No row yet: its email is "none".
NoRow    == [email |-> "none", enabled |-> FALSE, status |-> "unverified",
             requested |-> Never, secret |-> "none"]
Links    == [secret: Secrets \cup {"none"}, at: Nat,
             to: Addresses \cup {"none"}]
NoLink   == [secret |-> "none", at |-> Never, to |-> "none"]

Kinds    == {"save", "resend", "confirm", "unsubscribe"}
\* read: what the request decides from is read; sending: its verification
\* request is committed; failing: the sender did not accept the email.
Phases   == {"idle", "read", "sending", "failing"}
Request  == [pc: Phases, kind: Kinds, on: BOOLEAN,
             address: Addresses \cup {"none"}, seen: Row, due: BOOLEAN,
             hash: Secrets \cup {"none"}, raw: BOOLEAN, at: Nat, link: Links]
Idle     == [pc |-> "idle", kind |-> "save", on |-> FALSE, address |-> "none",
             seen |-> NoRow, due |-> FALSE, hash |-> "none", raw |-> FALSE,
             at |-> Never, link |-> NoLink]

TypeOK ==
  /\ sub \in Row
  /\ rule \in {"none", "on", "off"}
  /\ requests \in [Requests -> Request]
  /\ now \in Nat
  /\ minted \subseteq Secrets
  /\ mailed \subseteq Links /\ opened \subseteq Links
  /\ tokens \subseteq Secrets
  /\ failed \subseteq Nat /\ lost \subseteq Nat /\ spell \subseteq Nat
  /\ faults \in Nat

Init ==
  /\ sub = NoRow
  /\ rule = "none"
  /\ requests = [r \in Requests |-> Idle]
  /\ now = 1
  /\ minted = {} /\ mailed = {} /\ opened = {} /\ tokens = {}
  /\ failed = {} /\ lost = {} /\ spell = {}
  /\ faults = 0

-----------------------------------------------------------------------------
(* Helpers *)

At(r, kind, pc) == requests[r].kind = kind /\ requests[r].pc = pc
Goes(r, q)      == requests' = [requests EXCEPT ![r] = q]
Ends(r)         == Goes(r, Idle)
ReadsClock      == now < MaxNow /\ now' = now + 1

\* Whether turning alerts on for this address sends a link now.
VerificationDue(row, address) ==
  \/ row.email # address
  \/ /\ row.status # "verified"
     /\ row.requested = Never \/ now - row.requested >= Interval

\* The investor's default rule after its upsert.
RuleWritten(on) == IF on THEN "on" ELSE "off"

\* A save that turns alerts on for a row without a secret makes a new one;
\* any other save writes the one it read.
SecretsFor(on) == IF on /\ sub.secret = "none" THEN Secrets \ minted
                                              ELSE {sub.secret}

\* The row after the upsert: a changed address loses its verification.
\* Mutant: the verification survives the change of address.
UpsertedKept(q) ==
  [sub EXCEPT !.email   = q.address,
              !.enabled = q.on,
              !.secret  = IF q.hash = "none" THEN @ ELSE q.hash]
Upserted(q) ==
  LET changed == sub.email # q.address
  IN  [sub EXCEPT !.email     = q.address,
                  !.enabled   = q.on,
                  !.status    = IF changed THEN "unverified" ELSE @,
                  !.requested = IF changed THEN Never ELSE @,
                  !.secret    = IF q.hash = "none" THEN @ ELSE q.hash]

\* Mutant: the status is not compared.
HoldsAnyStatus(row, email, status, requested) ==
  row.email = email /\ row.requested = requested
\* The row still holds the address, status and request time expected of it.
Holds(row, email, status, requested) ==
  /\ row.email = email
  /\ row.status = status
  /\ row.requested = requested

\* Mutant: a status the table does not have.
ReservedUnknown(row, at) == [row EXCEPT !.status = "sent", !.requested = at]
\* The row once a verification is requested; the link its email carries.
Reserved(row, at)    == [row EXCEPT !.status = "pending", !.requested = at]
LinkOf(row, at)      == [secret |-> row.secret, at |-> at, to |-> row.email]

\* Mutant: the request a link names is not compared.
LinkMatchesAny(row, link) ==
  /\ row.requested # Never
  /\ now - link.at <= Lifetime
  /\ link.secret = row.secret
\* A link the stored row accepts at this time.
LinkMatches(row, link) ==
  /\ row.secret # "none"
  /\ row.requested # Never
  /\ link.at = row.requested
  /\ now - link.at <= Lifetime
  /\ link.secret = row.secret

-----------------------------------------------------------------------------
(* save *)

\* Decides from the row as it is now whether a link is due and which secret
\* to write: the stored one, or a new one for a save that turns alerts on.
\* The address is the one the account named when the signed-in investor was
\* looked up, which may have changed since: any of them.
ReadSave(r, on, address) ==
  LET fresh == on /\ sub.secret = "none"
  IN /\ requests[r].pc = "idle"
     /\ ReadsClock
     /\ \E s \in SecretsFor(on) :
          /\ minted' = IF fresh THEN minted \cup {s} ELSE minted
          /\ Goes(r, [Idle EXCEPT !.pc = "read", !.on = on, !.at = now,
                                  !.address = address, !.hash = s,
                                  !.due = on /\ VerificationDue(sub, address),
                                  !.raw = fresh])
     /\ UNCHANGED <<sub, rule, mailed, opened, tokens, failed, lost,
                    spell, faults>>

\* Upsert of the row and of the rule, and the reservation, in one commit.  The
\* reservation compares with the row the upsert has locked and refreshed, so
\* it never finds another one.
WriteSave(r) ==
  LET q       == requests[r]
      row     == Upserted(q)
      reserve == q.due /\ row.status # "verified"
      before  == IF sub.email = q.address THEN spell ELSE {}
  IN /\ At(r, "save", "read")
     /\ sub' = IF reserve THEN Reserved(row, q.at) ELSE row
     /\ rule' = RuleWritten(q.on)
     /\ IF reserve
        THEN Goes(r, [Idle EXCEPT !.pc = "sending", !.link = LinkOf(row, q.at),
                                  !.raw = q.raw])
        ELSE Ends(r)
     /\ spell' = IF reserve THEN before \cup {q.at} ELSE before
     /\ tokens' = IF q.raw /\ ~reserve THEN tokens \cup {q.hash} ELSE tokens
     /\ UNCHANGED <<now, minted, mailed, opened, failed, lost, faults>>

-----------------------------------------------------------------------------
(* request_verification *)

AskResend(r) ==
  /\ requests[r].pc = "idle"
  /\ sub.email # "none" /\ sub.enabled
  /\ sub.status # "verified"
  /\ sub.requested = Never \/ now - sub.requested >= Interval
  /\ ReadsClock
  /\ Goes(r, [Idle EXCEPT !.kind = "resend", !.pc = "read", !.seen = sub,
                          !.at = now])
  /\ UNCHANGED <<sub, rule, minted, mailed, opened, tokens, failed,
                 lost, spell, faults>>

\* The reservation writes only over the state that was read.
WriteResend(r) ==
  LET q == requests[r]
  IN /\ At(r, "resend", "read")
     /\ IF Holds(sub, q.seen.email, q.seen.status, q.seen.requested)
        THEN /\ sub' = Reserved(sub, q.at)
             /\ spell' = spell \cup {q.at}
             /\ Goes(r, [Idle EXCEPT !.pc = "sending",
                                     !.link = LinkOf(sub, q.at)])
        ELSE UNCHANGED <<sub, spell>> /\ Ends(r)
     /\ UNCHANGED <<rule, now, minted, mailed, opened, tokens, failed,
                    lost, faults>>

-----------------------------------------------------------------------------
(* _send_verification, of a save or of a resend *)

\* Only an accepted email lets the save return the raw token it made.
SendAccepted(r) ==
  LET q == requests[r]
  IN /\ q.pc = "sending"
     /\ mailed' = mailed \cup {q.link}
     /\ tokens' = IF q.raw THEN tokens \cup {q.link.secret} ELSE tokens
     /\ Ends(r)
     /\ UNCHANGED <<sub, rule, now, minted, opened, failed, lost,
                    spell, faults>>

\* Mutant: the request is not marked failed.
SendForgotten(r) ==
  LET q == requests[r]
  IN /\ q.pc = "sending"
     /\ Ends(r)
     /\ UNCHANGED <<sub, rule, now, minted, mailed, opened, tokens,
                    failed, lost, spell, faults>>
\* Refused, unavailable or misconfigured; an unavailable provider may still
\* have delivered it.
SendRefused(r) ==
  LET q == requests[r]
  IN /\ q.pc = "sending"
     /\ \/ UNCHANGED mailed
        \/ mailed' = mailed \cup {q.link}
     /\ Goes(r, [q EXCEPT !.pc = "failing", !.raw = FALSE])
     /\ UNCHANGED <<sub, rule, now, minted, opened, tokens, failed,
                    lost, spell, faults>>

MarkFailed(r) ==
  LET q == requests[r]
      still == Holds(sub, q.link.to, "pending", q.link.at)
  IN /\ q.pc = "failing"
     /\ sub' = IF still THEN [sub EXCEPT !.status = "failed"] ELSE sub
     /\ failed' = IF still THEN failed \cup {q.link.at} ELSE failed
     /\ Ends(r)
     /\ UNCHANGED <<rule, now, minted, mailed, opened, tokens, lost,
                    spell, faults>>

-----------------------------------------------------------------------------
(* confirm *)

\* Someone opens a link; one that does not match, or whose request is no
\* longer pending, is refused without a write.
OpenLink(r) ==
  /\ requests[r].pc = "idle"
  /\ \E link \in mailed :
       /\ LinkMatches(sub, link)
       /\ sub.status = "pending"
       /\ opened' = opened \cup {link}
       /\ Goes(r, [Idle EXCEPT !.kind = "confirm", !.pc = "read", !.seen = sub,
                               !.link = link])
  /\ ReadsClock
  /\ UNCHANGED <<sub, rule, minted, mailed, tokens, failed, lost,
                 spell, faults>>

WriteConfirm(r) ==
  LET q == requests[r]
  IN /\ At(r, "confirm", "read")
     /\ sub' = IF Holds(sub, q.seen.email, "pending", q.seen.requested)
               THEN [sub EXCEPT !.status = "verified"] ELSE sub
     /\ Ends(r)
     /\ UNCHANGED <<rule, now, minted, mailed, opened, tokens, failed,
                    lost, spell, faults>>

-----------------------------------------------------------------------------
(* unsubscribe, with a raw or a signed token *)

\* Someone holds a token, raw or signed, that names the stored secret.
TokenMatches == sub.secret # "none" /\ sub.secret \in tokens

AskUnsubscribe(r) ==
  /\ requests[r].pc = "idle"
  /\ TokenMatches
  /\ Goes(r, [Idle EXCEPT !.kind = "unsubscribe", !.pc = "read",
                          !.hash = sub.secret])
  /\ UNCHANGED <<sub, rule, now, minted, mailed, opened, tokens,
                 failed, lost, spell, faults>>

Disable(r) ==
  LET q == requests[r]
  IN /\ At(r, "unsubscribe", "read")
     /\ sub' = IF sub.secret = q.hash THEN [sub EXCEPT !.enabled = FALSE]
                                      ELSE sub
     /\ Ends(r)
     /\ UNCHANGED <<rule, now, minted, mailed, opened, tokens, failed,
                    lost, spell, faults>>

-----------------------------------------------------------------------------
(* The rest of the system *)

\* Alert delivery mails an alert with an unsubscribe link signed with the
\* stored hash.
AlertMailed ==
  /\ sub.enabled /\ sub.status = "verified" /\ rule = "on"
  /\ sub.secret \notin tokens
  /\ tokens' = tokens \cup {sub.secret}
  /\ UNCHANGED <<sub, rule, requests, now, minted, mailed, opened,
                 failed, lost, spell, faults>>

TimePasses ==
  /\ ReadsClock
  /\ UNCHANGED <<sub, rule, requests, minted, mailed, opened, tokens,
                 failed, lost, spell, faults>>

\* A request stops between two of its steps.
Stop(r) ==
  LET q == requests[r]
  IN /\ q.pc \in {"sending", "failing"} /\ faults < MaxFaults
     /\ faults' = faults + 1
     /\ lost' = lost \cup {q.link.at}
     /\ Ends(r)
     /\ UNCHANGED <<sub, rule, now, minted, mailed, opened, tokens,
                    failed, spell>>

Steps(r) ==
  \/ WriteSave(r)
  \/ WriteResend(r)
  \/ SendAccepted(r) \/ SendRefused(r) \/ MarkFailed(r)
  \/ WriteConfirm(r) \/ Disable(r)

Next ==
  \/ \E r \in Requests :
       \/ \E on \in BOOLEAN, a \in Addresses : ReadSave(r, on, a)
       \/ AskResend(r) \/ OpenLink(r) \/ AskUnsubscribe(r)
       \/ Steps(r)
       \/ Stop(r)
  \/ AlertMailed
  \/ TimePasses

Spec == Init /\ [][Next]_vars

-----------------------------------------------------------------------------
(* Properties *)

\* The address is verified only if its holder opened a link mailed to it for
\* a request made since it last became the address: an address change, a
\* newer request or a failed email between confirm's read and its write is
\* noticed.
VerifiedByHolder ==
  sub.status = "verified" =>
    \E link \in opened : link.to = sub.email /\ link.at \in spell

\* A request whose email was reported unsent never ends up verified, though
\* its link may have arrived all the same.
FailedLinkIsDead ==
  sub.status = "verified" => sub.requested \notin failed

\* A verified address loses its verification only when the address changes:
\* no late save, resend or failure report takes it back.
VerifiedIsKept ==
  [][(sub.status = "verified" /\ sub'.email = sub.email)
       => sub'.status = "verified"]_vars

\* A pending verification is never left without an email by anything but a
\* request that stopped half-way: its link was mailed, or a request is about
\* to mail it or to mark it failed.
PendingIsMailed ==
  sub.status = "pending" =>
    \/ sub.requested \in lost \cup {link.at : link \in mailed}
    \/ \E r \in Requests : /\ requests[r].pc \in {"sending", "failing"}
                           /\ requests[r].link.at = sub.requested
                           /\ requests[r].link.to = sub.email

\* What the subscription promises of addresses.
Promise == INSTANCE ConsentPromise WITH
  address  <- sub.email,
  verified <- sub.status = "verified",
  opened   <- \E link \in opened : link.to = sub.email /\ link.at \in spell
ConsentKept == Promise!Spec

\* "an address still waiting for verification gets a new one at most once a
\* minute" (app/services/alert_subscriptions.py:182).
OncePerInterval ==
  [][(/\ sub'.status = "pending" /\ sub'.email = sub.email
      /\ sub'.requested # sub.requested /\ sub.requested # Never)
       => sub'.requested - sub.requested >= Interval]_vars
=============================================================================
