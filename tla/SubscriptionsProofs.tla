------------------------ MODULE SubscriptionsProofs ------------------------
(***************************************************************************)
(* Proofs about Subscriptions for every number of requests, addresses and  *)
(* secrets, every interval and lifetime, and any fault bound.              *)
(***************************************************************************)
EXTENDS Subscriptions, TLAPS

(* A request that will name its time in a link; one that still has a link. *)
Reading(r) == requests[r].pc = "read" /\ requests[r].kind \in {"save", "resend"}
Posting(r) == requests[r].pc \in {"sending", "failing"}

(* What the phase of a request says about its other fields.                *)
Shape(r) ==
  /\ At(r, "save", "read") =>
       /\ requests[r].address \in Addresses
       /\ requests[r].on \/ requests[r].raw => requests[r].hash # "none"
  /\ Posting(r) /\ requests[r].raw => requests[r].link.secret # "none"
  /\ At(r, "resend", "read") =>
       requests[r].seen.status # "verified" /\ requests[r].seen.email # "none"
  /\ At(r, "confirm", "read") =>
       /\ requests[r].link \in opened
       /\ requests[r].link.at = requests[r].seen.requested
       /\ requests[r].seen.requested # Never

Shapes == \A r \in Requests : Shape(r)

(* No link and no failure has the time t.                                  *)
Fresh(t) ==
  /\ t # Never /\ t < now
  /\ t \notin failed
  /\ \A l \in mailed : l.at # t
  /\ \A s \in Requests : Posting(s) => requests[s].link.at # t

(* Times identify requests: they are in the past, and no two are equal.     *)
TimesUnique ==
  /\ Never < now
  /\ \A t \in failed : t < now
  /\ \A l \in mailed : l.at < now
  /\ \A s \in Requests : Posting(s) => requests[s].link.at < now
  /\ \A r \in Requests : Reading(r) => Fresh(requests[r].at)
  /\ \A r, s \in Requests :
       Reading(r) /\ Reading(s) /\ requests[r].at = requests[s].at => r = s

(* A request the row waits for was made since the row has its address, and  *)
(* every link of that request goes there.                                  *)
LinksNameRow ==
  sub.requested # Never =>
    /\ sub.requested \in spell
    /\ sub.email \in Addresses
    /\ \A l \in mailed : l.at = sub.requested => l.to = sub.email
    /\ \A s \in Requests :
         Posting(s) /\ requests[s].link.at = sub.requested
           => requests[s].link.to = sub.email

(* Alerts are never on without an unsubscribe secret.                       *)
EnabledHasSecret == sub.enabled => sub.secret # "none"

FailedIsOver == sub.status \in {"pending", "verified"} => sub.requested \notin failed

Inv ==
  /\ TypeOK
  /\ Shapes
  /\ opened \subseteq mailed
  /\ TimesUnique
  /\ LinksNameRow
  /\ EnabledHasSecret
  /\ FailedIsOver
  /\ VerifiedByHolder
  /\ PendingIsMailed
-----------------------------------------------------------------------------
(* Each action keeps the invariant.                                        *)

(* An idle request is a request. *)
LEMMA IdleIsRequest == Idle \in Request
  BY DEF Idle, Request, Row, Links, Phases, Kinds, Statuses, NoRow, NoLink, Never

(* A request that goes on as a request leaves the requests well typed. *)
LEMMA GoesType ==
  ASSUME TypeOK, NEW r \in Requests, NEW q \in Request, Goes(r, q)
  PROVE  requests' \in [Requests -> Request]
  BY DEF TypeOK, Goes

(* A save has read what it decides from. *)
LEMMA SaveRead ==
  ASSUME Inv, NEW r \in Requests, NEW on \in BOOLEAN, NEW a \in Addresses, ReadSave(r, on, a)
  PROVE  Inv'
  <1>1. TypeOK'
    <2>1. PICK s \in SecretsFor(on) :
            /\ Goes(r, [Idle EXCEPT !.pc = "read", !.on = on, !.at = now,
                                    !.address = a, !.hash = s,
                                    !.due = on /\ VerificationDue(sub, a),
                                    !.raw = on /\ sub.secret = "none"])
            /\ minted' = IF on /\ sub.secret = "none" THEN minted \cup {s} ELSE minted
      BY DEF ReadSave
    <2>2. [Idle EXCEPT !.pc = "read", !.on = on, !.at = now, !.address = a, !.hash = s,
                       !.due = on /\ VerificationDue(sub, a),
                       !.raw = on /\ sub.secret = "none"] \in Request
      <3>1. (on /\ VerificationDue(sub, a)) \in BOOLEAN
        BY DEF VerificationDue
      <3>2. (on /\ sub.secret = "none") \in BOOLEAN
        OBVIOUS
      <3>3. s \in Secrets \cup {"none"} /\ now \in Nat
        BY <2>1 DEF SecretsFor, Inv, TypeOK, Row
      <3> QED
        BY <3>1, <3>2, <3>3, IdleIsRequest DEF Request, Phases, Idle
    <2>3. requests' \in [Requests -> Request]
      BY <2>1, <2>2, GoesType DEF Inv
    <2>4. minted' \subseteq Secrets
      BY <2>1 DEF SecretsFor, Inv, TypeOK
    <2> QED
      BY <2>3, <2>4 DEF Inv, TypeOK, ReadSave, ReadsClock
  <1>2. Shapes'
    <2>1. PICK s \in SecretsFor(on) :
            Goes(r, [Idle EXCEPT !.pc = "read", !.on = on, !.at = now,
                                 !.address = a, !.hash = s,
                                 !.due = on /\ VerificationDue(sub, a),
                                 !.raw = on /\ sub.secret = "none"])
      BY DEF ReadSave
    <2>2. on => s # "none"
      BY <2>1, NoneIsNothing DEF SecretsFor
    <2>3. /\ requests'[r].kind = "save" /\ requests'[r].pc = "read"
          /\ requests'[r].address = a
          /\ requests'[r].on \/ requests'[r].raw => requests'[r].hash # "none"
          /\ \A t \in Requests : t # r => requests'[t] = requests[t]
      BY <2>1, <2>2 DEF Goes, Idle, Inv, TypeOK
    <2>4. UNCHANGED opened
      BY DEF ReadSave
    <2> QED
      BY <2>3, <2>4 DEF Inv, Shapes, Shape, At, Posting
  <1>3. (opened \subseteq mailed)'
    BY DEF Inv, ReadSave
  <1>4. TimesUnique'
    BY DEF Inv, TypeOK, Request, Links, TimesUnique, Fresh, Reading, Posting,
           ReadSave, ReadsClock, Goes, Never
  <1>5. LinksNameRow'
    BY DEF Inv, LinksNameRow, Posting, ReadSave, Goes
  <1>6. EnabledHasSecret'
    BY DEF Inv, EnabledHasSecret, ReadSave
  <1>7. FailedIsOver'
    BY DEF Inv, FailedIsOver, ReadSave
  <1>8. VerifiedByHolder'
    BY DEF Inv, VerifiedByHolder, ReadSave
  <1>9. PendingIsMailed'
    BY DEF Inv, PendingIsMailed, ReadSave, Goes
  <1> QED
    BY <1>1, <1>2, <1>3, <1>4, <1>5, <1>6, <1>7, <1>8, <1>9 DEF Inv

(* A resend has read the row. *)
LEMMA ResendRead ==
  ASSUME Inv, NEW r \in Requests, AskResend(r)
  PROVE  Inv'
  <1>1. TypeOK'
    <2>1. [Idle EXCEPT !.kind = "resend", !.pc = "read", !.seen = sub, !.at = now] \in Request
      BY IdleIsRequest DEF Inv, TypeOK, Request, Phases, Kinds, Idle
    <2>2. requests' \in [Requests -> Request]
      BY <2>1, GoesType DEF AskResend, Inv
    <2> QED
      BY <2>2 DEF Inv, TypeOK, AskResend, ReadsClock
  <1>2. Shapes'
    BY DEF Inv, Shapes, Shape, At, Posting, AskResend, Goes
  <1>3. (opened \subseteq mailed)'
    BY DEF Inv, AskResend
  <1>4. TimesUnique'
    BY DEF Inv, TypeOK, Request, Links, TimesUnique, Fresh, Reading, Posting,
           AskResend, ReadsClock, Goes, Never
  <1>5. LinksNameRow'
    BY DEF Inv, LinksNameRow, Posting, AskResend, Goes
  <1>6. EnabledHasSecret'
    BY DEF Inv, EnabledHasSecret, AskResend
  <1>7. FailedIsOver'
    BY DEF Inv, FailedIsOver, AskResend
  <1>8. VerifiedByHolder'
    BY DEF VerifiedByHolder, AskResend
  <1>9. PendingIsMailed'
    BY DEF Inv, PendingIsMailed, AskResend, Goes
  <1> QED
    BY <1>1, <1>2, <1>3, <1>4, <1>5, <1>6, <1>7, <1>8, <1>9 DEF Inv

(* The sender accepted a link. *)
LEMMA Accepted ==
  ASSUME Inv, NEW r \in Requests, SendAccepted(r)
  PROVE  Inv'
  <1>1. TypeOK'
    <2>1. requests[r].link \in Links
      BY DEF Inv, TypeOK, Request
    <2>2. requests' \in [Requests -> Request]
      BY IdleIsRequest, GoesType DEF SendAccepted, Ends, Inv
    <2>3. requests[r].raw => requests[r].link.secret \in Secrets
      BY <2>1 DEF SendAccepted, Inv, Shapes, Shape, Posting, Links
    <2>4. tokens' \subseteq Secrets
      BY <2>3 DEF SendAccepted, Inv, TypeOK
    <2> QED
      BY <2>1, <2>2, <2>4 DEF Inv, TypeOK, SendAccepted
  <1>2. Shapes'
    BY DEF Inv, Shapes, Shape, At, Posting, SendAccepted, Goes, Ends, Idle
  <1>3. (opened \subseteq mailed)'
    BY DEF Inv, SendAccepted
  <1>4. TimesUnique'
    BY DEF Inv, TimesUnique, Fresh, Reading, Posting, SendAccepted, Goes,
           Ends, Idle
  <1>5. LinksNameRow'
    BY DEF Inv, LinksNameRow, Posting, SendAccepted, Goes, Ends, Idle
  <1>6. EnabledHasSecret'
    BY DEF Inv, EnabledHasSecret, SendAccepted
  <1>7. FailedIsOver'
    BY DEF Inv, FailedIsOver, SendAccepted
  <1>8. VerifiedByHolder'
    BY DEF Inv, VerifiedByHolder, SendAccepted
  <1>9. PendingIsMailed'
    BY DEF Inv, PendingIsMailed, SendAccepted, Goes, Ends
  <1> QED
    BY <1>1, <1>2, <1>3, <1>4, <1>5, <1>6, <1>7, <1>8, <1>9 DEF Inv

(* The sender did not accept a link. *)
LEMMA Refused ==
  ASSUME Inv, NEW r \in Requests, SendRefused(r)
  PROVE  Inv'
  <1>1. TypeOK'
    <2>1. requests[r] \in Request /\ requests[r].link \in Links
      BY DEF Inv, TypeOK, Request
    <2>2. [requests[r] EXCEPT !.pc = "failing", !.raw = FALSE] \in Request
      BY <2>1 DEF Request, Phases
    <2>3. requests' \in [Requests -> Request]
      BY <2>2, GoesType DEF SendRefused, Inv
    <2> QED
      BY <2>1, <2>3 DEF Inv, TypeOK, SendRefused
  <1>2. Shapes'
    BY DEF Inv, Shapes, Shape, At, Posting, SendRefused, Goes
  <1>3. (opened \subseteq mailed)'
    BY DEF Inv, SendRefused
  <1>4. TimesUnique'
    BY DEF Inv, TimesUnique, Fresh, Reading, Posting, SendRefused, Goes
  <1>5. LinksNameRow'
    BY DEF Inv, LinksNameRow, Posting, SendRefused, Goes
  <1>6. EnabledHasSecret'
    BY DEF Inv, EnabledHasSecret, SendRefused
  <1>7. FailedIsOver'
    BY DEF Inv, FailedIsOver, SendRefused
  <1>8. VerifiedByHolder'
    BY DEF Inv, VerifiedByHolder, SendRefused
  <1>9. PendingIsMailed'
    BY DEF Inv, PendingIsMailed, SendRefused, Goes
  <1> QED
    BY <1>1, <1>2, <1>3, <1>4, <1>5, <1>6, <1>7, <1>8, <1>9 DEF Inv

(* A request is marked failed, unless the row has moved on. *)
LEMMA Failed ==
  ASSUME Inv, NEW r \in Requests, MarkFailed(r)
  PROVE  Inv'
  <1>1. TypeOK'
    BY DEF Inv, TypeOK, Request, Row, Links, Phases, Kinds, Statuses,
           MarkFailed, Goes, Ends, Idle, NoLink, NoRow, Never
  <1>2. Shapes'
    BY DEF Inv, Shapes, Shape, At, Posting, MarkFailed, Goes, Ends, Idle
  <1>3. (opened \subseteq mailed)'
    BY DEF Inv, MarkFailed
  <1>4. TimesUnique'
    BY DEF Inv, TimesUnique, Fresh, Reading, Posting, MarkFailed, Goes, Ends,
           Idle
  <1>5. LinksNameRow'
    BY DEF Inv, LinksNameRow, Posting, MarkFailed, Goes, Ends, Idle
  <1>6. EnabledHasSecret'
    BY DEF Inv, EnabledHasSecret, MarkFailed
  <1>7. FailedIsOver'
    BY DEF Inv, FailedIsOver, MarkFailed
  <1>8. VerifiedByHolder'
    BY DEF Inv, VerifiedByHolder, MarkFailed
  <1>9. PendingIsMailed'
    BY DEF Inv, PendingIsMailed, MarkFailed, Holds, Goes, Ends
  <1> QED
    BY <1>1, <1>2, <1>3, <1>4, <1>5, <1>6, <1>7, <1>8, <1>9 DEF Inv

(* A matching link is opened. *)
LEMMA Opened ==
  ASSUME Inv, NEW r \in Requests, OpenLink(r)
  PROVE  Inv'
  <1>1. TypeOK'
    <2>1. PICK link \in mailed :
            /\ opened' = opened \cup {link}
            /\ Goes(r, [Idle EXCEPT !.kind = "confirm", !.pc = "read", !.seen = sub,
                                    !.link = link])
      BY DEF OpenLink
    <2>2. [Idle EXCEPT !.kind = "confirm", !.pc = "read", !.seen = sub, !.link = link]
            \in Request
      BY IdleIsRequest DEF Inv, TypeOK, Request, Phases, Kinds, Idle
    <2>3. requests' \in [Requests -> Request]
      BY <2>1, <2>2, GoesType DEF Inv
    <2> QED
      BY <2>1, <2>3 DEF Inv, TypeOK, OpenLink, ReadsClock
  <1>2. Shapes'
    BY DEF Inv, Shapes, Shape, At, Posting, OpenLink, LinkMatches, Goes
  <1>3. (opened \subseteq mailed)'
    BY DEF Inv, OpenLink
  <1>4. TimesUnique'
    BY DEF Inv, TypeOK, Request, Links, TimesUnique, Fresh, Reading, Posting,
           OpenLink, ReadsClock, Goes, Never
  <1>5. LinksNameRow'
    BY DEF Inv, LinksNameRow, Posting, OpenLink, Goes
  <1>6. EnabledHasSecret'
    BY DEF Inv, EnabledHasSecret, OpenLink
  <1>7. FailedIsOver'
    BY DEF Inv, FailedIsOver, OpenLink
  <1>8. VerifiedByHolder'
    BY DEF VerifiedByHolder, OpenLink
  <1>9. PendingIsMailed'
    BY DEF PendingIsMailed, OpenLink, LinkMatches
  <1> QED
    BY <1>1, <1>2, <1>3, <1>4, <1>5, <1>6, <1>7, <1>8, <1>9 DEF Inv

(* A confirmation is committed, unless the row has moved on. *)
LEMMA Confirmed ==
  ASSUME Inv, NEW r \in Requests, WriteConfirm(r)
  PROVE  Inv'
  <1>1. TypeOK'
    BY DEF Inv, TypeOK, Request, Row, Links, Phases, Kinds, Statuses,
           WriteConfirm, Goes, Ends, Idle, NoLink, NoRow, Never
  <1>2. Shapes'
    BY DEF Inv, Shapes, Shape, At, Posting, WriteConfirm, Goes, Ends, Idle
  <1>3. (opened \subseteq mailed)'
    BY DEF Inv, WriteConfirm
  <1>4. TimesUnique'
    BY DEF Inv, TimesUnique, Fresh, Reading, Posting, WriteConfirm, Goes,
           Ends, Idle
  <1>5. LinksNameRow'
    BY DEF Inv, LinksNameRow, Posting, WriteConfirm, Goes, Ends, Idle
  <1>6. EnabledHasSecret'
    BY DEF Inv, EnabledHasSecret, WriteConfirm
  <1>7. FailedIsOver'
    BY DEF Inv, FailedIsOver, WriteConfirm, Holds
  <1>8. VerifiedByHolder'
    BY DEF Inv, VerifiedByHolder, LinksNameRow, Shapes, Shape, WriteConfirm,
           Holds
  <1>9. PendingIsMailed'
    BY DEF Inv, PendingIsMailed, At, WriteConfirm, Goes, Ends
  <1> QED
    BY <1>1, <1>2, <1>3, <1>4, <1>5, <1>6, <1>7, <1>8, <1>9 DEF Inv

(* An unsubscribe has read the row. *)
LEMMA Asked ==
  ASSUME Inv, NEW r \in Requests, AskUnsubscribe(r)
  PROVE  Inv'
  <1>1. TypeOK'
    <2>1. [Idle EXCEPT !.kind = "unsubscribe", !.pc = "read", !.hash = sub.secret] \in Request
      BY IdleIsRequest DEF Inv, TypeOK, Request, Row, Phases, Kinds, Idle
    <2>2. requests' \in [Requests -> Request]
      BY <2>1, GoesType DEF AskUnsubscribe, Inv
    <2> QED
      BY <2>2 DEF Inv, TypeOK, AskUnsubscribe
  <1>2. Shapes'
    BY DEF Inv, Shapes, Shape, At, Posting, AskUnsubscribe, Goes
  <1>3. (opened \subseteq mailed)'
    BY DEF Inv, AskUnsubscribe
  <1>4. TimesUnique'
    BY DEF Inv, TimesUnique, Fresh, Reading, Posting, AskUnsubscribe, Goes
  <1>5. LinksNameRow'
    BY DEF Inv, LinksNameRow, Posting, AskUnsubscribe, Goes
  <1>6. EnabledHasSecret'
    BY DEF Inv, EnabledHasSecret, AskUnsubscribe
  <1>7. FailedIsOver'
    BY DEF Inv, FailedIsOver, AskUnsubscribe
  <1>8. VerifiedByHolder'
    BY DEF Inv, VerifiedByHolder, AskUnsubscribe
  <1>9. PendingIsMailed'
    BY DEF Inv, PendingIsMailed, AskUnsubscribe, Goes
  <1> QED
    BY <1>1, <1>2, <1>3, <1>4, <1>5, <1>6, <1>7, <1>8, <1>9 DEF Inv

(* Alerts are turned off. *)
LEMMA Disabled ==
  ASSUME Inv, NEW r \in Requests, Disable(r)
  PROVE  Inv'
  <1>1. TypeOK'
    <2>1. requests' \in [Requests -> Request]
      BY IdleIsRequest, GoesType DEF Disable, Ends, Inv
    <2>2. sub' \in Row
      BY DEF Disable, Inv, TypeOK, Row
    <2> QED
      BY <2>1, <2>2 DEF Inv, TypeOK, Disable
  <1>2. Shapes'
    BY DEF Inv, Shapes, Shape, At, Posting, Disable, Goes, Ends, Idle
  <1>3. (opened \subseteq mailed)'
    BY DEF Inv, Disable
  <1>4. TimesUnique'
    BY DEF Inv, TimesUnique, Fresh, Reading, Posting, Disable, Goes, Ends,
           Idle
  <1>5. LinksNameRow'
    BY DEF Inv, LinksNameRow, Posting, Disable, Goes, Ends, Idle
  <1>6. EnabledHasSecret'
    BY DEF Inv, EnabledHasSecret, Disable
  <1>7. FailedIsOver'
    BY DEF Inv, FailedIsOver, Disable
  <1>8. VerifiedByHolder'
    BY DEF Inv, VerifiedByHolder, Disable
  <1>9. PendingIsMailed'
    BY DEF Inv, PendingIsMailed, At, Disable, Goes, Ends
  <1> QED
    BY <1>1, <1>2, <1>3, <1>4, <1>5, <1>6, <1>7, <1>8, <1>9 DEF Inv

(* A request stops. *)
LEMMA Stopped ==
  ASSUME Inv, NEW r \in Requests, Stop(r)
  PROVE  Inv'
  <1>1. TypeOK'
    <2>1. requests[r].link.at \in Nat
      BY DEF Inv, TypeOK, Request, Links
    <2>2. requests' \in [Requests -> Request]
      BY IdleIsRequest, GoesType DEF Stop, Ends, Inv
    <2>3. lost' \subseteq Nat /\ faults' \in Nat
      <3>1. lost' = lost \cup {requests[r].link.at} /\ lost \subseteq Nat
        BY DEF Stop, Inv, TypeOK
      <3>2. faults' = faults + 1 /\ faults \in Nat
        BY DEF Stop, Inv, TypeOK
      <3>3. lost' \subseteq Nat
        BY <2>1, <3>1
      <3>4. faults' \in Nat
        BY <3>2
      <3> QED
        BY <3>3, <3>4
    <2>4. UNCHANGED <<sub, rule, now, minted, mailed, opened, tokens, failed, spell>>
      BY DEF Stop
    <2> QED
      BY <2>2, <2>3, <2>4 DEF Inv, TypeOK
  <1>2. Shapes'
    BY DEF Inv, Shapes, Shape, At, Posting, Stop, Goes, Ends, Idle
  <1>3. (opened \subseteq mailed)'
    BY DEF Inv, Stop
  <1>4. TimesUnique'
    BY DEF Inv, TimesUnique, Fresh, Reading, Posting, Stop, Goes, Ends, Idle
  <1>5. LinksNameRow'
    BY DEF Inv, LinksNameRow, Posting, Stop, Goes, Ends, Idle
  <1>6. EnabledHasSecret'
    BY DEF Inv, EnabledHasSecret, Stop
  <1>7. FailedIsOver'
    BY DEF Inv, FailedIsOver, Stop
  <1>8. VerifiedByHolder'
    BY DEF Inv, VerifiedByHolder, Stop
  <1>9. PendingIsMailed'
    BY DEF Inv, PendingIsMailed, Stop, Goes, Ends
  <1> QED
    BY <1>1, <1>2, <1>3, <1>4, <1>5, <1>6, <1>7, <1>8, <1>9 DEF Inv

(* A save is committed: the row is upserted, and a due verification reserved. *)
LEMMA SaveWritten ==
  ASSUME Inv, NEW r \in Requests, WriteSave(r)
  PROVE  Inv'
  <1> DEFINE q == requests[r]
             row == Upserted(q)
             reserve == q.due /\ row.status # "verified"
             next == [Idle EXCEPT !.pc = "sending", !.link = LinkOf(row, q.at),
                                  !.raw = q.raw]
  <1>1. /\ q \in Request /\ q.pc = "read" /\ q.kind = "save"
        /\ q.address \in Addresses /\ Reading(r) /\ Fresh(q.at)
        /\ q.at \in Nat /\ ~Posting(r)
    BY DEF Inv, TypeOK, WriteSave, At, Shapes, Shape, Reading, Posting, TimesUnique, Request
  <1>2. /\ row \in Row /\ row.email = q.address
        /\ sub.email = q.address =>
             row.status = sub.status /\ row.requested = sub.requested
        /\ sub.email # q.address =>
             row.status = "unverified" /\ row.requested = Never
    BY <1>1 DEF Inv, TypeOK, Upserted, Row, Request, Statuses, Never
  <1>3. UNCHANGED <<now, minted, mailed, opened, failed, lost, faults>>
    BY DEF WriteSave
  <1>4. /\ rule' \in {"none", "on", "off"}
        /\ tokens' \subseteq Secrets
    <2>1. q.raw => q.hash \in Secrets
      BY <1>1 DEF Request, Inv, Shapes, Shape, At
    <2> QED
      BY <2>1 DEF WriteSave, RuleWritten, Inv, TypeOK
  <1>5. /\ row.enabled => row.secret # "none"
        /\ q.raw => row.secret # "none"
    BY <1>1 DEF Inv, TypeOK, Row, Request, Upserted, Shapes, Shape, At
  <1>6. CASE reserve
    <2>1. /\ next \in Request /\ next.pc = "sending" /\ next.kind = "save"
          /\ next.link.at = q.at /\ next.link.to = q.address
      <3>1. LinkOf(row, q.at) \in Links /\ q.raw \in BOOLEAN
        BY <1>1, <1>2 DEF LinkOf, Links, Row, Request
      <3> QED
        BY <1>2, <3>1, IdleIsRequest DEF Request, Phases, Idle, LinkOf
    <2>2. /\ sub' \in Row /\ sub'.email = q.address
          /\ sub'.status = "pending" /\ sub'.requested = q.at
      BY <1>1, <1>2, <1>6 DEF WriteSave, Reserved, Row, Statuses
    <2>3. EnabledHasSecret'
      BY <1>1, <1>2, <1>5, <1>6 DEF WriteSave, Reserved, Row, EnabledHasSecret
    <2>4. next.raw => next.link.secret # "none"
      BY <1>5, IdleIsRequest DEF LinkOf, Idle
    <2>5. requests' = [requests EXCEPT ![r] = next]
      BY <1>6 DEF WriteSave, Goes
    <2>6. q.at \in spell' /\ spell' \subseteq spell \cup {q.at}
      BY <1>6 DEF WriteSave
    <2> HIDE DEF q, row, reserve, next
    <2>7. /\ requests \in [Requests -> Request]
          /\ requests'[r] = next
          /\ \A s \in Requests : s # r => requests'[s] = requests[s]
      BY <2>5 DEF Inv, TypeOK
    <2>8. /\ Posting(r)' /\ ~Reading(r)'
          /\ \A s \in Requests : s # r =>
               (Posting(s)' <=> Posting(s)) /\ (Reading(s)' <=> Reading(s))
      BY <2>1, <2>7 DEF Posting, Reading
    <2>9. TypeOK'
      BY <1>1, <1>3, <1>4, <2>1, <2>2, <2>5, <2>6 DEF Inv, TypeOK
    <2>10. Shapes'
      BY <1>3, <2>1, <2>4, <2>7, <2>8 DEF Inv, Shapes, Shape, At
    <2>11. TimesUnique'
      <3>1. \A s \in Requests : Reading(s) /\ s # r => requests[s].at # q.at
        BY <1>1 DEF Inv, TimesUnique, q
      <3> QED
        BY <1>1, <1>3, <2>1, <2>7, <2>8, <3>1 DEF Inv, TimesUnique, Fresh
    <2>12. LinksNameRow'
      BY <1>1, <1>3, <2>1, <2>2, <2>6, <2>7, <2>8 DEF LinksNameRow, Fresh
    <2>13. FailedIsOver'
      BY <1>1, <1>3, <2>2 DEF FailedIsOver, Fresh
    <2>14. VerifiedByHolder'
      BY <2>2 DEF VerifiedByHolder
    <2>15. PendingIsMailed'
      BY <2>1, <2>2, <2>7 DEF PendingIsMailed
    <2> QED
      BY <1>3, <2>9, <2>10, <2>11, <2>12, <2>13, <2>14, <2>15, <2>3 DEF Inv
  <1>7. CASE ~reserve
    <2>1. sub' = row /\ requests' = [requests EXCEPT ![r] = Idle]
      BY <1>7 DEF WriteSave, Ends, Goes
    <2>2. spell' \subseteq spell /\ (sub.email = q.address => spell' = spell)
      BY <1>7 DEF WriteSave
    <2> HIDE DEF q, row, reserve
    <2>3. /\ requests \in [Requests -> Request]
          /\ requests'[r] = Idle
          /\ \A s \in Requests : s # r => requests'[s] = requests[s]
      BY <2>1 DEF Inv, TypeOK
    <2>4. /\ ~Posting(r)' /\ ~Reading(r)'
          /\ \A s \in Requests : s # r =>
               (Posting(s)' <=> Posting(s)) /\ (Reading(s)' <=> Reading(s))
      BY <2>3 DEF Posting, Reading, Idle
    <2>5. TypeOK'
      BY <1>2, <1>3, <1>4, <2>1, <2>2, IdleIsRequest DEF Inv, TypeOK
    <2>6. Shapes'
      BY <1>3, <2>3, <2>4 DEF Inv, Shapes, Shape, At, Idle
    <2>7. EnabledHasSecret'
      BY <1>5, <2>1 DEF EnabledHasSecret
    <2>8. TimesUnique'
      BY <1>3, <2>3, <2>4 DEF Inv, TimesUnique, Fresh
    <2>9. LinksNameRow'
      BY <1>1, <1>2, <1>3, <2>1, <2>2, <2>3, <2>4 DEF Inv, LinksNameRow
    <2>10. FailedIsOver'
      BY <1>2, <1>3, <2>1 DEF Inv, FailedIsOver
    <2>11. VerifiedByHolder'
      BY <1>2, <1>3, <2>1, <2>2 DEF Inv, VerifiedByHolder
    <2>12. PendingIsMailed'
      BY <1>1, <1>2, <1>3, <2>1, <2>3 DEF Inv, PendingIsMailed, Posting, q
    <2> QED
      BY <1>3, <2>5, <2>6, <2>8, <2>9, <2>10, <2>11, <2>12, <2>7 DEF Inv
  <1> QED
    BY <1>6, <1>7

(* A resend is committed, unless the row is not as it was read. *)
LEMMA ResendWritten ==
  ASSUME Inv, NEW r \in Requests, WriteResend(r)
  PROVE  Inv'
  <1> DEFINE q == requests[r]
             still == Holds(sub, q.seen.email, q.seen.status, q.seen.requested)
             next == [Idle EXCEPT !.pc = "sending", !.link = LinkOf(sub, q.at)]
  <1>1. /\ q \in Request /\ q.pc = "read" /\ q.kind = "resend"
        /\ q.seen.status # "verified" /\ q.seen.email # "none"
        /\ Reading(r) /\ Fresh(q.at) /\ q.at \in Nat /\ ~Posting(r)
    BY DEF Inv, TypeOK, WriteResend, At, Shapes, Shape, Reading, Posting, TimesUnique, Request
  <1>2. UNCHANGED <<rule, now, minted, mailed, opened, tokens, failed, lost, faults>>
    BY DEF WriteResend
  <1>3. CASE still
    <2>1. sub.email \in Addresses
      BY <1>1, <1>3 DEF Holds, Inv, TypeOK, Row
    <2>2. /\ next \in Request /\ next.pc = "sending" /\ next.kind = "save"
          /\ next.link.at = q.at /\ next.link.to = sub.email /\ ~next.raw
      <3>1. LinkOf(sub, q.at) \in Links
        BY <1>1 DEF LinkOf, Links, Row, Inv, TypeOK
      <3> QED
        BY <3>1, IdleIsRequest DEF Request, Phases, Idle, LinkOf
    <2>3. /\ sub' \in Row /\ sub'.email = sub.email
          /\ sub'.status = "pending" /\ sub'.requested = q.at
          /\ sub'.enabled = sub.enabled /\ sub'.secret = sub.secret
      BY <1>1, <1>3 DEF WriteResend, Reserved, Row, Statuses, Inv, TypeOK
    <2>4. requests' = [requests EXCEPT ![r] = next] /\ spell' = spell \cup {q.at}
      BY <1>3 DEF WriteResend, Goes
    <2> HIDE DEF q, still, next
    <2>5. /\ requests \in [Requests -> Request]
          /\ requests'[r] = next
          /\ \A s \in Requests : s # r => requests'[s] = requests[s]
      BY <2>4 DEF Inv, TypeOK
    <2>6. /\ Posting(r)' /\ ~Reading(r)'
          /\ \A s \in Requests : s # r =>
               (Posting(s)' <=> Posting(s)) /\ (Reading(s)' <=> Reading(s))
      BY <2>2, <2>5 DEF Posting, Reading
    <2>7. TypeOK'
      BY <1>1, <1>2, <2>2, <2>3, <2>4 DEF Inv, TypeOK
    <2>8. Shapes'
      BY <1>2, <2>2, <2>5, <2>6 DEF Inv, Shapes, Shape, At
    <2>9. EnabledHasSecret'
      BY <2>3 DEF Inv, EnabledHasSecret
    <2>10. TimesUnique'
      <3>1. \A s \in Requests : Reading(s) /\ s # r => requests[s].at # q.at
        BY <1>1 DEF Inv, TimesUnique, q
      <3> QED
        BY <1>1, <1>2, <2>2, <2>5, <2>6, <3>1 DEF Inv, TimesUnique, Fresh
    <2>11. LinksNameRow'
      BY <1>1, <1>2, <2>1, <2>2, <2>3, <2>4, <2>5, <2>6 DEF LinksNameRow, Fresh
    <2>12. FailedIsOver'
      BY <1>1, <1>2, <2>3 DEF FailedIsOver, Fresh
    <2>13. VerifiedByHolder'
      BY <2>3 DEF VerifiedByHolder
    <2>14. PendingIsMailed'
      BY <2>2, <2>3, <2>5 DEF PendingIsMailed
    <2> QED
      BY <1>2, <2>7, <2>8, <2>10, <2>11, <2>12, <2>13, <2>14, <2>9 DEF Inv
  <1>4. CASE ~still
    <2>1. /\ UNCHANGED <<sub, spell>>
          /\ requests' = [requests EXCEPT ![r] = Idle]
      BY <1>4 DEF WriteResend, Ends, Goes
    <2> HIDE DEF q, still
    <2>2. /\ requests \in [Requests -> Request]
          /\ requests'[r] = Idle
          /\ \A s \in Requests : s # r => requests'[s] = requests[s]
      BY <2>1 DEF Inv, TypeOK
    <2>3. /\ ~Posting(r)' /\ ~Reading(r)'
          /\ \A s \in Requests : s # r =>
               (Posting(s)' <=> Posting(s)) /\ (Reading(s)' <=> Reading(s))
      BY <2>2 DEF Posting, Reading, Idle
    <2>4. TypeOK'
      BY <1>2, <2>1, IdleIsRequest DEF Inv, TypeOK
    <2>5. Shapes' /\ EnabledHasSecret'
      BY <1>2, <2>1, <2>2, <2>3 DEF Inv, EnabledHasSecret, Shapes, Shape, At, Idle
    <2>6. TimesUnique'
      BY <1>2, <2>2, <2>3 DEF Inv, TimesUnique, Fresh
    <2>7. LinksNameRow' /\ FailedIsOver' /\ VerifiedByHolder'
      BY <1>2, <2>1, <2>2, <2>3 DEF Inv, LinksNameRow, FailedIsOver, VerifiedByHolder
    <2>8. PendingIsMailed'
      BY <1>1, <1>2, <2>1, <2>2 DEF Inv, PendingIsMailed, Posting, q
    <2> QED
      BY <1>2, <2>4, <2>5, <2>6, <2>7, <2>8 DEF Inv
  <1> QED
    BY <1>3, <1>4

(* An alert is mailed, or time passes, and no request takes a step. *)
LEMMA OthersKeep ==
  ASSUME Inv, AlertMailed \/ TimePasses \/ UNCHANGED vars
  PROVE  Inv'
  <1>1. UNCHANGED <<sub, requests, mailed, opened, failed, lost, spell>> /\ now' >= now
    BY DEF Inv, TypeOK, AlertMailed, TimePasses, ReadsClock, vars
  <1>2. TypeOK'
    <2>1. CASE AlertMailed
      <3>1. sub.secret \in Secrets
        BY <2>1 DEF AlertMailed, Inv, EnabledHasSecret, TypeOK, Row
      <3> QED
        BY <2>1, <3>1 DEF Inv, TypeOK, AlertMailed
    <2>2. CASE TimePasses
      BY <2>2 DEF Inv, TypeOK, TimePasses, ReadsClock
    <2>3. CASE UNCHANGED vars
      BY <2>3 DEF Inv, TypeOK, vars
    <2> QED
      BY <2>1, <2>2, <2>3
  <1>3. TimesUnique'
    <2>1. now \in Nat /\ now' \in Nat /\ failed \subseteq Nat
          /\ (\A l \in mailed : l.at \in Nat)
          /\ (\A r \in Requests : requests[r].at \in Nat /\ requests[r].link.at \in Nat)
      BY <1>2 DEF Inv, TypeOK, Request, Links
    <2> QED
      BY <1>1, <2>1 DEF Inv, TimesUnique, Fresh, Reading, Posting, Never
  <1>4. /\ Shapes' /\ EnabledHasSecret' /\ (opened \subseteq mailed)' /\ LinksNameRow'
        /\ FailedIsOver' /\ VerifiedByHolder' /\ PendingIsMailed'
    BY <1>1 DEF Inv, EnabledHasSecret, Shapes, Shape, At, LinksNameRow, Posting, FailedIsOver,
                VerifiedByHolder, PendingIsMailed
  <1> QED
    BY <1>2, <1>3, <1>4 DEF Inv

-----------------------------------------------------------------------------
(* The invariant holds of every behaviour.                                 *)

(* Nothing has been asked for at the start. *)
LEMMA StartIsGood == Init => Inv
  <1> SUFFICES ASSUME Init PROVE Inv
    OBVIOUS
  <1>1. TypeOK
    BY IdleIsRequest DEF Init, TypeOK, Row, NoRow, Statuses, Never
  <1>2. \A r \in Requests : requests[r] = Idle
    BY DEF Init
  <1>3. Shapes /\ opened \subseteq mailed
    BY <1>2 DEF Init, Shapes, Shape, At, Posting, Idle
  <1>4. TimesUnique /\ LinksNameRow
    BY <1>2 DEF Init, TimesUnique, LinksNameRow, Reading, Posting, Idle, Never, NoRow
  <1>5. /\ EnabledHasSecret /\ FailedIsOver
        /\ VerifiedByHolder /\ PendingIsMailed
    BY DEF Init, EnabledHasSecret, FailedIsOver, VerifiedByHolder, PendingIsMailed, NoRow
  <1> QED
    BY <1>1, <1>3, <1>4, <1>5 DEF Inv

(* Every step keeps it. *)
LEMMA StepsAreGood == Inv /\ [Next]_vars => Inv'
  <1> SUFFICES ASSUME Inv, [Next]_vars PROVE Inv'
    OBVIOUS
  <1>1. ASSUME NEW r \in Requests, NEW on \in BOOLEAN, NEW a \in Addresses, ReadSave(r, on, a)
        PROVE  Inv'
    BY <1>1, SaveRead
  <1>2. ASSUME NEW r \in Requests,
               AskResend(r) \/ OpenLink(r) \/ AskUnsubscribe(r) \/ Stop(r)
        PROVE  Inv'
    BY <1>2, ResendRead, Opened, Asked, Stopped
  <1>3. ASSUME NEW r \in Requests, Steps(r)
        PROVE  Inv'
    BY <1>3, SaveWritten, ResendWritten, Accepted, Refused, Failed, Confirmed, Disabled
       DEF Steps
  <1>4. CASE AlertMailed \/ TimePasses \/ UNCHANGED vars
    BY <1>4, OthersKeep
  <1> QED
    BY <1>1, <1>2, <1>3, <1>4 DEF Next

(* The inductive invariant holds of every reachable state. *)
LEMMA AlwaysGood == Spec => []Inv
  BY StartIsGood, StepsAreGood, PTL DEF Spec

-----------------------------------------------------------------------------
(* What follows.                                                           *)

(* Every variable keeps its type: each request, row and link that a request *)
(* of app/services/alert_subscriptions.py can build is one the model names.  *)
THEOREM SubscriptionsTyped == Spec => []TypeOK
  BY AlwaysGood, PTL DEF Inv

(* An address is verified only once its holder opened a link mailed to it   *)
(* for a request made since it became the address: the compare-and-set of    *)
(* confirm notices every change since it read the row.                       *)
THEOREM VerifiedIsByHolder == Spec => []VerifiedByHolder
  BY AlwaysGood, PTL DEF Inv

(* The verified row never names a request whose email was reported unsent.  *)
THEOREM FailedLinksAreDead == Spec => []FailedLinkIsDead
  <1>1. Inv => FailedLinkIsDead
    BY DEF Inv, FailedIsOver, FailedLinkIsDead
  <1> QED
    BY <1>1, AlwaysGood, PTL

(* A pending verification has its link mailed, or a request about to mail   *)
(* it or to report it unsent, unless a request stopped half-way.             *)
THEOREM PendingIsOnItsWay == Spec => []PendingIsMailed
  BY AlwaysGood, PTL DEF Inv

(* No step changes the status of a verified address that stays: the save    *)
(* reserves nothing for it, and the compare-and-sets of the resend and of    *)
(* the failure report compare with another status.                           *)
LEMMA VerifiedStaysOnce ==
  ASSUME Inv, [Next]_vars, sub.status = "verified", sub'.email = sub.email
  PROVE  sub'.status = "verified"
  <1>1. ASSUME NEW r \in Requests, WriteSave(r)
        PROVE  sub'.status = "verified"
    BY <1>1 DEF WriteSave, Upserted, Reserved, Inv, TypeOK, Row
  <1>2. ASSUME NEW r \in Requests, WriteResend(r)
        PROVE  sub'.status = "verified"
    BY <1>2 DEF WriteResend, Holds, Inv, Shapes, Shape, At
  <1>3. ASSUME NEW r \in Requests,
               MarkFailed(r) \/ WriteConfirm(r) \/ Disable(r)
        PROVE  sub'.status = "verified"
    BY <1>3 DEF MarkFailed, WriteConfirm, Disable, Holds, Inv, TypeOK, Row
  <1>4. CASE UNCHANGED sub
    BY <1>4
  <1> QED
    BY <1>1, <1>2, <1>3, <1>4
       DEF Next, Steps, ReadSave, AskResend, OpenLink, AskUnsubscribe, SendAccepted,
           SendRefused, Stop, AlertMailed, TimePasses, vars

(* A verified address stays verified until the address changes. *)
THEOREM VerifiedStays == Spec => VerifiedIsKept
  <1>1. Inv /\ [Next]_vars =>
          [(sub.status = "verified" /\ sub'.email = sub.email)
             => sub'.status = "verified"]_vars
    BY VerifiedStaysOnce
  <1> QED
    BY <1>1, AlwaysGood, PTL DEF Spec, VerifiedIsKept

-----------------------------------------------------------------------------
(* The subscription implements ConsentPromise.                             *)

(* What the promise sees as opened: an opened link to the present address. *)
Consented == \E link \in opened : link.to = sub.email /\ link.at \in spell

(* A step that changes nothing the promise sees. *)
Unseen == /\ sub'.email = sub.email
          /\ (sub'.status = "verified") = (sub.status = "verified")
          /\ Consented' = Consented

(* A request that reads the row and names a time nobody has used opens no   *)
(* link.                                                                     *)
LEMMA NoLinkIsNew ==
  ASSUME Inv, NEW r \in Requests, Reading(r)
  PROVE  \A link \in opened : link.at # requests[r].at
  BY DEF Inv, TimesUnique, Fresh

(* A committed save changes the address and starts over, or is not seen. *)
LEMMA SaveKeepsPromise ==
  ASSUME Inv, NEW r \in Requests, WriteSave(r)
  PROVE  Unseen \/ Promise!Next
  <1> DEFINE q == requests[r]
  <1>1. /\ q.address \in Addresses /\ Reading(r)
        /\ UNCHANGED opened
        /\ sub'.email = q.address
    BY DEF Inv, TypeOK, Row, WriteSave, At, Shapes, Shape, Reading, Upserted, Reserved
  <1>2. \A link \in opened : link.at # q.at
    BY <1>1, NoLinkIsNew
  <1>3. CASE sub.email = q.address
    <2>1. sub'.status = "verified" <=> sub.status = "verified"
      BY <1>3 DEF WriteSave, Upserted, Reserved, Inv, TypeOK, Row
    <2>2. spell' = spell \/ spell' = spell \cup {q.at}
      BY <1>3 DEF WriteSave
    <2> QED
      BY <1>1, <1>2, <1>3, <2>1, <2>2 DEF Unseen, Consented
  <1>4. CASE sub.email # q.address
    <2>1. sub'.status # "verified"
      BY <1>4 DEF WriteSave, Upserted, Reserved, Inv, TypeOK, Row
    <2>2. spell' \subseteq {q.at}
      BY <1>4 DEF WriteSave
    <2>3. ~Consented'
      BY <1>1, <1>2, <2>2 DEF Consented
    <2>4. \E a \in Addresses : Promise!ChangeAddress(a)
      BY <1>1, <1>4, <2>1, <2>3 DEF Promise!ChangeAddress, Consented
    <2> QED
      BY <2>4 DEF Promise!Next
  <1> QED
    BY <1>3, <1>4

(* A committed resend is not seen: the row was not verified. *)
LEMMA ResendKeepsPromise ==
  ASSUME Inv, NEW r \in Requests, WriteResend(r)
  PROVE  Unseen
  <1>1. /\ Reading(r) /\ UNCHANGED opened
        /\ requests[r].seen.status # "verified"
    BY DEF Inv, WriteResend, At, Shapes, Shape, Reading
  <1>2. \A link \in opened : link.at # requests[r].at
    BY <1>1, NoLinkIsNew
  <1>3. /\ sub'.email = sub.email
        /\ sub'.status = "verified" <=> sub.status = "verified"
        /\ spell' = spell \/ spell' = spell \cup {requests[r].at}
    BY <1>1 DEF WriteResend, Holds, Reserved, Inv, TypeOK, Row
  <1> QED
    BY <1>1, <1>2, <1>3 DEF Unseen, Consented

(* An opened link was mailed to the address the row has. *)
LEMMA OpeningKeepsPromise ==
  ASSUME Inv, NEW r \in Requests, OpenLink(r)
  PROVE  Promise!Next
  <1>1. PICK link \in mailed : LinkMatches(sub, link) /\ opened' = opened \cup {link}
    BY DEF OpenLink
  <1>2. /\ link.to = sub.email /\ link.at \in spell
        /\ sub.email \in Addresses
    BY <1>1 DEF LinkMatches, Inv, LinksNameRow
  <1>3. UNCHANGED <<sub, spell>>
    BY DEF OpenLink
  <1>4. Consented'
    BY <1>1, <1>2, <1>3 DEF Consented
  <1>5. Promise!OpenLink
    BY <1>2, <1>3, <1>4, NoneIsNothing DEF Promise!OpenLink, Consented
  <1> QED
    BY <1>5 DEF Promise!Next

(* A confirmation that is written verifies an address whose holder opened   *)
(* its link.                                                                 *)
LEMMA ConfirmKeepsPromise ==
  ASSUME Inv, NEW r \in Requests, WriteConfirm(r)
  PROVE  Unseen \/ Promise!Next
  <1> DEFINE q == requests[r]
  <1>1. UNCHANGED <<opened, spell>>
    BY DEF WriteConfirm
  <1>2. CASE Holds(sub, q.seen.email, "pending", q.seen.requested)
    <2>1. /\ q.link \in opened /\ q.link.at = sub.requested
          /\ sub.requested # Never
      BY <1>2 DEF WriteConfirm, Holds, Inv, Shapes, Shape, At
    <2>2. q.link.to = sub.email /\ q.link.at \in spell
      BY <2>1 DEF Inv, LinksNameRow
    <2>3. Consented
      BY <2>1, <2>2 DEF Consented
    <2>4. sub'.email = sub.email /\ sub'.status = "verified"
      BY <1>2 DEF WriteConfirm, Inv, TypeOK, Row
    <2>5. Promise!Verify
      BY <1>1, <2>3, <2>4 DEF Promise!Verify, Consented
    <2> QED
      BY <2>5 DEF Promise!Next
  <1>3. CASE ~Holds(sub, q.seen.email, "pending", q.seen.requested)
    BY <1>1, <1>3 DEF WriteConfirm, Unseen, Consented
  <1> QED
    BY <1>2, <1>3

(* Every step is a step of the promise, or is not seen. *)
LEMMA StepsKeepPromise ==
  ASSUME Inv, [Next]_vars
  PROVE  Unseen \/ Promise!Next
  <1>1. ASSUME NEW r \in Requests,
               MarkFailed(r) \/ Disable(r)
        PROVE  Unseen
    BY <1>1 DEF MarkFailed, Disable, Holds, Unseen, Consented, Inv, TypeOK, Row
  <1>2. CASE UNCHANGED <<sub, opened, spell>>
    BY <1>2 DEF Unseen, Consented
  <1> QED
    BY <1>1, <1>2, SaveKeepsPromise, ResendKeepsPromise, OpeningKeepsPromise,
       ConfirmKeepsPromise
       DEF Next, Steps, ReadSave, AskResend, AskUnsubscribe, SendAccepted,
           SendRefused, Stop, AlertMailed, TimePasses, vars

(* The subscription keeps what ConsentPromise promises the holder of a      *)
(* mailbox, for every number of requests, addresses and secrets.             *)
THEOREM ConsentIsKept == Spec => ConsentKept
  <1>1. Init => Promise!Init
    BY DEF Init, Promise!Init, NoRow
  <1>2. Inv /\ [Next]_vars =>
          [Promise!Next]_<<sub.email, sub.status = "verified",
                           \E link \in opened : link.to = sub.email /\ link.at \in spell>>
    BY StepsKeepPromise DEF Unseen, Consented
  <1> QED
    BY <1>1, <1>2, AlwaysGood, PTL DEF Spec, ConsentKept, Promise!Spec
=============================================================================
