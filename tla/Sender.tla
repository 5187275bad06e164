-------------------------------- MODULE Sender --------------------------------
(* The email sender (services/email_sender.py) over Brevo (brevo_alerts.py):    *)
(* what is checked before a request, the pacer that spaces the requests of one  *)
(* process, and what an answer means. Threads of a process share the pacer.     *)
EXTENDS Naturals, FiniteSets

CONSTANTS
  Threads,
  Interval,     \* ticks between the end of one paced request and the next one
  MaxTime       \* ticks of one behaviour

VARIABLES
  settings,     \* the sender's settings
  now,          \* the monotonic clock
  lock,         \* who holds the pacer
  lastSend,     \* when the last paced request ended, or None
  thread,       \* what each thread is doing
  posted        \* the requests made: when they started and ended

vars == <<settings, now, lock, lastSend, thread, posted>>

None == MaxTime + 1
Free == "free"

Outcomes == {"accepted", "rejected", "unavailable", "misconfigured"}

(* Settings and emails are well formed, malformed or missing; a link is https,  *)
(* http, malformed or, in an email only, absent.                                *)
Texts == {"good", "bad", "missing"}
Links == {"https", "http", "bad"}

\* web_link: an HTTP link passes only where HTTPS is not required.
WebLink(value, requireHttps) == value = "https" \/ (value = "http" /\ ~requireHttps)
Mailbox(value) == value = "good"
SingleLine(value) == value = "good"

(* check_message: the outcome that stops an email, or none.                     *)
CheckMessage(email, requireHttps) ==
  CASE ~Mailbox(email.to) -> "rejected"
    [] Mailbox(email.to) /\ ~SingleLine(email.subject) -> "misconfigured"
    [] Mailbox(email.to) /\ SingleLine(email.subject) /\ email.link # "none"
         /\ ~WebLink(email.link, requireHttps) -> "misconfigured"
    [] OTHER -> "none"

\* The checks of the sender's own settings, in order.
SettingsProblem ==
  \/ settings.key = "missing" \/ settings.sender = "missing"
  \/ ~Mailbox(settings.sender) \/ ~SingleLine(settings.name)
  \/ ~WebLink(settings.base, FALSE)
  \/ settings.base # "https"

\* What Brevo's answer means; one without a message id may have been sent.
Statuses == {"2xx", "2xx_no_id", "400", "404", "422", "408", "429", "5xx", "other"}
Outcome(status) ==
  CASE status = "2xx" -> "accepted"
    [] status \in {"400", "404", "422"} -> "rejected"
    [] status \in {"408", "429", "5xx", "2xx_no_id"} -> "unavailable"
    [] status = "other" -> "misconfigured"

\* What a request to Brevo comes to: its answer, or an error on the way.
Answers == {Outcome(status) : status \in Statuses} \cup {"unavailable"}

\* configured_sender: a dry run is never paced.
Paced(paced) == paced /\ ~settings.dryRun

NoEmail == [to |-> "good", subject |-> "good", link |-> "none"]
Idle == [pc |-> "idle", email |-> NoEmail, wake |-> 0, outcome |-> "none", paced |-> FALSE]

Init ==
  /\ settings \in {[dryRun |-> d, key |-> k, sender |-> s, name |-> n, base |-> b] :
       d \in BOOLEAN, k \in {"good", "missing"}, s \in Texts, n \in {"good", "bad"}, b \in Links}
  /\ now = 0
  /\ lock = Free
  /\ lastSend = None
  /\ thread = [t \in Threads |-> Idle]
  /\ posted = {}

Becomes(t, s) == thread' = [thread EXCEPT ![t] = s]
Ends(t, o) == Becomes(t, [thread[t] EXCEPT !.pc = "answered", !.outcome = o])

(* send: a dry run checks the email and accepts it; Brevo's adapter checks the  *)
(* email, then its settings. Only alerts are paced.                             *)
Send(t) ==
  /\ thread[t].pc = "idle"
  /\ \E to, subject \in Texts \ {"missing"}, link \in Links \cup {"none"}, paced \in BOOLEAN :
       LET email == [to |-> to, subject |-> subject, link |-> link]
           stop == CheckMessage(email, ~settings.dryRun)
           asked == [Idle EXCEPT !.email = email, !.paced = Paced(paced)]
       IN Becomes(t,
            CASE stop # "none" -> [asked EXCEPT !.pc = "answered", !.outcome = stop]
              [] stop = "none" /\ settings.dryRun ->
                   [asked EXCEPT !.pc = "answered", !.outcome = "accepted"]
              [] stop = "none" /\ ~settings.dryRun /\ SettingsProblem ->
                   [asked EXCEPT !.pc = "answered", !.outcome = "misconfigured"]
              [] OTHER -> [asked EXCEPT !.pc = IF paced THEN "pace" ELSE "post"])
  /\ UNCHANGED <<settings, now, lock, lastSend, posted>>

\* Mutant: waiting without the lock.
AcquireShared(t) ==
  /\ thread[t].pc = "pace"
  /\ lock' = t
  /\ Becomes(t, [thread[t] EXCEPT !.pc = "wait",
       !.wake = IF lastSend = None THEN now ELSE lastSend + Interval])
  /\ UNCHANGED <<settings, now, lastSend, posted>>

\* pace: take the lock, then wait out the interval since the last request.
Acquire(t) ==
  /\ thread[t].pc = "pace" /\ lock = Free
  /\ lock' = t
  /\ Becomes(t, [thread[t] EXCEPT !.pc = "wait",
       !.wake = IF lastSend = None THEN now ELSE lastSend + Interval])
  /\ UNCHANGED <<settings, now, lastSend, posted>>

Slept(t) ==
  /\ thread[t].pc = "wait" /\ now >= thread[t].wake
  /\ Becomes(t, [thread[t] EXCEPT !.pc = "post"])
  /\ UNCHANGED <<settings, now, lock, lastSend, posted>>

Post(t) ==
  /\ thread[t].pc = "post"
  /\ Becomes(t, [thread[t] EXCEPT !.pc = "posted", !.wake = now])
  /\ UNCHANGED <<settings, now, lock, lastSend, posted>>

\* The request ends, with an answer or an error; the pacer notes when.
Response(t) ==
  /\ thread[t].pc = "posted"
  /\ \E answer \in Answers : Ends(t, answer)
  /\ IF thread[t].paced
     THEN /\ lastSend' = now
          /\ lock' = Free
          /\ posted' = posted \cup {[by |-> t, start |-> thread[t].wake, end |-> now]}
     ELSE UNCHANGED <<lastSend, lock, posted>>
  /\ UNCHANGED <<settings, now>>

\* The caller takes the outcome and sends its next email.
Take(t) ==
  /\ thread[t].pc = "answered"
  /\ Becomes(t, Idle)
  /\ UNCHANGED <<settings, now, lock, lastSend, posted>>

Tick ==
  /\ now < MaxTime
  /\ now' = now + 1
  /\ UNCHANGED <<settings, lock, lastSend, thread, posted>>

Next ==
  \/ \E t \in Threads :
       Send(t) \/ Acquire(t) \/ Slept(t) \/ Post(t) \/ Response(t) \/ Take(t)
  \/ Tick

-----------------------------------------------------------------------------
(* However the threads interleave and however long a request takes, two paced   *)
(* requests never overlap and the later starts an interval after the earlier    *)
(* ended.                                                                       *)
Spaced ==
  \A p, q \in posted : p # q =>
    p.start >= q.end + Interval \/ q.start >= p.end + Interval

(* Nothing reaches Brevo that a check refuses, and an email is only ever        *)
(* accepted after all checks: a dry run accepts no email the real sender would  *)
(* refuse, except one with an HTTP link.                                        *)
CheckedFirst ==
  \A t \in Threads :
    /\ thread[t].pc \in {"pace", "wait", "post", "posted"} =>
         ~settings.dryRun /\ ~SettingsProblem /\ CheckMessage(thread[t].email, TRUE) = "none"
    /\ thread[t].outcome = "accepted" /\ thread[t].email.link # "http" =>
         CheckMessage(thread[t].email, TRUE) = "none"
=============================================================================
