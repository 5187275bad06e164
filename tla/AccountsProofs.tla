---------------------------- MODULE AccountsProofs ----------------------------
(* Profiles stay with their identities and watchlists with their owners, for    *)
(* every number of identities, requests, profiles and watchlists.               *)
EXTENDS Accounts, FiniteSetTheorems, TLAPS

-----------------------------------------------------------------------------
(* The inductive invariant. DataTypes: numbers of profiles and names of           *)
(* watchlists are used once, so that what a request has found cannot come back    *)
(* as somebody else's.                                                            *)
Callers == Identities \cup Requests \cup {0, Nobody}
Rows == [email : Emails, sub : Identities \cup {Nobody}, password : BOOLEAN, admin : BOOLEAN]
Steps == {"idle", "asked", "user", "subject", "rename", "no_subject", "insert", "link",
          "reread", "known", "permitted", "create", "session", "owned", "change", "done"}
RequestsOf(n) ==
  [op : Ops \cup {"none"}, pc : Steps, who : Callers, email : Emails \cup {<<>>},
   found : 0..n, row : Rows \cup {<<>>}, actor : 0..n,
   answer : {"none", "refused", "profile", "ok"},
   list : Lists \cup {"none"}, ticker : Tickers \cup {"none"}]
RequestTypes == RequestsOf(profiles)

DataTypes ==
  /\ emails \in [Identities -> Emails]
  /\ profiles \in Nat /\ DOMAIN investors \subseteq 1..profiles
  /\ investors \in [DOMAIN investors -> Rows]
  /\ DOMAIN sessions \subseteq Requests \cup {0}
  /\ sessions \in [DOMAIN sessions -> DOMAIN investors]
  /\ made \subseteq Lists /\ DOMAIN watchlists \subseteq made

(* Of a request q: an answer comes last, and until then the request has the email *)
(* or the list it names; a bootstrap links only where linking is on, and what it   *)
(* has found by its subject or answered with is its caller's profile, unless that  *)
(* has been deleted or linked again; and the list a request may change is its      *)
(* caller's, unless it has been deleted.                                          *)
Answers(q) ==
  /\ q.pc # "done" => q.answer = "none"
  /\ q.op \in {"sign_up", "sign_in", "create_investor", "update_investor"} /\ q.pc # "done" =>
       q.email \in Emails
  /\ q.pc = "session" => q.op \in {"sign_up", "sign_in"}
  /\ q.op = "create_list" /\ q.pc # "done" => q.list \in Lists

Bootstraps(q) ==
  q.op = "bootstrap" =>
    /\ q.who \in Identities
    /\ q.pc \in {"user", "subject", "rename", "no_subject", "insert", "link", "reread"} =>
         q.email \in Emails
    /\ q.pc = "link" => auth.link
    /\ q.pc \in {"subject", "rename"} \/ q.answer = "profile" =>
         (q.found \in DOMAIN investors =>
            investors[q.found].sub = q.who \/ Relinked(q.found))

Changes(q) ==
  q.pc \in {"owned", "change"}
    \/ (q.op \in {"create_list", "add", "remove"} /\ q.answer = "ok") =>
  /\ q.list \in made
  /\ q.list \in DOMAIN watchlists => watchlists[q.list] = q.actor

Right(q) == q \in RequestTypes /\ Answers(q) /\ Bootstraps(q) /\ Changes(q)

IInv ==
  /\ DataTypes
  /\ req = [r \in Requests |-> req[r]] /\ \A r \in Requests : Right(req[r])

-----------------------------------------------------------------------------
(* What every step does to the data: a profile keeps its subject once it has one,  *)
(* unless it is linked again; a watchlist keeps its owner; neither comes back once  *)
(* it is gone.                                                                     *)
Onward ==
  /\ auth' = auth /\ profiles' >= profiles
  /\ \A p \in DOMAIN investors' : p \in 1..profiles =>
       /\ p \in DOMAIN investors
       /\ investors[p].sub # Nobody =>
            investors'[p].sub = investors[p].sub \/ Relinked(p)'
  /\ made \subseteq made'
  /\ \A w \in DOMAIN watchlists' : w \in made =>
       w \in DOMAIN watchlists /\ watchlists'[w] = watchlists[w]

\* What has been linked again stays so.
LinksKept == \A p \in DOMAIN investors' : p \in 1..profiles /\ Relinked(p) => Relinked(p)'

LEMMA LinksStay ==
  ASSUME Nobody \notin Identities, IInv, Onward, NEW r \in Requests, req[r].pc # "done",
         NEW q, Step(r, q)
  PROVE  LinksKept
  <1> SUFFICES ASSUME NEW p \in DOMAIN investors', p \in 1..profiles, Relinked(p),
                      ~ Relinked(p)'
               PROVE  FALSE
    BY DEF LinksKept
  <1>1. PICK x \in AnsweredWith(p) : investors[p].sub = req[x].who
    BY DEF Relinked
  <1>2. /\ x \in Requests /\ req[x].op = "bootstrap" /\ req[x].answer = "profile"
        /\ req[x].found = p
    BY DEF AnsweredWith
  <1>3. req[x].who \in Identities /\ req[r].answer = "none"
    BY <1>2 DEF IInv, Right, Bootstraps, Answers
  <1>4. req'[x] = req[x]
    BY <1>2, <1>3 DEF Step, IInv
  <1>5. investors'[p].sub = investors[p].sub /\ auth' = auth
    BY <1>1, <1>3 DEF Onward
  <1>6. x \in AnsweredWith(p)' /\ investors'[p].sub = req'[x].who
    BY <1>1, <1>2, <1>4, <1>5 DEF AnsweredWith
  <1> QED
    BY <1>5, <1>6 DEF Relinked

\* A request stays right while the data moves on.
LEMMA StaysRight ==
  ASSUME Nobody \notin Identities, DataTypes, DataTypes', Onward, LinksKept, NEW q, Right(q)
  PROVE  Right(q)'
  <1>1. profiles \in Nat /\ profiles' \in Nat /\ profiles' >= profiles
    BY DEF DataTypes, Onward
  <1>2. RequestTypes \subseteq RequestTypes'
    BY <1>1 DEF RequestTypes, RequestsOf, Steps
  <1>3. q \in RequestTypes' /\ q.found \in 0..profiles /\ Answers(q)'
    BY <1>2 DEF Right, RequestTypes, RequestsOf, Answers
  <1>4. q.found \in DOMAIN investors' => q.found \in 1..profiles
    BY <1>1, <1>3 DEF DataTypes
  <1>5. Bootstraps(q)'
    <2>1. \A p \in DOMAIN investors' : p \in 1..profiles /\ Relinked(p) => Relinked(p)'
      BY DEF LinksKept
    <2> QED
      BY <1>4, <2>1 DEF Right, Bootstraps, Onward
  <1>6. Changes(q)'
    BY DEF Right, Changes, Onward
  <1> QED
    BY <1>3, <1>5, <1>6 DEF Right

\* A step of one request keeps the invariant if it leaves that request right.
LEMMA Frame ==
  ASSUME Nobody \notin Identities, IInv, DataTypes', Onward,
         NEW r \in Requests, req[r].pc # "done", NEW q, Step(r, q), Right(q)'
  PROVE  IInv'
  <1>1. req' = [x \in Requests |-> req'[x]] /\ req'[r] = q
        /\ \A x \in Requests : x # r => req'[x] = req[x]
    BY DEF Step, IInv
  <1>2. ASSUME NEW x \in Requests
        PROVE  Right(req[x])'
    <2>1. PICK m : m = req'[x]
      OBVIOUS
    <2>2. Right(m)'
      <3>1. CASE x = r
        BY <1>1, <2>1, <3>1
      <3>2. CASE x # r
        <4>1. Right(m)
          BY <1>1, <2>1, <3>2 DEF IInv
        <4> QED
          BY <4>1, LinksStay, StaysRight DEF IInv
      <3> QED
        BY <3>1, <3>2
    <2> QED
      BY <2>1, <2>2 DEF Right, RequestTypes, RequestsOf, Answers, Bootstraps, Changes
  <1> QED
    BY <1>1, <1>2 DEF IInv

\* A step that only reads keeps the data.
LEMMA ReadsOnward ==
  ASSUME IInv, UNCHANGED <<auth, emails, data>>
  PROVE  DataTypes' /\ Onward
  <1>1. profiles \in Nat
    BY DEF IInv, DataTypes
  <1> QED
    BY <1>1 DEF IInv, data, DataTypes, Rows, Onward

\* So does one that changes sessions, or the tickers on a watchlist.
LEMMA SessionsOnward ==
  ASSUME IInv, UNCHANGED <<auth, emails, investors, watchlists, profiles, made>>,
         DOMAIN sessions' \subseteq Requests \cup {0},
         sessions' \in [DOMAIN sessions' -> DOMAIN investors]
  PROVE  DataTypes' /\ Onward
  <1>1. profiles \in Nat
    BY DEF IInv, DataTypes
  <1> QED
    BY <1>1 DEF IInv, DataTypes, Rows, Onward

\* A request that reads keeps the invariant if it stays right.
LEMMA ReadStep ==
  ASSUME Nobody \notin Identities, IInv, NEW r \in Requests, req[r].pc # "done", Reads(r),
         NEW q, Step(r, q), Right(q)
  PROVE  IInv'
  <1>1. DataTypes' /\ Onward
    BY ReadsOnward DEF Reads
  <1>2. Right(q)'
    BY <1>1, LinksStay, StaysRight DEF IInv
  <1> QED
    BY <1>1, <1>2, Frame

\* A request before it is asked.
LEMMA NoRequestIs ==
  ASSUME NEW n \in Nat
  PROVE  NoRequest \in RequestsOf(n)
  <1>1. PICK q : q = NoRequest
    OBVIOUS
  <1>2. /\ DOMAIN NoRequest = {"op", "pc", "who", "email", "found", "row", "actor", "answer",
                              "list", "ticker"}
        /\ NoRequest = [x \in DOMAIN NoRequest |-> NoRequest[x]]
    BY DEF NoRequest
  <1>3. /\ NoRequest.op = "none" /\ NoRequest.pc = "idle" /\ NoRequest.who = "nobody"
        /\ NoRequest.email = <<>>
        /\ NoRequest.found = 0 /\ NoRequest.row = <<>> /\ NoRequest.actor = 0
        /\ NoRequest.answer = "none"
        /\ NoRequest.list = "none" /\ NoRequest.ticker = "none"
    BY DEF NoRequest, Nobody, None
  <1>4. 0 \in 0..n
    OBVIOUS
  <1>7. "nobody" \in Callers
    BY DEF Callers, Nobody
  <1>8. "idle" \in Steps
    BY DEF Steps
  <1>5. NoRequest.email \in Emails \cup {<<>>} /\ NoRequest.row \in Rows \cup {<<>>}
    BY <1>3
  <1>6. /\ NoRequest.op \in Ops \cup {"none"} /\ NoRequest.list \in Lists \cup {"none"}
        /\ NoRequest.ticker \in Tickers \cup {"none"} /\ NoRequest.pc \in Steps
        /\ NoRequest.answer \in {"none", "refused", "profile", "ok"} /\ NoRequest.who \in Callers
        /\ NoRequest.found \in 0..n /\ NoRequest.actor \in 0..n
    BY <1>3, <1>4, <1>7, <1>8
  <1> QED
    BY <1>2, <1>5, <1>6 DEF RequestsOf

\* The three ways in which a request ends.
LEMMA RefuseKept ==
  ASSUME Nobody \notin Identities, IInv, DataTypes', Onward, NEW r \in Requests,
         req[r].pc # "done", Refuse(r)
  PROVE  IInv'
  <1>1. PICK q : q = [NoRequest EXCEPT !.pc = "done", !.answer = "refused"]
    OBVIOUS
  <1>2. NoRequest \in RequestTypes'
    BY NoRequestIs DEF DataTypes, RequestTypes
  <1>3. q \in RequestTypes'
    BY <1>1, <1>2 DEF RequestTypes, RequestsOf, Steps
  <1>4. q.op = "none" /\ q.pc = "done" /\ q.answer = "refused"
    BY <1>1 DEF NoRequest
  <1>5. Step(r, q)
    BY <1>1 DEF Refuse
  <1>6. Right(q)'
    BY <1>3, <1>4 DEF Right, Answers, Bootstraps, Changes
  <1> QED
    BY <1>5, <1>6, Frame

LEMMA AnsweredKept ==
  ASSUME Nobody \notin Identities, IInv, DataTypes', Onward, NEW r \in Requests,
         req[r].pc # "done", NEW p \in 0..profiles', Answered(r, p),
         req[r].op = "bootstrap" =>
           (p \in DOMAIN investors' =>
              investors'[p].sub = req[r].who \/ (p \in 1..profiles /\ Relinked(p)))
  PROVE  IInv'
  <1>1. PICK q : q = [NoRequest EXCEPT !.pc = "done", !.op = req[r].op, !.who = req[r].who,
                                       !.answer = "profile", !.found = p]
    OBVIOUS
  <1>2. NoRequest \in RequestTypes' /\ Right(req[r])
    BY NoRequestIs DEF DataTypes, IInv, RequestTypes
  <1>3. req[r].op \in Ops \cup {"none"} /\ req[r].who \in Callers
    BY <1>2 DEF Right, RequestTypes, RequestsOf
  <1>4. q \in RequestTypes'
    BY <1>1, <1>2, <1>3 DEF RequestTypes, RequestsOf, Steps
  <1>5. /\ q.op = req[r].op /\ q.pc = "done" /\ q.answer = "profile"
        /\ q.who = req[r].who /\ q.found = p
    BY <1>1 DEF NoRequest
  <1>6. Step(r, q) /\ LinksKept
    BY <1>1, LinksStay DEF Answered
  <1>8. req[r].op = "bootstrap" =>
          (p \in DOMAIN investors' => investors'[p].sub = req[r].who \/ Relinked(p)')
    BY <1>6 DEF LinksKept
  <1>7. Right(q)'
    BY <1>2, <1>4, <1>5, <1>8 DEF Right, Answers, Bootstraps, Changes
  <1> QED
    BY <1>6, <1>7, Frame

LEMMA DoneKept ==
  ASSUME Nobody \notin Identities, IInv, DataTypes', Onward, NEW r \in Requests,
         req[r].pc # "done", Done(r), req[r].op # "bootstrap",
         req[r].op \in {"create_list", "add", "remove"} =>
           /\ req[r].list \in made'
           /\ req[r].list \in DOMAIN watchlists' => watchlists'[req[r].list] = req[r].actor
  PROVE  IInv'
  <1>1. PICK q : q = [NoRequest EXCEPT !.pc = "done", !.op = req[r].op, !.answer = "ok",
                                       !.list = req[r].list,
                                       !.actor = req[r].actor]
    OBVIOUS
  <1>2. /\ profiles' \in Nat /\ Right(req[r]) /\ profiles' >= profiles /\ profiles \in Nat
        /\ NoRequest \in RequestTypes'
    BY NoRequestIs DEF DataTypes, IInv, Onward, RequestTypes
  <1>3. /\ req[r].op \in Ops \cup {"none"} /\ req[r].who \in Callers
        /\ req[r].list \in Lists \cup {"none"} /\ req[r].actor \in 0..profiles'
    BY <1>2 DEF Right, RequestTypes, RequestsOf
  <1>4. q \in RequestTypes'
    BY <1>1, <1>2, <1>3 DEF RequestTypes, RequestsOf, Steps
  <1>5. /\ q.op = req[r].op /\ q.pc = "done" /\ q.answer = "ok"
        /\ q.list = req[r].list /\ q.actor = req[r].actor
    BY <1>1 DEF NoRequest
  <1>6. Step(r, q)
    BY <1>1 DEF Done
  <1>7. Right(q)'
    BY <1>2, <1>4, <1>5 DEF Right, Answers, Bootstraps, Changes
  <1> QED
    BY <1>6, <1>7, Frame

\* The same, of a step that only reads.
LEMMA ReadEnds ==
  ASSUME Nobody \notin Identities, IInv, NEW r \in Requests, req[r].pc # "done", Reads(r),
         \/ Refuse(r)
         \/ \E p \in 0..profiles :
              /\ Answered(r, p)
              /\ req[r].op = "bootstrap" =>
                   (p \in DOMAIN investors =>
                      investors[p].sub = req[r].who \/ Relinked(p))
         \/ /\ Done(r) /\ req[r].op # "bootstrap"
            /\ req[r].op \in {"create_list", "add", "remove"} =>
                 /\ req[r].list \in made
                 /\ req[r].list \in DOMAIN watchlists =>
                      watchlists[req[r].list] = req[r].actor
  PROVE  IInv'
  <1>1. /\ DataTypes' /\ Onward
        /\ UNCHANGED <<investors, watchlists, profiles, made>>
    BY ReadsOnward DEF Reads, data
  <1>2. CASE Refuse(r)
    BY <1>1, <1>2, RefuseKept
  <1>3. ASSUME NEW p \in 0..profiles, Answered(r, p),
               req[r].op = "bootstrap" =>
                 (p \in DOMAIN investors =>
                    investors[p].sub = req[r].who \/ Relinked(p))
        PROVE  IInv'
    <2>1. p \in DOMAIN investors' => p \in 1..profiles
      BY <1>1 DEF IInv, DataTypes
    <2> QED
      BY <1>1, <1>3, <2>1, AnsweredKept
  <1>4. CASE /\ Done(r) /\ req[r].op # "bootstrap"
             /\ req[r].op \in {"create_list", "add", "remove"} =>
                  /\ req[r].list \in made
                  /\ req[r].list \in DOMAIN watchlists =>
                       watchlists[req[r].list] = req[r].actor
    BY <1>1, <1>4, DoneKept
  <1> QED
    BY <1>2, <1>3, <1>4

-----------------------------------------------------------------------------
\* A request's record has all its fields.
LEMMA RequestIs ==
  ASSUME IInv, NEW r \in Requests
  PROVE  /\ req[r] \in RequestTypes /\ Right(req[r])
         /\ profiles \in Nat
  BY DEF IInv, Right, DataTypes

\* A request that goes on.
LEMMA GoesOn ==
  ASSUME IInv, NEW r \in Requests, NEW pc \in Steps, NEW q, q = [req[r] EXCEPT !.pc = pc]
  PROVE  /\ q \in RequestTypes /\ q.pc = pc
         /\ q.op = req[r].op /\ q.who = req[r].who /\ q.email = req[r].email
         /\ q.found = req[r].found /\ q.actor = req[r].actor /\ q.answer = req[r].answer
         /\ q.list = req[r].list
  BY RequestIs DEF RequestTypes, RequestsOf

-----------------------------------------------------------------------------
\* Credentials.
LEMMA AskKept ==
  ASSUME Nobody \notin Identities, IInv, NEW r \in Requests, NEW op \in Ops, Ask(r, op)
  PROVE  IInv'
  <1>1. PICK who \in Who(op),
             e \in IF op \in {"sign_up", "sign_in", "create_investor", "update_investor"}
                   THEN Emails ELSE {<<>>},
             w \in IF op \in Signed \ {"me"} THEN Lists ELSE {"none"},
             t \in IF op \in {"add", "remove"} THEN Tickers ELSE {"none"} :
          Step(r, [NoRequest EXCEPT !.op = op, !.pc = "asked", !.who = who, !.email = e,
                                    !.list = w, !.ticker = t])
    BY DEF Ask
  <1>2. PICK q : q = [NoRequest EXCEPT !.op = op, !.pc = "asked", !.who = who, !.email = e,
                                       !.list = w, !.ticker = t]
    OBVIOUS
  <1>3. /\ who \in Callers /\ e \in Emails \cup {<<>>} /\ w \in Lists \cup {"none"}
        /\ t \in Tickers \cup {"none"}
    <2>1. DOMAIN sessions \subseteq Requests \cup {0}
      BY DEF IInv, DataTypes
    <2>2. op \in {"bootstrap", "sign_up", "sign_in", "sign_out"} => who \in Callers
      BY <1>1, <2>1 DEF Who, Callers
    <2>3. op \notin {"bootstrap", "sign_up", "sign_in", "sign_out"} => who \in Callers
      BY <1>1, <2>1 DEF Who, Callers
    <2> QED
      BY <1>1, <2>2, <2>3
  <1>4. op = "bootstrap" => who \in Identities
    BY <1>1 DEF Who
  <1>5. /\ op \in {"sign_up", "sign_in", "create_investor", "update_investor"} => e \in Emails
        /\ op = "create_list" => w \in Lists
    BY <1>1 DEF Signed
  <1>6. NoRequest \in RequestTypes
    BY RequestIs, NoRequestIs DEF RequestTypes
  <1>7. q \in RequestTypes
    BY <1>2, <1>3, <1>6 DEF RequestTypes, RequestsOf, Steps
  <1>8. /\ q.op = op /\ q.pc = "asked" /\ q.who = who /\ q.email = e /\ q.answer = "none"
        /\ q.list = w
    BY <1>2 DEF NoRequest
  <1>9. Right(q)
    BY <1>4, <1>5, <1>7, <1>8 DEF Right, Answers, Bootstraps, Changes
  <1> QED
    BY <1>1, <1>2, <1>9, ReadStep DEF Ask

LEMMA GetUserKept ==
  ASSUME Nobody \notin Identities, IInv, NEW r \in Requests, GetUser(r)
  PROVE  IInv'
  <1>1. Reads(r) /\ req[r].op = "bootstrap" /\ req[r].pc = "asked"
    BY DEF GetUser, AtStep
  <1>2. CASE Refuse(r)
    BY <1>1, <1>2, ReadEnds
  <1>3. CASE /\ req[r].who \in Identities
             /\ Step(r, [req[r] EXCEPT !.pc = "user", !.email = emails[req[r].who]])
    <2>1. PICK q : q = [req[r] EXCEPT !.pc = "user", !.email = emails[req[r].who]]
      OBVIOUS
    <2>2. PICK e \in Emails : e = emails[req[r].who]
      BY <1>3 DEF IInv, DataTypes
    <2>3. /\ q \in RequestTypes /\ q.op = "bootstrap" /\ q.pc = "user" /\ q.email = e
          /\ q.who = req[r].who /\ q.answer = "none"
      BY <1>1, <2>1, <2>2, RequestIs DEF RequestTypes, RequestsOf, Steps, Right, Answers
    <2>4. Right(q)
      BY <1>3, <2>2, <2>3 DEF Right, Answers, Bootstraps, Changes
    <2> QED
      BY <1>1, <1>3, <2>1, <2>4, ReadStep
  <1> QED
    BY <1>2, <1>3 DEF GetUser

\* The caller is known: a request of theirs goes on with their profile.
LEMMA KnownIs ==
  ASSUME IInv, NEW r \in Requests, req[r].op \in Signed \cup Managing, req[r].pc = "asked",
         NEW p \in DOMAIN investors, NEW row \in Rows, NEW q,
         q = [req[r] EXCEPT !.pc = "known", !.actor = p, !.row = row]
  PROVE  Right(q)
  <1>1. p \in 0..profiles
    BY RequestIs DEF IInv, DataTypes
  <1>2. /\ q \in RequestTypes /\ q.op = req[r].op /\ q.pc = "known" /\ q.email = req[r].email
        /\ q.answer = "none" /\ q.list = req[r].list
    BY <1>1, RequestIs DEF RequestTypes, RequestsOf, Steps, Right, Answers
  <1>3. req[r].op # "bootstrap"
    BY DEF Signed, Managing
  <1> QED
    BY <1>2, <1>3, RequestIs DEF Right, Answers, Bootstraps, Changes

LEMMA CognitoInvestorKept ==
  ASSUME Nobody \notin Identities, IInv, NEW r \in Requests, CognitoInvestor(r)
  PROVE  IInv'
  <1>1. Reads(r) /\ req[r].op \in Signed \cup Managing /\ req[r].pc = "asked"
    BY DEF CognitoInvestor
  <1>2. CASE Refuse(r)
    BY <1>1, <1>2, ReadEnds
  <1>3. ASSUME NEW p \in BySubject(req[r].who), NEW mfa \in BOOLEAN,
               Step(r, [req[r] EXCEPT !.pc = "known", !.actor = p,
                                      !.row = [investors[p] EXCEPT !.admin = @ /\ mfa]])
        PROVE  IInv'
    <2>1. p \in DOMAIN investors
      BY DEF BySubject
    <2>2. PICK row : row = [investors[p] EXCEPT !.admin = @ /\ mfa]
      OBVIOUS
    <2>3. row \in Rows
      BY <2>1, <2>2 DEF IInv, DataTypes, Rows
    <2>4. PICK q : q = [req[r] EXCEPT !.pc = "known", !.actor = p, !.row = row]
      OBVIOUS
    <2>5. Right(q)
      BY <1>1, <2>1, <2>3, <2>4, KnownIs
    <2> QED
      BY <1>1, <1>3, <2>2, <2>4, <2>5, ReadStep
  <1> QED
    BY <1>2, <1>3 DEF CognitoInvestor

LEMMA SessionInvestorKept ==
  ASSUME Nobody \notin Identities, IInv, NEW r \in Requests, SessionInvestor(r)
  PROVE  IInv'
  <1>1. /\ req[r].op \in Signed \cup Managing /\ req[r].pc = "asked"
        /\ UNCHANGED <<auth, emails, investors, watchlists, profiles, made>>
    BY DEF SessionInvestor
  <1>2. \/ UNCHANGED sessions
        \/ sessions' = Without(sessions, {req[r].who})
    BY DEF SessionInvestor
  <1>3. /\ DOMAIN sessions' \subseteq Requests \cup {0}
        /\ sessions' \in [DOMAIN sessions' -> DOMAIN investors]
    BY <1>2 DEF Without, IInv, DataTypes
  <1>4. DataTypes' /\ Onward
    BY <1>1, <1>3, SessionsOnward
  <1>5. CASE Refuse(r)
    BY <1>1, <1>4, <1>5, RefuseKept
  <1>6. ASSUME req[r].who \in DOMAIN sessions,
               NEW p, p = sessions[req[r].who],
               Step(r, [req[r] EXCEPT !.pc = "known", !.actor = p, !.row = investors[p]])
        PROVE  IInv'
    <2>1. p \in DOMAIN investors
      BY <1>6 DEF IInv, DataTypes
    <2>2. PICK row \in Rows : row = investors[p]
      BY <2>1 DEF IInv, DataTypes
    <2>3. PICK q : q = [req[r] EXCEPT !.pc = "known", !.actor = p, !.row = row]
      OBVIOUS
    <2>4. Right(q)
      BY <1>1, <2>1, <2>2, <2>3, KnownIs
    <2>5. Step(r, q)
      BY <1>6, <2>2, <2>3
    <2>6. Right(q)'
      BY <1>1, <1>4, <2>4, <2>5, LinksStay, StaysRight DEF IInv
    <2> QED
      BY <1>1, <1>4, <2>5, <2>6, Frame
  <1> QED
    BY <1>5, <1>6 DEF SessionInvestor

LEMMA PermitKept ==
  ASSUME Nobody \notin Identities, IInv, NEW r \in Requests, Permit(r)
  PROVE  IInv'
  <1>1. /\ Reads(r) /\ req[r].pc = "known" /\ Right(req[r])
        /\ req[r].actor \in 0..profiles
    BY RequestIs DEF Permit, RequestTypes, RequestsOf
  <1>2. CASE Refuse(r)
    BY <1>1, <1>2, ReadEnds
  <1>3. CASE req[r].op = "me" /\ Answered(r, req[r].actor)
    BY <1>1, <1>3, ReadEnds
  <1>4. CASE Step(r, [req[r] EXCEPT !.pc = "permitted"])
    <2>1. PICK q : q = [req[r] EXCEPT !.pc = "permitted"]
      OBVIOUS
    <2>2. "permitted" \in Steps
      BY DEF Steps
    <2>3. Right(q)
      BY <1>1, <2>1, <2>2, GoesOn DEF Right, Answers, Bootstraps, Changes
    <2> QED
      BY <1>1, <1>4, <2>1, <2>3, ReadStep
  <1> QED
    BY <1>2, <1>3, <1>4 DEF Permit

-----------------------------------------------------------------------------
\* A bootstrap.
LEMMA BootstrapIs ==
  ASSUME IInv, NEW r \in Requests, req[r].op = "bootstrap",
         req[r].pc \in {"user", "subject", "rename", "no_subject", "insert", "link", "reread"}
  PROVE  /\ Right(req[r]) /\ req[r].who \in Identities /\ req[r].answer = "none"
         /\ req[r].email \in Emails
         /\ req[r].found \in 0..profiles
  BY RequestIs DEF Right, Answers, Bootstraps, RequestTypes, RequestsOf

LEMMA FindSubjectKept ==
  ASSUME Nobody \notin Identities, IInv, NEW r \in Requests, FindSubject(r)
  PROVE  IInv'
  <1>1. /\ Reads(r) /\ req[r].op = "bootstrap" /\ req[r].pc = "user"
    BY DEF FindSubject, AtStep
  <1>2. CASE Step(r, [req[r] EXCEPT !.pc = "no_subject"])
    <2>1. PICK q : q = [req[r] EXCEPT !.pc = "no_subject"]
      OBVIOUS
    <2>2. "no_subject" \in Steps
      BY DEF Steps
    <2>3. Right(q)
      BY <1>1, <2>1, <2>2, GoesOn, BootstrapIs DEF Right, Answers, Bootstraps, Changes
    <2> QED
      BY <1>1, <1>2, <2>1, <2>3, ReadStep
  <1>3. ASSUME NEW p \in BySubject(req[r].who),
               Step(r, [req[r] EXCEPT !.pc = "subject", !.found = p, !.row = investors[p]])
        PROVE  IInv'
    <2>1. p \in DOMAIN investors /\ investors[p].sub = req[r].who /\ p \in 0..profiles
      BY RequestIs DEF BySubject, IInv, DataTypes
    <2>2. PICK row \in Rows : row = investors[p]
      BY <2>1 DEF IInv, DataTypes
    <2>3. PICK q : q = [req[r] EXCEPT !.pc = "subject", !.found = p, !.row = row]
      OBVIOUS
    <2>4. /\ q \in RequestTypes /\ q.op = "bootstrap" /\ q.pc = "subject" /\ q.found = p
          /\ q.who = req[r].who /\ q.email = req[r].email /\ q.answer = "none"
      BY <1>1, <2>1, <2>3, RequestIs, BootstrapIs DEF RequestTypes, RequestsOf, Steps
    <2>5. Right(q)
      BY <1>1, <2>1, <2>4, BootstrapIs DEF Right, Answers, Bootstraps, Changes
    <2> QED
      BY <1>1, <1>3, <2>2, <2>3, <2>5, ReadStep
  <1> QED
    BY <1>2, <1>3 DEF FindSubject

LEMMA CheckOwnerKept ==
  ASSUME Nobody \notin Identities, IInv, NEW r \in Requests, CheckOwner(r)
  PROVE  IInv'
  <1>1. /\ Reads(r) /\ req[r].op = "bootstrap" /\ req[r].pc = "subject"
    BY DEF CheckOwner, AtStep
  <1>2. req[r].found \in DOMAIN investors =>
          investors[req[r].found].sub = req[r].who \/ Relinked(req[r].found)
    BY <1>1, BootstrapIs DEF Right, Bootstraps
  <1>3. CASE Refuse(r)
    BY <1>1, <1>3, ReadEnds
  <1>4. CASE Answered(r, req[r].found)
    BY <1>1, <1>2, <1>4, BootstrapIs, ReadEnds
  <1>5. CASE Step(r, [req[r] EXCEPT !.pc = "rename"])
    <2>1. PICK q : q = [req[r] EXCEPT !.pc = "rename"]
      OBVIOUS
    <2>2. "rename" \in Steps
      BY DEF Steps
    <2>3. Right(q)
      BY <1>1, <1>2, <2>1, <2>2, GoesOn, BootstrapIs DEF Right, Answers, Bootstraps, Changes
    <2> QED
      BY <1>1, <1>5, <2>1, <2>3, ReadStep
  <1> QED
    BY <1>3, <1>4, <1>5 DEF CheckOwner

\* A commit that changes one profile: its subject, once it has one, only by linking.
LEMMA RowOnward ==
  ASSUME Nobody \notin Identities, IInv, NEW p \in DOMAIN investors, NEW row \in Rows,
         investors[p].sub # Nobody => row.sub = investors[p].sub \/ Relinked(p)',
         investors' = [investors EXCEPT ![p] = row],
         UNCHANGED <<auth, emails, sessions, watchlists, profiles, made>>
  PROVE  DataTypes' /\ Onward /\ DOMAIN investors' = DOMAIN investors
         /\ investors'[p] = row
  <1>1. /\ DOMAIN investors' = DOMAIN investors /\ investors'[p] = row
        /\ \A x \in DOMAIN investors : x # p => investors'[x] = investors[x]
        /\ investors' \in [DOMAIN investors' -> Rows]
    BY DEF IInv, DataTypes
  <1>2. DataTypes'
    BY <1>1 DEF IInv, DataTypes, Rows
  <1>4. Onward
    <2>1. profiles' >= profiles
      BY DEF IInv, DataTypes
    <2> QED
      BY <1>1, <2>1 DEF Onward
  <1> QED
    BY <1>1, <1>2, <1>4

\* A profile's row.
LEMMA RowIs ==
  ASSUME IInv, NEW p \in DOMAIN investors
  PROVE  investors[p] \in Rows /\ investors[p].email \in Emails /\ p \in 1..profiles
  BY DEF IInv, DataTypes, Rows

LEMMA RenameKept ==
  ASSUME Nobody \notin Identities, IInv, NEW r \in Requests, Rename(r)
  PROVE  IInv'
  <1>1. /\ req[r].op = "bootstrap" /\ req[r].pc = "rename"
        /\ UNCHANGED <<auth, emails, sessions, watchlists, entries, profiles, made>>
    BY DEF Rename, AtStep
  <1>2. CASE Refuse(r) /\ UNCHANGED investors
    <2>1. DataTypes' /\ Onward
      BY <1>1, <1>2, ReadsOnward DEF data
    <2> QED
      BY <1>1, <1>2, <2>1, RefuseKept
  <1>3. ASSUME req[r].found \in DOMAIN investors, Answered(r, req[r].found),
               investors' = [investors EXCEPT ![req[r].found].email = req[r].email]
        PROVE  IInv'
    <2>1. PICK p \in DOMAIN investors : p = req[r].found
      BY <1>3
    <2>2. (investors[p].sub = req[r].who \/ Relinked(p)) /\ p \in 1..profiles
      BY <1>1, <2>1, RowIs, BootstrapIs DEF Right, Bootstraps
    <2>3. PICK row : row = [investors[p] EXCEPT !.email = req[r].email]
      OBVIOUS
    <2>4. row \in Rows /\ row.email = req[r].email /\ row.sub = investors[p].sub
      BY <1>1, <2>3, RowIs, BootstrapIs DEF Rows
    <2>5. investors' = [investors EXCEPT ![p] = row]
      BY <1>3, <2>1, <2>3
    <2>6. DataTypes' /\ Onward /\ investors'[p] = row
      BY <1>1, <2>4, <2>5, BootstrapIs, RowOnward
    <2>7. p \in 0..profiles'
      BY <1>1, <2>1, BootstrapIs
    <2> QED
      BY <1>1, <1>3, <2>1, <2>2, <2>4, <2>6, <2>7, AnsweredKept
  <1> QED
    BY <1>2, <1>3 DEF Rename, Committed

LEMMA FindEmailKept ==
  ASSUME Nobody \notin Identities, IInv, NEW r \in Requests, FindEmail(r)
  PROVE  IInv'
  <1>1. /\ Reads(r) /\ req[r].op = "bootstrap" /\ req[r].pc = "no_subject"
    BY DEF FindEmail, AtStep
  <1>2. CASE Refuse(r)
    BY <1>1, <1>2, ReadEnds
  <1>3. CASE Step(r, [req[r] EXCEPT !.pc = "insert"])
    <2>1. PICK q : q = [req[r] EXCEPT !.pc = "insert"]
      OBVIOUS
    <2>2. "insert" \in Steps
      BY DEF Steps
    <2>3. Right(q)
      BY <1>1, <2>1, <2>2, GoesOn, BootstrapIs DEF Right, Answers, Bootstraps, Changes
    <2> QED
      BY <1>1, <1>3, <2>1, <2>3, ReadStep
  <1>4. ASSUME NEW p \in ByEmail(req[r].email), auth.link,
               Step(r, [req[r] EXCEPT !.pc = "link", !.found = p])
        PROVE  IInv'
    <2>1. p \in 0..profiles
      BY RequestIs DEF ByEmail, IInv, DataTypes
    <2>2. PICK q : q = [req[r] EXCEPT !.pc = "link", !.found = p]
      OBVIOUS
    <2>5. /\ q \in RequestTypes /\ q.pc = "link" /\ q.op = "bootstrap" /\ q.found = p
          /\ q.who = req[r].who /\ q.email = req[r].email /\ q.answer = "none"
      BY <1>1, <2>1, <2>2, RequestIs, BootstrapIs DEF RequestTypes, RequestsOf, Steps
    <2>4. Right(q)
      BY <1>1, <1>4, <2>1, <2>5, BootstrapIs DEF Right, Answers, Bootstraps, Changes
    <2> QED
      BY <1>1, <1>4, <2>2, <2>4, ReadStep
  <1> QED
    BY <1>2, <1>3, <1>4 DEF FindEmail

\* A bootstrap that lost a race looks again.
LEMMA LooksAgain ==
  ASSUME Nobody \notin Identities, IInv, NEW r \in Requests, req[r].op = "bootstrap",
         req[r].pc \in {"link", "insert"}, Step(r, [req[r] EXCEPT !.pc = "reread"]),
         UNCHANGED <<auth, emails, investors, sessions, watchlists, entries, profiles, made>>
  PROVE  IInv'
  <1>1. PICK q : q = [req[r] EXCEPT !.pc = "reread"]
    OBVIOUS
  <1>2. "reread" \in Steps
    BY DEF Steps
  <1>3. Right(q)
    BY <1>1, <1>2, GoesOn, BootstrapIs DEF Right, Answers, Bootstraps, Changes
  <1> QED
    BY <1>1, <1>3, ReadStep DEF Reads, data

LEMMA LinkKept ==
  ASSUME Nobody \notin Identities, IInv, NEW r \in Requests, Link(r)
  PROVE  IInv'
  <1>1. /\ req[r].op = "bootstrap" /\ req[r].pc = "link"
        /\ UNCHANGED <<auth, emails, sessions, watchlists, entries, profiles, made>>
    BY DEF Link, AtStep
  <1>2. CASE Refuse(r) /\ UNCHANGED investors
    <2>1. DataTypes' /\ Onward
      BY <1>1, <1>2, ReadsOnward DEF data
    <2> QED
      BY <1>1, <1>2, <2>1, RefuseKept
  <1>3. CASE Step(r, [req[r] EXCEPT !.pc = "reread"]) /\ UNCHANGED investors
    BY <1>1, <1>3, LooksAgain
  <1>4. ASSUME req[r].found \in DOMAIN investors, Answered(r, req[r].found),
               investors' = [investors EXCEPT ![req[r].found].sub = req[r].who]
        PROVE  IInv'
    <2>1. PICK p \in DOMAIN investors : p = req[r].found
      BY <1>4
    <2>2. auth.link
      BY <1>1, BootstrapIs DEF Right, Bootstraps
    <2>3. PICK row : row = [investors[p] EXCEPT !.sub = req[r].who]
      OBVIOUS
    <2>4. row \in Rows /\ row.email = investors[p].email /\ row.sub = req[r].who
      BY <1>1, <2>3, RowIs, BootstrapIs DEF Rows
    <2>5. investors' = [investors EXCEPT ![p] = row]
      BY <1>4, <2>1, <2>3
    <2>9. /\ req'[r].op = "bootstrap" /\ req'[r].answer = "profile"
          /\ req'[r].found = p /\ req'[r].who = req[r].who
      BY <1>1, <1>4, <2>1 DEF Answered, Step, NoRequest, IInv
    <2>10. investors'[p].sub = req[r].who
      BY <2>4, <2>5 DEF IInv, DataTypes
    <2>8. Relinked(p)'
      BY <1>1, <2>2, <2>9, <2>10 DEF Relinked, AnsweredWith
    <2>6. DataTypes' /\ Onward /\ investors'[p] = row
      BY <1>1, <2>4, <2>5, <2>8, RowOnward
    <2>7. p \in 0..profiles'
      BY <1>1, <2>1, BootstrapIs
    <2> QED
      BY <1>1, <1>4, <2>1, <2>4, <2>6, <2>7, AnsweredKept
  <1> QED
    BY <1>2, <1>3, <1>4 DEF Link, Committed

\* A commit that adds a profile.
LEMMA NewOnward ==
  ASSUME Nobody \notin Identities, IInv, NEW row \in Rows,
         investors' = Extended(investors, profiles + 1, row), profiles' = profiles + 1,
         UNCHANGED <<auth, emails, sessions, watchlists, made>>
  PROVE  /\ DataTypes' /\ Onward
         /\ profiles + 1 \in 0..profiles' /\ investors'[profiles + 1] = row
  <1>1. PICK n \in Nat : n = profiles
    BY DEF IInv, DataTypes
  <1>2. /\ n + 1 \in 0..(n + 1) /\ n + 1 \in 1..(n + 1) /\ n + 1 \notin 1..n
        /\ 1..n \subseteq 1..(n + 1) /\ n + 1 >= n /\ n + 1 \in Nat
    OBVIOUS
  <1>3. n + 1 \notin DOMAIN investors /\ DOMAIN investors \subseteq 1..n
    BY <1>1, <1>2 DEF IInv, DataTypes
  <1>4. /\ DOMAIN investors' = DOMAIN investors \cup {n + 1} /\ investors'[n + 1] = row
        /\ \A x \in DOMAIN investors : investors'[x] = investors[x]
        /\ investors' \in [DOMAIN investors' -> Rows]
    BY <1>1, <1>3 DEF Extended, IInv, DataTypes
  <1>5. DOMAIN investors' \subseteq 1..(n + 1)
    BY <1>2, <1>3, <1>4
  <1>6. DataTypes'
    <2>1. sessions' \in [DOMAIN sessions' -> DOMAIN investors']
      BY <1>4 DEF IInv, DataTypes
    <2> QED
      BY <1>1, <1>2, <1>4, <1>5, <2>1 DEF IInv, DataTypes, Rows
  <1>8. Onward
    BY <1>1, <1>2, <1>4 DEF Onward
  <1> QED
    BY <1>1, <1>2, <1>4, <1>6, <1>8

LEMMA InsertKept ==
  ASSUME Nobody \notin Identities, IInv, NEW r \in Requests, Insert(r)
  PROVE  IInv'
  <1>1. /\ req[r].op = "bootstrap" /\ req[r].pc = "insert"
        /\ UNCHANGED <<auth, emails, sessions, watchlists, entries, made>>
    BY DEF Insert, AtStep
  <1>2. CASE /\ Step(r, [req[r] EXCEPT !.pc = "reread"]) /\ UNCHANGED <<investors, profiles>>
    BY <1>1, <1>2, LooksAgain
  <1>3. CASE /\ investors' = Extended(investors, profiles + 1,
                                      Row(req[r].email, req[r].who, FALSE, FALSE))
             /\ profiles' = profiles + 1 /\ Answered(r, profiles + 1)
    <2>4. PICK row : row = Row(req[r].email, req[r].who, FALSE, FALSE)
      OBVIOUS
    <2>1. row \in Rows /\ row.email = req[r].email /\ row.sub = req[r].who
      BY <1>1, <2>4, BootstrapIs DEF Row, Rows
    <2>3. /\ DataTypes' /\ Onward
          /\ profiles + 1 \in 0..profiles' /\ investors'[profiles + 1] = row
      BY <1>1, <1>3, <2>1, <2>4, NewOnward
    <2> QED
      BY <1>1, <1>3, <2>1, <2>3, AnsweredKept
  <1> QED
    BY <1>2, <1>3 DEF Insert, Inserted

LEMMA RereadKept ==
  ASSUME Nobody \notin Identities, IInv, NEW r \in Requests, Reread(r)
  PROVE  IInv'
  <1>1. Reads(r) /\ req[r].pc = "reread"
    BY DEF Reread, AtStep
  <1>2. CASE Refuse(r)
    BY <1>1, <1>2, ReadEnds
  <1>3. ASSUME NEW p \in Concurrent(r), Answered(r, p)
        PROVE  IInv'
    <2>1. p \in 0..profiles /\ investors[p].sub = req[r].who
      BY RequestIs DEF Concurrent, BySubject, IInv, DataTypes
    <2> QED
      BY <1>1, <1>3, <2>1, ReadEnds
  <1> QED
    BY <1>2, <1>3 DEF Reread

-----------------------------------------------------------------------------
\* The legacy sign-in.
LEMMA FindAccountKept ==
  ASSUME Nobody \notin Identities, IInv, NEW r \in Requests, FindAccount(r)
  PROVE  IInv'
  <1>1. /\ Reads(r) /\ req[r].op \in {"sign_up", "sign_in"} /\ req[r].pc = "asked"
        /\ Right(req[r])
    BY RequestIs DEF FindAccount
  <1>2. CASE Refuse(r)
    BY <1>1, <1>2, ReadEnds
  <1>3. CASE Step(r, [req[r] EXCEPT !.pc = "create"])
    <2>1. PICK q : q = [req[r] EXCEPT !.pc = "create"]
      OBVIOUS
    <2>2. "create" \in Steps
      BY DEF Steps
    <2>3. Right(q)
      BY <1>1, <2>1, <2>2, GoesOn DEF Right, Answers, Bootstraps, Changes
    <2> QED
      BY <1>1, <1>3, <2>1, <2>3, ReadStep
  <1>4. ASSUME NEW p \in {x \in ByEmail(req[r].email) : investors[x].password},
               Step(r, [req[r] EXCEPT !.pc = "session", !.found = p])
        PROVE  IInv'
    <2>1. p \in DOMAIN investors /\ p \in 0..profiles
      BY RequestIs DEF ByEmail, IInv, DataTypes
    <2>2. PICK q : q = [req[r] EXCEPT !.pc = "session", !.found = p]
      OBVIOUS
    <2>5. /\ q \in RequestTypes /\ q.pc = "session" /\ q.op = req[r].op
          /\ q.email = req[r].email /\ q.answer = "none"
      BY <1>1, <2>1, <2>2 DEF Right, Answers, RequestTypes, RequestsOf, Steps
    <2>4. Right(q)
      BY <1>1, <2>5 DEF Right, Answers, Bootstraps, Changes
    <2> QED
      BY <1>1, <1>4, <2>2, <2>4, ReadStep
  <1> QED
    BY <1>2, <1>3, <1>4 DEF FindAccount

LEMMA CreateAccountKept ==
  ASSUME Nobody \notin Identities, IInv, NEW r \in Requests, CreateAccount(r)
  PROVE  IInv'
  <1>1. /\ req[r].op = "sign_up" /\ req[r].pc = "create" /\ Right(req[r])
        /\ UNCHANGED <<auth, emails, sessions, watchlists, entries, made>>
    BY RequestIs DEF CreateAccount, AtStep
  <1>2. CASE Refuse(r) /\ UNCHANGED <<investors, profiles>>
    <2>1. DataTypes' /\ Onward
      BY <1>1, <1>2, ReadsOnward DEF data
    <2> QED
      BY <1>1, <1>2, <2>1, RefuseKept
  <1>3. CASE /\ investors' = Extended(investors, profiles + 1,
                                      Row(req[r].email, Nobody, TRUE, FALSE))
             /\ profiles' = profiles + 1
             /\ Step(r, [req[r] EXCEPT !.pc = "session", !.found = profiles + 1])
    <2>1. req[r].email \in Emails /\ req[r].answer = "none"
      BY <1>1 DEF Right, Answers
    <2>6. PICK row : row = Row(req[r].email, Nobody, TRUE, FALSE)
      OBVIOUS
    <2>2. row \in Rows /\ row.sub = Nobody
      BY <2>1, <2>6 DEF Row, Rows
    <2>3. /\ DataTypes' /\ Onward
          /\ profiles + 1 \in 0..profiles'
      BY <1>1, <1>3, <2>2, <2>6, NewOnward
    <2>4. PICK p : p = profiles + 1
      OBVIOUS
    <2>5. PICK q : q = [req[r] EXCEPT !.pc = "session", !.found = p]
      OBVIOUS
    <2>7. profiles \in Nat /\ profiles' \in Nat /\ profiles' >= profiles
      BY <2>3, RequestIs DEF DataTypes, Onward
    <2>8. req[r] \in RequestTypes'
      BY <1>1, <2>7 DEF Right, RequestTypes, RequestsOf
    <2>9. /\ q \in RequestTypes' /\ q.op = "sign_up" /\ q.pc = "session"
          /\ q.email = req[r].email /\ q.answer = "none"
      BY <1>1, <2>1, <2>3, <2>4, <2>5, <2>8 DEF RequestTypes, RequestsOf, Steps
    <2>10. Right(q)'
      BY <2>1, <2>9 DEF Right, Answers, Bootstraps, Changes
    <2> QED
      BY <1>1, <1>3, <2>3, <2>4, <2>5, <2>10, Frame
  <1> QED
    BY <1>2, <1>3 DEF CreateAccount, Inserted

LEMMA CreateSessionKept ==
  ASSUME Nobody \notin Identities, IInv, NEW r \in Requests, CreateSession(r)
  PROVE  IInv'
  <1>1. /\ req[r].pc = "session" /\ UNCHANGED <<auth, emails, investors, watchlists, profiles, made>>
        /\ req[r].found \in 0..profiles
    BY RequestIs DEF CreateSession, RequestTypes, RequestsOf
  <1>2. CASE Refuse(r) /\ UNCHANGED sessions
    <2>1. /\ DOMAIN sessions' \subseteq Requests \cup {0}
          /\ sessions' \in [DOMAIN sessions' -> DOMAIN investors]
      BY <1>2 DEF IInv, DataTypes
    <2>2. DataTypes' /\ Onward
      BY <1>1, <2>1, SessionsOnward
    <2> QED
      BY <1>1, <1>2, <2>2, RefuseKept
  <1>3. CASE /\ req[r].found \in DOMAIN investors
             /\ sessions' = Extended(sessions, r, req[r].found) /\ Answered(r, req[r].found)
    <2>1. /\ DOMAIN sessions' \subseteq Requests \cup {0}
          /\ sessions' \in [DOMAIN sessions' -> DOMAIN investors]
      BY <1>3 DEF Extended, IInv, DataTypes
    <2>2. DataTypes' /\ Onward
      BY <1>1, <2>1, SessionsOnward
    <2>3. req[r].op # "bootstrap"
      BY <1>1, RequestIs DEF Right, Answers
    <2> QED
      BY <1>1, <1>3, <2>2, <2>3, AnsweredKept
  <1> QED
    BY <1>2, <1>3 DEF CreateSession

LEMMA SignOutKept ==
  ASSUME Nobody \notin Identities, IInv, NEW r \in Requests, SignOut(r)
  PROVE  IInv'
  <1>1. /\ req[r].op = "sign_out" /\ req[r].pc = "asked"
        /\ UNCHANGED <<auth, emails, investors, watchlists, profiles, made>>
        /\ sessions' \in {sessions, Without(sessions, {req[r].who})}
        /\ Refuse(r) \/ Done(r)
    BY DEF SignOut, AtStep
  <1>2. /\ DOMAIN sessions' \subseteq Requests \cup {0}
        /\ sessions' \in [DOMAIN sessions' -> DOMAIN investors]
    BY <1>1 DEF Without, IInv, DataTypes
  <1>3. DataTypes' /\ Onward
    BY <1>1, <1>2, SessionsOnward
  <1> QED
    BY <1>1, <1>3, RefuseKept, DoneKept

-----------------------------------------------------------------------------
\* Watchlists.
LEMMA ListRequest ==
  ASSUME IInv, NEW r \in Requests
  PROVE  /\ req[r].op \in Ops \cup {"none"} /\ req[r].list \in Lists \cup {"none"}
         /\ req[r].actor \in 0..profiles /\ Changes(req[r])
  BY RequestIs DEF Right, RequestTypes, RequestsOf

LEMMA CreateListKept ==
  ASSUME Nobody \notin Identities, IInv, NEW r \in Requests, CreateList(r)
  PROVE  IInv'
  <1>1. /\ req[r].op = "create_list" /\ req[r].pc = "permitted"
        /\ req[r].list \notin made /\ req[r].list \in Lists
        /\ UNCHANGED <<auth, emails, investors, sessions, profiles>>
    BY RequestIs DEF CreateList, AtStep, Right, Answers
  <1>2. CASE Refuse(r) /\ UNCHANGED <<watchlists, made>>
    <2>1. /\ DOMAIN sessions' \subseteq Requests \cup {0}
          /\ sessions' \in [DOMAIN sessions' -> DOMAIN investors]
      BY <1>1 DEF IInv, DataTypes
    <2>2. DataTypes' /\ Onward
      BY <1>1, <1>2, <2>1, SessionsOnward
    <2> QED
      BY <1>1, <1>2, <2>2, RefuseKept
  <1>3. CASE /\ watchlists' = Extended(watchlists, req[r].list, req[r].actor)
             /\ made' = made \cup {req[r].list} /\ Done(r)
    <2>1. /\ DOMAIN watchlists' = DOMAIN watchlists \cup {req[r].list}
          /\ watchlists'[req[r].list] = req[r].actor
          /\ \A w \in DOMAIN watchlists : w \in made => watchlists'[w] = watchlists[w]
      BY <1>1, <1>3 DEF Extended
    <2>2. DataTypes'
      BY <1>1, <1>3, <2>1 DEF IInv, DataTypes, Rows
    <2>4. Onward
      <3>1. profiles' >= profiles
        BY <1>1 DEF IInv, DataTypes
      <3> QED
        BY <1>1, <1>3, <2>1, <3>1 DEF Onward
    <2> QED
      BY <1>1, <1>3, <2>1, <2>2, <2>4, DoneKept
  <1> QED
    BY <1>2, <1>3 DEF CreateList

LEMMA CheckListKept ==
  ASSUME Nobody \notin Identities, IInv, NEW r \in Requests, CheckList(r)
  PROVE  IInv'
  <1>1. /\ Reads(r) /\ req[r].op \in {"delete_list", "add", "remove"}
        /\ req[r].pc = "permitted" /\ Right(req[r]) /\ req[r].answer = "none"
    BY RequestIs DEF CheckList, Right, Answers
  <1>2. CASE Refuse(r)
    BY <1>1, <1>2, ReadEnds
  <1>3. CASE Owned(r) /\ Step(r, [req[r] EXCEPT !.pc = "owned"])
    <2>1. PICK q : q = [req[r] EXCEPT !.pc = "owned"]
      OBVIOUS
    <2>2. "owned" \in Steps
      BY DEF Steps
    <2>3. /\ q \in RequestTypes /\ q.pc = "owned" /\ q.op = req[r].op /\ q.answer = "none"
          /\ q.list = req[r].list /\ q.actor = req[r].actor
      BY <1>1, <2>1, <2>2, GoesOn
    <2>4. q.list \in made /\ watchlists[q.list] = q.actor
      BY <1>3, <2>3 DEF Owned, IInv, DataTypes
    <2>5. Right(q)
      BY <1>1, <2>3, <2>4 DEF Right, Answers, Bootstraps, Changes
    <2> QED
      BY <1>1, <1>3, <2>1, <2>5, ReadStep
  <1> QED
    BY <1>2, <1>3 DEF CheckList

LEMMA DeleteListKept ==
  ASSUME Nobody \notin Identities, IInv, NEW r \in Requests, DeleteList(r)
  PROVE  IInv'
  <1>1. /\ req[r].op = "delete_list" /\ req[r].pc = "owned" /\ (Refuse(r) \/ Done(r))
        /\ watchlists' \in {watchlists, Without(watchlists, {req[r].list})}
        /\ UNCHANGED <<auth, emails, investors, sessions, profiles, made>>
    BY DEF DeleteList, AtStep
  <1>2. /\ DOMAIN watchlists' \subseteq DOMAIN watchlists
        /\ \A w \in DOMAIN watchlists' : watchlists'[w] = watchlists[w]
    BY <1>1 DEF Without
  <1>3. DataTypes'
    BY <1>1, <1>2 DEF IInv, DataTypes, Rows
  <1>5. profiles' >= profiles
    BY <1>1 DEF IInv, DataTypes
  <1>6. Onward
    BY <1>1, <1>2, <1>5 DEF Onward
  <1> QED
    BY <1>1, <1>3, <1>6, RefuseKept, DoneKept

LEMMA FindEntryKept ==
  ASSUME Nobody \notin Identities, IInv, NEW r \in Requests, FindEntry(r)
  PROVE  IInv'
  <1>1. /\ Reads(r) /\ req[r].op \in {"add", "remove"} /\ req[r].pc = "owned"
        /\ Right(req[r]) /\ req[r].answer = "none"
        /\ req[r].list \in made
        /\ req[r].list \in DOMAIN watchlists => watchlists[req[r].list] = req[r].actor
    BY RequestIs DEF FindEntry, Right, Answers, Changes
  <1>2. CASE Done(r)
    BY <1>1, <1>2, ReadEnds
  <1>3. CASE Step(r, [req[r] EXCEPT !.pc = "change"])
    <2>1. PICK q : q = [req[r] EXCEPT !.pc = "change"]
      OBVIOUS
    <2>2. "change" \in Steps
      BY DEF Steps
    <2>3. /\ q \in RequestTypes /\ q.pc = "change" /\ q.op = req[r].op /\ q.answer = "none"
          /\ q.list = req[r].list /\ q.actor = req[r].actor
      BY <1>1, <2>1, <2>2, GoesOn
    <2>4. Right(q)
      BY <1>1, <2>3 DEF Right, Answers, Bootstraps, Changes
    <2> QED
      BY <1>1, <1>3, <2>1, <2>4, ReadStep
  <1> QED
    BY <1>2, <1>3 DEF FindEntry

\* Adding a ticker and removing one.
LEMMA ChangeKept ==
  ASSUME Nobody \notin Identities, IInv, NEW r \in Requests, AddTicker(r) \/ RemoveTicker(r)
  PROVE  IInv'
  <1>1. /\ req[r].op \in {"add", "remove"} /\ req[r].pc = "change" /\ (Refuse(r) \/ Done(r))
        /\ UNCHANGED <<auth, emails, investors, sessions, watchlists, profiles, made>>
    BY DEF AddTicker, RemoveTicker, AtStep
  <1>2. /\ req[r].list \in made
        /\ req[r].list \in DOMAIN watchlists => watchlists[req[r].list] = req[r].actor
    BY <1>1, ListRequest DEF Changes
  <1>3. /\ DOMAIN sessions' \subseteq Requests \cup {0}
        /\ sessions' \in [DOMAIN sessions' -> DOMAIN investors]
    BY <1>1 DEF IInv, DataTypes
  <1>4. DataTypes' /\ Onward
    BY <1>1, <1>3, SessionsOnward
  <1> QED
    BY <1>1, <1>2, <1>4, RefuseKept, DoneKept

-----------------------------------------------------------------------------
\* Accounts.
LEMMA CreateInvestorKept ==
  ASSUME Nobody \notin Identities, IInv, NEW r \in Requests, CreateInvestor(r)
  PROVE  IInv'
  <1>1. /\ req[r].op = "create_investor" /\ req[r].pc = "permitted" /\ Right(req[r])
        /\ UNCHANGED <<auth, emails, sessions, watchlists, entries, made>>
    BY RequestIs DEF CreateInvestor, AtStep
  <1>2. CASE Refuse(r) /\ UNCHANGED <<investors, profiles>>
    <2>1. DataTypes' /\ Onward
      BY <1>1, <1>2, ReadsOnward DEF data
    <2> QED
      BY <1>1, <1>2, <2>1, RefuseKept
  <1>3. CASE /\ investors' = Extended(investors, profiles + 1,
                                      Row(req[r].email, Nobody, TRUE, FALSE))
             /\ profiles' = profiles + 1 /\ Done(r)
    <2>1. req[r].email \in Emails
      BY <1>1 DEF Right, Answers
    <2>2. PICK row : row = Row(req[r].email, Nobody, TRUE, FALSE)
      OBVIOUS
    <2>3. row \in Rows /\ row.sub = Nobody
      BY <2>1, <2>2 DEF Row, Rows
    <2>4. DataTypes' /\ Onward
      BY <1>1, <1>3, <2>2, <2>3, NewOnward
    <2> QED
      BY <1>1, <1>3, <2>4, DoneKept
  <1> QED
    BY <1>2, <1>3 DEF CreateInvestor, Inserted

LEMMA UpdateInvestorKept ==
  ASSUME Nobody \notin Identities, IInv, NEW r \in Requests, UpdateInvestor(r)
  PROVE  IInv'
  <1>1. /\ req[r].op = "update_investor" /\ req[r].pc = "permitted" /\ Right(req[r])
        /\ UNCHANGED <<auth, emails, sessions, watchlists, entries, profiles, made>>
    BY RequestIs DEF UpdateInvestor, AtStep
  <1>2. CASE Refuse(r) /\ UNCHANGED investors
    <2>1. DataTypes' /\ Onward
      BY <1>1, <1>2, ReadsOnward DEF data
    <2> QED
      BY <1>1, <1>2, <2>1, RefuseKept
  <1>3. ASSUME NEW p \in DOMAIN investors, NEW admin \in BOOLEAN, Done(r),
               NEW e \in {investors[p].email, req[r].email},
               investors' = [investors EXCEPT ![p].email = e, ![p].admin = admin]
        PROVE  IInv'
    <2>1. e \in Emails
      BY <1>1, RowIs DEF Right, Answers
    <2>2. PICK row : row = [investors[p] EXCEPT !.email = e, !.admin = admin]
      OBVIOUS
    <2>3. row \in Rows /\ row.sub = investors[p].sub
      BY <2>1, <2>2, RowIs DEF Rows
    <2>4. investors' = [investors EXCEPT ![p] = row]
      BY <1>3, <2>2
    <2>5. DataTypes' /\ Onward
      BY <1>1, <2>3, <2>4, RowOnward
    <2> QED
      BY <1>1, <1>3, <2>5, DoneKept
  <1> QED
    BY <1>2, <1>3 DEF UpdateInvestor

LEMMA DeleteInvestorKept ==
  ASSUME Nobody \notin Identities, IInv, NEW r \in Requests, DeleteInvestor(r)
  PROVE  IInv'
  <1>1. /\ req[r].op = "delete_investor" /\ req[r].pc = "permitted"
        /\ UNCHANGED <<auth, emails, watchlists, entries, profiles, made>>
    BY DEF DeleteInvestor, AtStep
  <1>2. CASE Refuse(r) /\ UNCHANGED <<investors, sessions>>
    <2>1. DataTypes' /\ Onward
      BY <1>1, <1>2, ReadsOnward DEF data
    <2> QED
      BY <1>1, <1>2, <2>1, RefuseKept
  <1>3. ASSUME NEW p \in DOMAIN investors, investors' = Without(investors, {p}), Done(r),
               sessions' = Without(sessions, {t \in DOMAIN sessions : sessions[t] = p})
        PROVE  IInv'
    <2>1. /\ DOMAIN investors' = DOMAIN investors \ {p}
          /\ \A x \in DOMAIN investors' : investors'[x] = investors[x]
          /\ investors' \in [DOMAIN investors' -> Rows]
      BY <1>3 DEF Without, IInv, DataTypes
    <2>2. /\ DOMAIN sessions' \subseteq Requests \cup {0}
          /\ sessions' \in [DOMAIN sessions' -> DOMAIN investors']
      BY <1>3, <2>1 DEF Without, IInv, DataTypes
    <2>3. DataTypes'
      BY <1>1, <2>1, <2>2 DEF IInv, DataTypes, Rows
    <2>5. profiles' >= profiles
      BY <1>1 DEF IInv, DataTypes
    <2>6. Onward
      BY <1>1, <2>1, <2>5 DEF Onward
    <2> QED
      BY <1>1, <1>3, <2>3, <2>6, DoneKept
  <1> QED
    BY <1>2, <1>3 DEF DeleteInvestor

\* An identity changes its email with Cognito; nothing that was found is touched.
LEMMA ChangeEmailKept ==
  ASSUME Nobody \notin Identities, IInv, NEW i \in Identities, ChangeEmail(i)
  PROVE  IInv'
  <1>1. PICK e \in Emails : emails' = [emails EXCEPT ![i] = e]
    BY DEF ChangeEmail
  <1>2. UNCHANGED <<auth, investors, sessions, watchlists, profiles, made, req>>
    BY DEF ChangeEmail, data
  <1>3. emails' \in [Identities -> Emails]
    BY <1>1 DEF IInv, DataTypes
  <1>4. DataTypes'
    BY <1>2, <1>3 DEF IInv, DataTypes, Rows
  <1> QED
    BY <1>2, <1>4 DEF IInv, Right, RequestTypes, RequestsOf, Answers, Bootstraps, Changes,
                      Relinked, AnsweredWith

-----------------------------------------------------------------------------
(* The invariant holds at the start and every step keeps it.                     *)
LEMMA InitIInv ==
  ASSUME Nobody \notin Identities, Init
  PROVE  IInv
  <1>1. PICK i \in Identities, j \in Identities :
          investors \in {[p \in {1} |-> Row(emails[i], i, TRUE, TRUE)],
                         [p \in {1, 2} |-> IF p = 1 THEN Row(emails[i], i, TRUE, TRUE)
                                           ELSE Row(emails[j], Nobody, TRUE, FALSE)]}
    BY DEF Init
  <1>2. PICK a : a = Row(emails[i], i, TRUE, TRUE)
    OBVIOUS
  <1>3. PICK b : b = Row(emails[j], Nobody, TRUE, FALSE)
    OBVIOUS
  <1>4. emails[i] \in Emails /\ emails[j] \in Emails
    BY DEF Init
  <1>5. a \in Rows /\ b \in Rows
    BY <1>2, <1>3, <1>4 DEF Row, Rows
  <1>6. PICK n \in {1, 2} : /\ DOMAIN investors = 1..n /\ investors \in [1..n -> Rows]
                            /\ investors[1] = a /\ (n = 2 => investors[2] = b)
    <2>1. CASE investors = [p \in {1} |-> a]
      <3>1. 1..1 = {1}
        OBVIOUS
      <3> QED
        BY <1>5, <2>1, <3>1
    <2>2. CASE investors = [p \in {1, 2} |-> IF p = 1 THEN a ELSE b]
      <3>1. 1..2 = {1, 2}
        OBVIOUS
      <3> QED
        BY <1>5, <2>2, <3>1
    <2> QED
      BY <1>1, <1>2, <1>3, <2>1, <2>2
  <1>7. profiles = n
    <2>1. profiles = Cardinality(1..n)
      BY <1>6 DEF Init
    <2>2. 1 \in Int /\ n \in Int
      BY <1>6
    <2>3. Cardinality(1..n) = IF 1 > n THEN 0 ELSE n - 1 + 1
      BY <2>2, FS_Interval
    <2>4. n = IF 1 > n THEN 0 ELSE n - 1 + 1
      BY <1>6
    <2> QED
      BY <2>1, <2>3, <2>4
  <1>9. emails \in [Identities -> Emails]
    BY DEF Init
  <1>10. /\ made \subseteq Lists /\ DOMAIN watchlists \subseteq made
         /\ DOMAIN sessions = {0} /\ sessions[0] = 1 /\ sessions = [t \in {0} |-> 1]
    BY DEF Init
  <1>11. DataTypes
    <2>1. 1 \in 1..n /\ n \in Nat
      BY <1>6
    <2>2. sessions \in [DOMAIN sessions -> DOMAIN investors]
      BY <1>6, <1>10, <2>1
    <2> QED
      BY <1>6, <1>7, <1>9, <1>10, <2>1, <2>2 DEF DataTypes
  <1>12. NoRequest \in RequestTypes
    BY <1>11, NoRequestIs DEF DataTypes, RequestTypes
  <1>13. NoRequest.op = "none" /\ NoRequest.pc = "idle" /\ NoRequest.answer = "none"
    BY DEF NoRequest
  <1>14. Right(NoRequest)
    BY <1>12, <1>13 DEF Right, Answers, Bootstraps, Changes
  <1>15. req = [r \in Requests |-> NoRequest]
    BY DEF Init
  <1> QED
    BY <1>11, <1>14, <1>15 DEF IInv

LEMMA StepIInv ==
  ASSUME Nobody \notin Identities, IInv, Next
  PROVE  IInv'
  <1>1. ASSUME NEW r \in Requests, NEW op \in Ops, Ask(r, op)
        PROVE  IInv'
    BY <1>1, AskKept
  <1>2. ASSUME NEW r \in Requests,
               GetUser(r) \/ CognitoInvestor(r) \/ SessionInvestor(r) \/ Permit(r)
        PROVE  IInv'
    BY <1>2, GetUserKept, CognitoInvestorKept, SessionInvestorKept, PermitKept
  <1>3. ASSUME NEW r \in Requests,
               \/ FindSubject(r) \/ CheckOwner(r) \/ Rename(r) \/ FindEmail(r) \/ Link(r)
               \/ Insert(r) \/ Reread(r)
        PROVE  IInv'
    BY <1>3, FindSubjectKept, CheckOwnerKept, RenameKept, FindEmailKept, LinkKept,
       InsertKept, RereadKept
  <1>4. ASSUME NEW r \in Requests,
               FindAccount(r) \/ CreateAccount(r) \/ CreateSession(r) \/ SignOut(r)
        PROVE  IInv'
    BY <1>4, FindAccountKept, CreateAccountKept, CreateSessionKept, SignOutKept
  <1>5. ASSUME NEW r \in Requests,
               \/ CreateList(r) \/ CheckList(r) \/ DeleteList(r) \/ FindEntry(r)
               \/ AddTicker(r) \/ RemoveTicker(r)
        PROVE  IInv'
    BY <1>5, CreateListKept, CheckListKept, DeleteListKept, FindEntryKept, ChangeKept
  <1>6. ASSUME NEW r \in Requests,
               CreateInvestor(r) \/ UpdateInvestor(r) \/ DeleteInvestor(r)
        PROVE  IInv'
    BY <1>6, CreateInvestorKept, UpdateInvestorKept, DeleteInvestorKept
  <1>7. ASSUME NEW i \in Identities, ChangeEmail(i)
        PROVE  IInv'
    BY <1>7, ChangeEmailKept
  <1> QED
    BY <1>1, <1>2, <1>3, <1>4, <1>5, <1>6, <1>7 DEF Next

LEMMA InvariantHolds ==
  ASSUME Nobody \notin Identities
  PROVE  Spec => []IInv
  <1>1. Init => IInv
    BY InitIInv
  <1>2. IInv /\ [Next]_vars => IInv'
    <2>1. CASE Next
      BY <2>1, StepIInv
    <2>2. CASE UNCHANGED vars
      BY <2>2 DEF vars, IInv, DataTypes, Rows, Right, RequestTypes, RequestsOf,
                  Answers, Bootstraps, Changes, Relinked, AnsweredWith
    <2> QED
      BY <2>1, <2>2
  <1> QED
    BY <1>1, <1>2, PTL DEF Spec

-----------------------------------------------------------------------------
(* A bootstrap that answers with a profile (bootstrap_cognito_investor) answers   *)
(* with the caller's own, and nothing moves that profile to another identity,     *)
(* whichever emails identities change and administrators write, and whatever the  *)
(* order of the reads and commits - unless linking by email is on, and then only   *)
(* to an identity whose own bootstrap was answered with that profile: for every    *)
(* number of people, addresses, requests, profiles and sign-ins.                   *)
THEOREM ProfilesStay ==
  ASSUME Nobody \notin Identities
  PROVE  Spec => []ProfilesKept
  <1>1. ASSUME IInv
        PROVE  ProfilesKept
    <2> SUFFICES ASSUME NEW p \in DOMAIN investors, NEW r \in AnsweredWith(p)
                 PROVE  investors[p].sub = req[r].who \/ Relinked(p)
      BY DEF ProfilesKept
    <2>1. /\ r \in Requests /\ req[r].op = "bootstrap" /\ req[r].answer = "profile"
          /\ req[r].found = p
      BY DEF AnsweredWith
    <2> QED
      BY <1>1, <2>1 DEF IInv, Right, Bootstraps
  <1> QED
    BY <1>1, InvariantHolds, PTL

(* A change to a watchlist that was answered with success was made by its owner   *)
(* (routes/watchlists.py), though the list is checked and changed in different    *)
(* transactions and may be deleted between the two.                               *)
THEOREM OwnersOnly ==
  ASSUME Nobody \notin Identities
  PROVE  Spec => []OnlyOwners
  <1>1. IInv => OnlyOwners
    BY DEF IInv, Right, Changes, OnlyOwners
  <1> QED
    BY <1>1, InvariantHolds, PTL
=============================================================================
