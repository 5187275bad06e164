------------------------------- MODULE Accounts -------------------------------
(* Who a request comes from and what it may change: the profiles of investors  *)
(* (crud/investor.py), the two sign-ins (api/deps.py, routes/auth.py), the      *)
(* policy of the routers (main.py) and the watchlists. Requests run in          *)
(* parallel; each read and each commit is a step of its own (READ COMMITTED).   *)
EXTENDS Naturals, FiniteSets

CONSTANTS
  Identities,   \* the users of the Cognito pool, by subject
  Emails,       \* addresses; none of them belongs to one person for good
  MaxProfiles,  \* profiles made in one behaviour
  Lists,        \* ids of watchlists, each used once
  Tickers,
  Requests      \* the requests of one behaviour, 1..n; a sign-in's token is its number

VARIABLES
  auth,         \* AUTH_PROVIDER and COGNITO_LINK_EXISTING_BY_EMAIL
  emails,       \* the verified email of each identity
  investors,    \* the profiles
  sessions,     \* the legacy sessions: the profile of a token
  watchlists,   \* the owner of each watchlist
  entries,      \* the tickers on each
  profiles,     \* profiles made so far; the next one's id
  made,         \* watchlists made so far
  req

vars == <<auth, emails, investors, sessions, watchlists, entries, profiles, made, req>>
data == <<investors, sessions, watchlists, entries, profiles, made>>

Nobody == "nobody"
None == 0

Signed == {"me", "create_list", "delete_list", "add", "remove"}
Managing == {"create_investor", "update_investor", "delete_investor"}
Ops == {"bootstrap", "sign_up", "sign_in", "sign_out"} \cup Signed \cup Managing

\* Two profiles never share an email or a subject, whatever a commit tries.
Unique(rows) ==
  \A p, q \in DOMAIN rows : p # q =>
    /\ rows[p].email # rows[q].email
    /\ rows[p].sub = Nobody \/ rows[p].sub # rows[q].sub

BySubject(i) == {p \in DOMAIN investors : investors[p].sub = i}
ByEmail(e) == {p \in DOMAIN investors : investors[p].email = e}
Without(f, xs) == [x \in DOMAIN f \ xs |-> f[x]]
Extended(f, x, v) == [y \in DOMAIN f \cup {x} |-> IF y = x THEN v ELSE f[y]]

Row(email, sub, password, admin) ==
  [email |-> email, sub |-> sub, password |-> password, admin |-> admin]

NoRequest == [op |-> "none", pc |-> "idle", who |-> Nobody, email |-> <<>>, found |-> None,
              row |-> <<>>, actor |-> None, answer |-> "none", list |-> "none",
              ticker |-> "none"]

\* The pool's user name is the email (UsernameAttributes), so that no two identities have
\* one verified at a time. An administrator with a legacy login has a watchlist, or there
\* is another person's profile from before Cognito.
Init ==
  /\ auth \in [provider : {"legacy", "dual", "cognito"}, link : BOOLEAN]
  /\ emails \in [Identities -> Emails]
  /\ \A i, j \in Identities : i # j => emails[i] # emails[j]
  /\ \E i, j \in Identities :
       /\ i # j
       /\ investors \in {[p \in {1} |-> Row(emails[i], i, TRUE, TRUE)],
                         [p \in {1, 2} |-> IF p = 1 THEN Row(emails[i], i, TRUE, TRUE)
                                          ELSE Row(emails[j], Nobody, TRUE, FALSE)]}
  /\ sessions = [t \in {0} |-> 1]
  /\ profiles = Cardinality(DOMAIN investors)
  /\ \E w \in Lists, t \in Tickers :
       /\ made = IF profiles = 1 THEN {w} ELSE {}
       /\ watchlists = [l \in made |-> 1]
       /\ entries = {<<l, t>> : l \in made}
  /\ req = [r \in Requests |-> NoRequest]

Step(r, changes) == req' = [req EXCEPT ![r] = changes]

\* How a request ends: refused or failed, with a profile, or with its change made.
Refuse(r) == Step(r, [NoRequest EXCEPT !.pc = "done", !.answer = "refused"])
Answered(r, p) ==
  Step(r, [NoRequest EXCEPT !.pc = "done", !.op = req[r].op, !.who = req[r].who,
                            !.answer = "profile", !.found = p])
Done(r) ==
  Step(r, [NoRequest EXCEPT !.pc = "done", !.op = req[r].op, !.answer = "ok",
                            !.list = req[r].list, !.actor = req[r].actor])
Reads(r) == UNCHANGED <<auth, emails, data>>
AtStep(r, op, pc) == req[r].op = op /\ req[r].pc = pc

(* A request names an identity (its access token), the token of a session or,  *)
(* signing up or in, an email. Requests are asked in order.                    *)
Who(op) ==
  CASE op = "bootstrap" -> Identities
    [] op \in {"sign_up", "sign_in"} -> {Nobody}
    [] op = "sign_out" -> DOMAIN sessions
    [] OTHER -> Identities \cup DOMAIN sessions

Ask(r, op) ==
  /\ req[r].pc = "idle"
  /\ \A q \in Requests : q < r => req[q].pc # "idle"
  /\ \E who \in Who(op),
        e \in IF op \in {"sign_up", "sign_in", "create_investor", "update_investor"}
             THEN Emails ELSE {<<>>},
        w \in IF op \in Signed \ {"me"} THEN Lists ELSE {"none"},
        t \in IF op \in {"add", "remove"} THEN Tickers ELSE {"none"} :
       Step(r, [NoRequest EXCEPT !.op = op, !.pc = "asked", !.who = who, !.email = e,
                                 !.list = w, !.ticker = t])
  /\ Reads(r)

-----------------------------------------------------------------------------
(* Credentials. get_verified_cognito_user refuses a token, cannot tell, or     *)
(* returns the identity's verified email of that moment.                       *)
UseCognito(who) == auth.provider = "cognito" \/ (auth.provider = "dual" /\ who \in Identities)

GetUser(r) ==
  /\ AtStep(r, "bootstrap", "asked")
  /\ \/ Refuse(r)
     \/ /\ auth.provider # "legacy" /\ req[r].who \in Identities
        /\ Step(r, [req[r] EXCEPT !.pc = "user", !.email = emails[req[r].who]])
  /\ Reads(r)

(* get_current_investor: a Cognito subject without a profile is told to make   *)
(* one; a session that has expired or lost its investor is deleted.            *)
CognitoInvestor(r) ==
  /\ req[r].op \in Signed \cup Managing /\ req[r].pc = "asked" /\ UseCognito(req[r].who)
  /\ \/ Refuse(r)
     \/ /\ req[r].who \in Identities
        /\ IF BySubject(req[r].who) = {} THEN Refuse(r)
           ELSE \E p \in BySubject(req[r].who), mfa \in BOOLEAN :
                  Step(r, [req[r] EXCEPT !.pc = "known", !.actor = p,
                             !.row = [investors[p] EXCEPT !.admin = @ /\ mfa]])
  /\ Reads(r)

SessionInvestor(r) ==
  /\ req[r].op \in Signed \cup Managing /\ req[r].pc = "asked" /\ ~UseCognito(req[r].who)
  /\ IF req[r].who \notin DOMAIN sessions
     THEN Refuse(r) /\ UNCHANGED sessions
     ELSE \/ /\ Refuse(r)                             \* expired
             /\ sessions' = Without(sessions, {req[r].who})
          \/ LET p == sessions[req[r].who] IN
             /\ Step(r, [req[r] EXCEPT !.pc = "known", !.actor = p, !.row = investors[p]])
             /\ UNCHANGED sessions
  /\ UNCHANGED <<auth, emails, investors, watchlists, entries, profiles, made>>

\* The routers' policy: accounts are for administrators, lists for their owner.
Permit(r) ==
  /\ req[r].pc = "known"
  /\ IF req[r].op \in Managing /\ ~req[r].row.admin THEN Refuse(r)
     ELSE IF req[r].op = "me" THEN Answered(r, req[r].actor)
     ELSE Step(r, [req[r] EXCEPT !.pc = "permitted"])
  /\ Reads(r)

-----------------------------------------------------------------------------
(* bootstrap_cognito_investor: the profile of a subject, else the profile with *)
(* its email where linking is allowed, else a new one.                         *)
FindSubject(r) ==
  /\ AtStep(r, "bootstrap", "user")
  /\ IF BySubject(req[r].who) = {} THEN Step(r, [req[r] EXCEPT !.pc = "no_subject"])
     ELSE \E p \in BySubject(req[r].who) :
            Step(r, [req[r] EXCEPT !.pc = "subject", !.found = p, !.row = investors[p]])
  /\ Reads(r)

CheckOwner(r) ==
  /\ AtStep(r, "bootstrap", "subject")
  /\ IF ByEmail(req[r].email) \ {req[r].found} # {} THEN Refuse(r)
     ELSE IF req[r].row.email = req[r].email THEN Answered(r, req[r].found)
     ELSE Step(r, [req[r] EXCEPT !.pc = "rename"])
  /\ Reads(r)

\* What a commit makes of the profiles, unless a row is gone or two would clash.
Committed(r, rows, onClash) ==
  IF req[r].found \in DOMAIN rows /\ Unique(rows)
  THEN /\ investors' = rows
       /\ Answered(r, req[r].found)
  ELSE onClash /\ UNCHANGED investors

Rename(r) ==
  /\ AtStep(r, "bootstrap", "rename")
  /\ LET rows == IF req[r].found \in DOMAIN investors
                 THEN [investors EXCEPT ![req[r].found].email = req[r].email] ELSE investors
     IN Committed(r, rows, Refuse(r))
  /\ UNCHANGED <<auth, emails, sessions, watchlists, entries, profiles, made>>

FindEmail(r) ==
  /\ AtStep(r, "bootstrap", "no_subject")
  /\ IF ByEmail(req[r].email) = {} THEN Step(r, [req[r] EXCEPT !.pc = "insert"])
     ELSE \E p \in ByEmail(req[r].email) :
            IF investors[p].sub \notin {Nobody, req[r].who} \/ ~auth.link
            THEN Refuse(r)
            ELSE Step(r, [req[r] EXCEPT !.pc = "link", !.found = p])
  /\ Reads(r)

Link(r) ==
  /\ AtStep(r, "bootstrap", "link")
  /\ LET rows == IF req[r].found \in DOMAIN investors
                 THEN [investors EXCEPT ![req[r].found].sub = req[r].who] ELSE investors
     IN Committed(r, rows,
          IF req[r].found \in DOMAIN investors THEN Step(r, [req[r] EXCEPT !.pc = "reread"])
          ELSE Refuse(r))
  /\ UNCHANGED <<auth, emails, sessions, watchlists, entries, profiles, made>>

\* Inserted(row, then, clash): a new row, unless its email or subject is taken.
Inserted(row, then(_), clash) ==
  /\ profiles < MaxProfiles
  /\ IF Unique(Extended(investors, profiles + 1, row))
     THEN /\ investors' = Extended(investors, profiles + 1, row)
          /\ profiles' = profiles + 1
          /\ then(profiles + 1)
     ELSE clash /\ UNCHANGED <<investors, profiles>>

Insert(r) ==
  /\ AtStep(r, "bootstrap", "insert")
  /\ Inserted(Row(req[r].email, req[r].who, FALSE, FALSE), LAMBDA p : Answered(r, p),
              Step(r, [req[r] EXCEPT !.pc = "reread"]))
  /\ UNCHANGED <<auth, emails, sessions, watchlists, entries, made>>

\* Mutant: whoever has the email is taken for the caller.
ConcurrentByEmail(r) == ByEmail(req[r].email)

\* The loser of a race returns the winner's profile of the same subject.
Concurrent(r) == BySubject(req[r].who)

Reread(r) ==
  /\ AtStep(r, "bootstrap", "reread")
  /\ IF Concurrent(r) = {} THEN Refuse(r)
     ELSE \E p \in Concurrent(r) : Answered(r, p)
  /\ Reads(r)

-----------------------------------------------------------------------------
(* The legacy sign-in: an account and then its session, two commits.           *)
FindAccount(r) ==
  /\ req[r].op \in {"sign_up", "sign_in"} /\ req[r].pc = "asked"
  /\ IF auth.provider = "cognito" \/ (auth.provider = "dual" /\ req[r].op = "sign_up")
     THEN Refuse(r)
     ELSE IF req[r].op = "sign_up"
     THEN IF ByEmail(req[r].email) # {} THEN Refuse(r)
          ELSE Step(r, [req[r] EXCEPT !.pc = "create"])
     ELSE \/ Refuse(r)
          \/ \E p \in {q \in ByEmail(req[r].email) : investors[q].password} :
               Step(r, [req[r] EXCEPT !.pc = "session", !.found = p])
  /\ Reads(r)

CreateAccount(r) ==
  /\ AtStep(r, "sign_up", "create")
  /\ Inserted(Row(req[r].email, Nobody, TRUE, FALSE),
              LAMBDA p : Step(r, [req[r] EXCEPT !.pc = "session", !.found = p]), Refuse(r))
  /\ UNCHANGED <<auth, emails, sessions, watchlists, entries, made>>

CreateSession(r) ==
  /\ req[r].pc = "session"
  /\ IF req[r].found \in DOMAIN investors
     THEN sessions' = Extended(sessions, r, req[r].found) /\ Answered(r, req[r].found)
     ELSE Refuse(r) /\ UNCHANGED sessions
  /\ UNCHANGED <<auth, emails, investors, watchlists, entries, profiles, made>>

SignOut(r) ==
  /\ AtStep(r, "sign_out", "asked")
  /\ IF auth.provider = "cognito" THEN Refuse(r) /\ UNCHANGED sessions
     ELSE Done(r) /\ sessions' = Without(sessions, {req[r].who})
  /\ UNCHANGED <<auth, emails, investors, watchlists, entries, profiles, made>>

-----------------------------------------------------------------------------
(* Watchlists: the owner is checked in one read and the row changed in another *)
(* transaction. A list with tickers cannot be deleted (its foreign key).       *)
CreateList(r) ==
  /\ AtStep(r, "create_list", "permitted")
  /\ req[r].list \notin made
  /\ IF req[r].actor \in DOMAIN investors
     THEN /\ watchlists' = Extended(watchlists, req[r].list, req[r].actor)
          /\ made' = made \cup {req[r].list}
          /\ Done(r)
     ELSE Refuse(r) /\ UNCHANGED <<watchlists, made>>
  /\ UNCHANGED <<auth, emails, investors, sessions, entries, profiles>>

Owned(r) == req[r].list \in DOMAIN watchlists /\ watchlists[req[r].list] = req[r].actor

CheckList(r) ==
  /\ req[r].op \in {"delete_list", "add", "remove"} /\ req[r].pc = "permitted"
  /\ IF Owned(r) THEN Step(r, [req[r] EXCEPT !.pc = "owned"]) ELSE Refuse(r)
  /\ Reads(r)

DeleteList(r) ==
  /\ AtStep(r, "delete_list", "owned")
  /\ IF req[r].list \in DOMAIN watchlists /\ \A x \in entries : x[1] # req[r].list
     THEN watchlists' = Without(watchlists, {req[r].list}) /\ Done(r)
     ELSE Refuse(r) /\ UNCHANGED watchlists
  /\ UNCHANGED <<auth, emails, investors, sessions, entries, profiles, made>>

\* add_ticker_to_watchlist looks for the row and then inserts it.
FindEntry(r) ==
  /\ req[r].op \in {"add", "remove"} /\ req[r].pc = "owned"
  /\ IF (<<req[r].list, req[r].ticker>> \in entries) = (req[r].op = "add") THEN Done(r)
     ELSE Step(r, [req[r] EXCEPT !.pc = "change"])
  /\ Reads(r)

AddTicker(r) ==
  /\ AtStep(r, "add", "change")
  /\ IF req[r].list \in DOMAIN watchlists /\ <<req[r].list, req[r].ticker>> \notin entries
     THEN entries' = entries \cup {<<req[r].list, req[r].ticker>>} /\ Done(r)
     ELSE Refuse(r) /\ UNCHANGED entries
  /\ UNCHANGED <<auth, emails, investors, sessions, watchlists, profiles, made>>

RemoveTicker(r) ==
  /\ AtStep(r, "remove", "change")
  /\ IF <<req[r].list, req[r].ticker>> \in entries
     THEN entries' = entries \ {<<req[r].list, req[r].ticker>>} /\ Done(r)
     ELSE Refuse(r) /\ UNCHANGED entries
  /\ UNCHANGED <<auth, emails, investors, sessions, watchlists, profiles, made>>

(* Accounts. An administrator gives any profile any email and any role, or     *)
(* leaves either as it is.                                                     *)
CreateInvestor(r) ==
  /\ AtStep(r, "create_investor", "permitted")
  /\ Inserted(Row(req[r].email, Nobody, TRUE, FALSE), LAMBDA p : Done(r), Refuse(r))
  /\ UNCHANGED <<auth, emails, sessions, watchlists, entries, made>>

UpdateInvestor(r) ==
  /\ AtStep(r, "update_investor", "permitted")
  /\ \E p \in DOMAIN investors, admin \in BOOLEAN :
       \E email \in {investors[p].email, req[r].email} :
         LET rows == [investors EXCEPT ![p].email = email, ![p].admin = admin] IN
         IF Unique(rows) THEN investors' = rows /\ Done(r)
         ELSE Refuse(r) /\ UNCHANGED investors
  /\ UNCHANGED <<auth, emails, sessions, watchlists, entries, profiles, made>>

DeleteInvestor(r) ==
  /\ AtStep(r, "delete_investor", "permitted")
  /\ \E p \in DOMAIN investors :
       IF \A w \in DOMAIN watchlists : watchlists[w] # p
       THEN /\ investors' = Without(investors, {p})
            /\ sessions' = Without(sessions, {t \in DOMAIN sessions : sessions[t] = p})
            /\ Done(r)
       ELSE Refuse(r) /\ UNCHANGED <<investors, sessions>>
  /\ UNCHANGED <<auth, emails, watchlists, entries, profiles, made>>

\* An identity verifies another address with Cognito, one that nobody has or has left.
ChangeEmail(i) ==
  /\ \E e \in Emails :
       /\ \A j \in Identities : emails[j] # e
       /\ emails' = [emails EXCEPT ![i] = e]
  /\ UNCHANGED <<auth, data, req>>

Next ==
  \/ \E r \in Requests :
       \/ \E op \in Ops : Ask(r, op)
       \/ GetUser(r) \/ CognitoInvestor(r) \/ SessionInvestor(r) \/ Permit(r)
       \/ FindSubject(r) \/ CheckOwner(r) \/ Rename(r) \/ FindEmail(r) \/ Link(r)
       \/ Insert(r) \/ Reread(r)
       \/ FindAccount(r) \/ CreateAccount(r) \/ CreateSession(r) \/ SignOut(r)
       \/ CreateList(r) \/ CheckList(r) \/ DeleteList(r) \/ FindEntry(r)
       \/ AddTicker(r) \/ RemoveTicker(r)
       \/ CreateInvestor(r) \/ UpdateInvestor(r) \/ DeleteInvestor(r)
  \/ \E i \in Identities : ChangeEmail(i)

Spec == Init /\ [][Next]_vars

-----------------------------------------------------------------------------
\* The bootstraps that were answered with profile p.
AnsweredWith(p) ==
  {r \in Requests : req[r].op = "bootstrap" /\ req[r].answer = "profile" /\ req[r].found = p}

\* Linking is on, and the profile is an identity's whose own bootstrap was answered with it.
Relinked(p) == auth.link /\ \E q \in AnsweredWith(p) : investors[p].sub = req[q].who

(* A bootstrap that answers with a profile answers with the caller's own, and   *)
(* nothing moves that profile to another identity, whatever email anyone gives  *)
(* it - while linking by email is off, as deployed. Where it is on, another     *)
(* bootstrap that found the profile while it was nobody's can still take it     *)
(* over: its commit overwrites what was linked since. Nobody else ever does.    *)
ProfilesKept ==
  \A p \in DOMAIN investors : \A r \in AnsweredWith(p) :
    investors[p].sub = req[r].who \/ Relinked(p)

(* A change to a watchlist that was answered with success was made by its      *)
(* owner, though the list was checked and changed in different transactions.   *)
OnlyOwners ==
  \A r \in Requests :
    req[r].op \in {"create_list", "add", "remove"} /\ req[r].answer = "ok" =>
      (req[r].list \in DOMAIN watchlists => watchlists[req[r].list] = req[r].actor)
=============================================================================
