------------------------------- MODULE Website -------------------------------
(* The website in one browser (frontend/src): requests to the API with the      *)
(* tokens of the signed-in user (lib/api.js, auth/cognito.js), and the pages     *)
(* that show their answers. Answers arrive in any order, long after the user    *)
(* has moved on. One page of it per behaviour.                                  *)
EXTENDS Naturals, Sequences, SequencesExt, FiniteSets

CONSTANTS
  MaxCalls,     \* requests of one behaviour
  Symbols,      \* companies
  Filters,      \* filters of the announcements
  PageSize,     \* announcements on one page of them
  FeedSize      \* announcements under each filter at first; one more is published later

VARIABLES
  page,         \* the page on screen
  auth,         \* how the site signs in, and the browser's tokens or session
  hint,         \* the stored hint that somebody is signed in
  calls,        \* the requests under way
  asked,        \* requests made so far
  cache,        \* requestCache: per company
  server        \* what the API has

vars == <<page, auth, hint, calls, asked, cache, server>>

NoCall == 0
Without(f, x) == [y \in DOMAIN f \ {x} |-> f[y]]
With(f, x, v) == [y \in DOMAIN f \cup {x} |-> IF y = x THEN v ELSE f[y]]

NoEntry == [call |-> NoCall, data |-> "none", fresh |-> FALSE]

CompanyPage(s) ==
  [name |-> "company", symbol |-> s, waits |-> NoCall, data |-> "none", failed |-> FALSE]
FeedPage(f) ==
  [name |-> "feed", filter |-> f, first |-> NoCall, mores |-> {}, busy |-> FALSE,
   shown |-> f, cards |-> <<>>, offset |-> 0, hasMore |-> FALSE, failed |-> FALSE,
   mixed |-> FALSE]
SettingsPage ==
  [name |-> "settings", saved |-> <<>>, draft |-> <<>>, saving |-> NoCall, loading |-> NoCall,
   resending |-> NoCall, failed |-> FALSE, mixed |-> FALSE]
SignInPage == [name |-> "sign_in", step |-> "form", mfa |-> FALSE, waits |-> NoCall]

Preferences == [enabled : BOOLEAN, rule : {1, 2}, status : {"unverified", "pending", "verified"}]
Draft(p) == [enabled |-> p.enabled, rule |-> p.rule]

\* Who is signed in makes no difference to these pages, nor the hint to the
\* settings.
Open == {"company", "feed"}

Init ==
  /\ page \in {CompanyPage(s) : s \in Symbols} \cup {FeedPage(CHOOSE f \in Filters : TRUE)}
              \cup {SettingsPage, SignInPage}
  /\ auth \in [provider : {"cognito", "legacy"}, tokens : {"fresh", "none"}]
  /\ calls = [c \in {} |-> 0]
  /\ asked = 0
  /\ cache = [s \in Symbols |-> NoEntry]
  /\ \E profile \in BOOLEAN, p \in Preferences :
       /\ page.name # "sign_in" => profile
       /\ p.rule = 1
       /\ page.name # "settings" => ~p.enabled /\ p.status = "unverified"
       /\ server = [profile |-> profile, preferences |-> p, changed |-> FALSE, left |-> FALSE,
                    feed |-> [f \in Filters |-> [k \in 1..FeedSize |-> <<f, k>>]]]
  /\ hint \in {FALSE, server.profile}
  /\ page.name \in Open => auth = [provider |-> "cognito", tokens |-> "fresh"]
  /\ page.name # "sign_in" => hint

-----------------------------------------------------------------------------
(* apiFetch: a request carries the access token of that moment; after a 401    *)
(* with one, the tokens are refreshed and the request is sent once more, or     *)
(* the user is signed out.                                                      *)
Cognito == auth.provider = "cognito"
Public == {"brief", "first", "more"}

Call(what, arg) ==
  [what |-> what, arg |-> arg, pc |-> "asked", token |-> "none", again |-> FALSE,
   answer |-> "none", data |-> <<>>]

\* Asks(what, arg, p): the page becomes p and makes a request, the next one.
Next1 == asked + 1
Asks(what, arg, p) ==
  /\ asked < MaxCalls
  /\ asked' = Next1
  /\ calls' = With(calls, Next1, Call(what, arg))
  /\ page' = p

Becomes(c, r) == calls' = [calls EXCEPT ![c] = r]
Ends(c, answer) == Becomes(c, [calls[c] EXCEPT !.pc = "returned", !.answer = answer])
Fails(c) ==
  IF calls[c].again THEN Becomes(c, [calls[c] EXCEPT !.pc = "refused"]) ELSE Ends(c, "error")
Apart == <<page, hint, asked, cache>>

\* getCognitoAccessToken: none when nobody is signed in; otherwise it may fail.
AddToken(c) ==
  /\ calls[c].pc = "asked"
  /\ \/ Becomes(c, [calls[c] EXCEPT !.pc = "sent", !.token = auth.tokens])
     \/ Cognito /\ Ends(c, "error")
  /\ UNCHANGED <<Apart, auth, server>>

PageOf(feed, offset) == SubSeq(feed, offset + 1, Min({offset + PageSize, Len(feed)}))

\* What the API answers, and what it changes.
Data(c) ==
  CASE calls[c].what = "brief" -> calls[c].arg
    [] calls[c].what \in {"first", "more"} ->
         PageOf(server.feed[calls[c].arg.filter], calls[c].arg.offset)
    [] OTHER -> <<>>

Stored(c) ==
  LET p == server.preferences
      what == calls[c].what
  IN CASE what = "bootstrap" -> [server EXCEPT !.profile = TRUE]
       [] what = "save" ->
            [server EXCEPT !.changed = FALSE, !.preferences =
              [enabled |-> calls[c].arg.enabled, rule |-> calls[c].arg.rule,
               status |-> IF calls[c].arg.enabled /\ p.status = "unverified" THEN "pending"
                          ELSE p.status]]
       [] what = "resend" ->
            [server EXCEPT !.changed = FALSE, !.preferences.status = "pending"]
       [] what = "load" -> [server EXCEPT !.changed = FALSE]
       [] OTHER -> server

Possible(c) ==
  /\ calls[c].what = "me" => server.profile
  /\ calls[c].what = "resend" =>
       server.preferences.enabled /\ server.preferences.status # "verified"

\* A token may expire on the way; a failure while the request is repeated
\* counts as the second refusal.
Serve(c) ==
  /\ calls[c].pc = "sent"
  /\ \/ /\ calls[c].what \notin Public \cup {"sign_in"}
        /\ Becomes(c, [calls[c] EXCEPT !.pc = "refused"])
        /\ UNCHANGED <<server, auth>>
     \/ Fails(c) /\ UNCHANGED <<server, auth>>
     \/ /\ calls[c].what \in Public \cup {"sign_in"} \/ calls[c].token = "fresh"
        /\ Possible(c)
        /\ server' = Stored(c)
        /\ auth' = CASE calls[c].what = "sign_in" -> [auth EXCEPT !.tokens = "fresh"]
                     [] calls[c].what = "sign_out" -> [auth EXCEPT !.tokens = "none"]
                     [] OTHER -> auth
        /\ \/ Fails(c)                             \* the answer is lost
           \/ Becomes(c, [calls[c] EXCEPT !.pc = "returned", !.answer = "ok",
                !.data = IF calls[c].what \in {"save", "resend", "load"}
                         THEN server'.preferences ELSE Data(c)])
  /\ UNCHANGED Apart

\* signOutFromCognito, whose failure is ignored.
SignedOut(a) == {a, [a EXCEPT !.tokens = "none"]}

Refused(c) ==
  /\ calls[c].pc = "refused"
  /\ IF calls[c].token # "none" /\ Cognito
     THEN \/ /\ ~calls[c].again /\ auth.tokens # "none"          \* refreshed
             /\ auth' = [auth EXCEPT !.tokens = "fresh"]
             /\ Becomes(c, [calls[c] EXCEPT !.pc = "sent", !.token = "fresh", !.again = TRUE])
          \/ /\ auth' \in SignedOut(auth)                         \* no token, or a second 401
             /\ Ends(c, "401")
     ELSE Ends(c, "401") /\ UNCHANGED auth
  /\ UNCHANGED <<Apart, server>>

Settled(c) == c \in DOMAIN calls /\ calls[c].pc = "returned"
Ok(c) == calls[c].answer = "ok"
Taken(c) == calls' = Without(calls, c) /\ UNCHANGED <<asked, server>>

-----------------------------------------------------------------------------
(* A company's page: fetchJsonCoalesced shares a request under way and keeps    *)
(* its answer for a while; useCompanyResource drops the answer of a company     *)
(* that has been left.                                                          *)
Visit(s) ==
  /\ page.name = "company"
  /\ LET entry == cache[s] IN
     IF entry.call # NoCall \/ entry.fresh
     THEN /\ page' = [CompanyPage(s) EXCEPT !.waits = entry.call, !.data = entry.data]
          /\ UNCHANGED <<calls, asked, cache>>
     ELSE /\ Asks("brief", s, [CompanyPage(s) EXCEPT !.waits = Next1])
          /\ cache' = [cache EXCEPT ![s] = [NoEntry EXCEPT !.call = Next1]]
  /\ UNCHANGED <<auth, hint, server>>

Age(s) ==
  /\ cache[s].fresh
  /\ cache' = [cache EXCEPT ![s].fresh = FALSE]
  /\ UNCHANGED <<page, auth, hint, calls, asked, server>>

BriefSettled(c) ==
  /\ Settled(c) /\ calls[c].what = "brief"
  /\ cache' = [cache EXCEPT ![calls[c].arg] =
       IF Ok(c) THEN [call |-> NoCall, data |-> calls[c].data, fresh |-> TRUE] ELSE NoEntry]
  /\ page' = IF page.waits # c THEN page
             ELSE [page EXCEPT !.waits = NoCall, !.failed = ~Ok(c),
                               !.data = IF Ok(c) THEN calls[c].data ELSE "none"]
  /\ Taken(c)
  /\ UNCHANGED <<auth, hint>>

(* The announcements: a first page per choice of filters, which replaces an     *)
(* unfinished one, and further pages by offset. appendAnnouncementPage leaves   *)
(* out what is already shown and counts it.                                     *)
Load(f) ==
  /\ page.name = "feed"
  /\ f # page.filter \/ page.failed \/ asked = 0
  /\ Asks("first", [filter |-> f, offset |-> 0],
          [page EXCEPT !.filter = f, !.first = Next1, !.failed = FALSE])
  /\ UNCHANGED <<auth, hint, cache, server>>

\* The n-th of a set of positions.
Nth(positions, n) ==
  CHOOSE k \in positions : Cardinality({j \in positions : j <= k}) = n

AppendAnnouncementPage(cards, incoming) ==
  LET new == {k \in DOMAIN incoming : ~Contains(cards, incoming[k])}
  IN cards \o [n \in 1..Cardinality(new) |-> incoming[Nth(new, n)]]

\* Mutant: the answer of an earlier choice of filters is shown.
FirstShownAnyway(c) ==
  [page EXCEPT !.first = NoCall, !.busy = FALSE, !.failed = ~Ok(c), !.mixed = FALSE,
     !.shown = page.filter,
     !.cards = IF Ok(c) THEN calls[c].data ELSE <<>>,
     !.offset = Len(calls[c].data),
     !.hasMore = Ok(c) /\ Len(calls[c].data) = PageSize]

\* FirstShown(c): what the arriving first page makes of the page.
FirstShown(c) ==
  IF page.first # c THEN page
  ELSE [page EXCEPT !.first = NoCall, !.busy = FALSE, !.failed = ~Ok(c),
          !.shown = calls[c].arg.filter, !.mixed = page.mores # {},
          !.cards = IF Ok(c) THEN calls[c].data ELSE <<>>,
          !.offset = IF Ok(c) THEN Len(calls[c].data) ELSE 0,
          !.hasMore = Ok(c) /\ Len(calls[c].data) = PageSize]

FirstSettled(c) ==
  /\ Settled(c) /\ calls[c].what = "first"
  /\ page' = FirstShown(c)
  /\ Taken(c)
  /\ UNCHANGED <<auth, hint, cache>>

LoadMore ==
  /\ page.name = "feed" /\ page.hasMore /\ ~page.busy
  /\ Asks("more", [filter |-> page.filter, offset |-> page.offset],
          [page EXCEPT !.mores = @ \cup {Next1}, !.busy = TRUE,
                       !.mixed = @ \/ page.first # NoCall])
  /\ UNCHANGED <<auth, hint, cache, server>>

MoreSettled(c) ==
  /\ Settled(c) /\ calls[c].what = "more"
  /\ page' = [page EXCEPT !.mores = @ \ {c}, !.busy = FALSE,
       !.cards = IF Ok(c) THEN AppendAnnouncementPage(@, calls[c].data) ELSE @,
       !.offset = IF Ok(c) THEN @ + Len(calls[c].data) ELSE @,
       !.hasMore = IF Ok(c) THEN Len(calls[c].data) = PageSize ELSE @]
  /\ Taken(c)
  /\ UNCHANGED <<auth, hint, cache>>

(* The alert settings: the saved preferences and a draft of them. Every answer  *)
(* holds all preferences and replaces both.                                     *)
Busy(p) == {p.loading, p.saving, p.resending} # {NoCall}

LoadPreferences ==
  /\ page.name = "settings" /\ page.saved = <<>> /\ ~Busy(page)
  /\ Asks("load", <<>>, [page EXCEPT !.loading = Next1, !.failed = FALSE])
  /\ UNCHANGED <<auth, hint, cache, server>>

Edit ==
  /\ page.name = "settings" /\ page.saved # <<>>
  /\ \/ page' = [page EXCEPT !.draft.enabled = ~@]
     \/ /\ page.draft.enabled /\ page.saving = NoCall
        /\ \E r \in {1, 2} : page' = [page EXCEPT !.draft.rule = r]
  /\ UNCHANGED <<auth, hint, calls, asked, cache, server>>

SavePreferences ==
  /\ page.name = "settings" /\ page.saved # <<>> /\ page.saving = NoCall
  /\ page.draft # Draft(page.saved)
  /\ Asks("save", page.draft,
          [page EXCEPT !.saving = Next1, !.failed = FALSE, !.mixed = page.resending # NoCall])
  /\ UNCHANGED <<auth, hint, cache, server>>

ResendVerification ==
  /\ page.name = "settings" /\ page.saved # <<>> /\ page.resending = NoCall
  /\ page.saved.enabled /\ page.saved.status # "verified"
  /\ Asks("resend", <<>>,
          [page EXCEPT !.resending = Next1, !.failed = FALSE, !.mixed = page.saving # NoCall])
  /\ UNCHANGED <<auth, hint, cache, server>>

PreferencesSettled(c) ==
  /\ Settled(c) /\ calls[c].what \in {"load", "save", "resend"}
  /\ LET over(n) == IF n = c THEN NoCall ELSE n
         done == [page EXCEPT !.loading = over(@), !.saving = over(@), !.resending = over(@)]
     IN page' = IF Ok(c) THEN [done EXCEPT !.saved = calls[c].data, !.draft = Draft(calls[c].data)]
                ELSE [done EXCEPT !.failed = TRUE]
  /\ Taken(c)
  /\ UNCHANGED <<auth, hint, cache>>

-----------------------------------------------------------------------------
(* Signing in: Cognito first and then the profile, which signs out again when   *)
(* it fails; meanwhile the frame around every page asks who is signed in.       *)
LoadSession ==
  /\ page.name = "sign_in" /\ asked = 0
  /\ Asks("me", <<>>, page)
  /\ UNCHANGED <<auth, hint, cache, server>>

SessionLoaded(c) ==
  /\ Settled(c) /\ calls[c].what = "me"
  /\ hint' = Ok(c)
  /\ Taken(c)
  /\ UNCHANGED <<page, auth, cache>>

AtStep(step) == page.name = "sign_in" /\ page.step = step

HandleSubmit ==
  /\ AtStep("form")
  /\ IF Cognito
     THEN \/ /\ auth' = [auth EXCEPT !.tokens = "fresh"]
             /\ Asks("bootstrap", <<>>, [page EXCEPT !.step = "profile", !.waits = Next1])
          \/ /\ page' = [page EXCEPT !.mfa = TRUE]                \* a code is asked for
             /\ UNCHANGED <<auth, calls, asked>>
          \/ /\ ~page.mfa
             /\ page' = [page EXCEPT !.step = "elsewhere"]        \* confirm, reset
             /\ UNCHANGED <<auth, calls, asked>>
     ELSE /\ Asks("sign_in", <<>>, [page EXCEPT !.step = "profile", !.waits = Next1])
          /\ UNCHANGED auth
  /\ UNCHANGED <<hint, cache, server>>

\* An answer other than success signs out again; a request that fails does not.
ProfileSettled(c) ==
  /\ Settled(c) /\ calls[c].what \in {"bootstrap", "sign_in"}
  /\ page' = [page EXCEPT !.waits = NoCall, !.step = IF Ok(c) THEN "in" ELSE "form"]
  /\ hint' = (hint \/ Ok(c))
  /\ IF Ok(c) \/ ~Cognito THEN UNCHANGED auth ELSE auth' \in SignedOut(auth)
  /\ Taken(c)
  /\ UNCHANGED cache

\* Whatever becomes of the sign-out, the hint is removed.
SignOut ==
  /\ AtStep("in")
  /\ IF Cognito
     THEN /\ auth' \in SignedOut(auth)
          /\ hint' = FALSE
          /\ page' = [page EXCEPT !.step = "form", !.mfa = FALSE]
          /\ UNCHANGED <<calls, asked>>
     ELSE /\ Asks("sign_out", <<>>, [page EXCEPT !.step = "profile", !.waits = Next1])
          /\ UNCHANGED <<auth, hint>>
  /\ UNCHANGED <<cache, server>>

SignOutSettled(c) ==
  /\ Settled(c) /\ calls[c].what = "sign_out"
  /\ page' = [page EXCEPT !.waits = NoCall, !.step = "form", !.mfa = FALSE]
  /\ hint' = FALSE
  /\ Taken(c)
  /\ UNCHANGED <<auth, cache>>

-----------------------------------------------------------------------------
(* Meanwhile: tokens expire, announcements come and go, preferences change by   *)
(* a link in an email.                                                          *)
Expire ==
  /\ page.name \notin Open /\ auth.tokens = "fresh"
  /\ auth' = [auth EXCEPT !.tokens = "stale"]
  /\ UNCHANGED server

Publish(f) ==
  /\ page.name = "feed" /\ \A g \in Filters : ~Contains(server.feed[g], <<g, FeedSize + 1>>)
  /\ \E i \in 1..Len(server.feed[f]) + 1 :
       server' = [server EXCEPT !.feed[f] = InsertAt(@, i, <<f, FeedSize + 1>>)]
  /\ UNCHANGED auth

Withdraw(f) ==
  /\ page.name = "feed" /\ ~server.left
  /\ \E i \in 1..Len(server.feed[f]) :
       server' = [server EXCEPT !.feed[f] = RemoveAt(@, i), !.left = TRUE]
  /\ UNCHANGED auth

FollowLink ==
  /\ page.name = "settings"
  /\ \/ /\ server.preferences.status = "pending"
        /\ server' = [server EXCEPT !.preferences.status = "verified", !.changed = TRUE]
     \/ /\ server.preferences.enabled
        /\ server' = [server EXCEPT !.preferences.enabled = FALSE, !.changed = TRUE]
  /\ UNCHANGED auth

Next ==
  \/ \E c \in DOMAIN calls :
       \/ AddToken(c) \/ Serve(c) \/ Refused(c)
       \/ BriefSettled(c) \/ FirstSettled(c) \/ MoreSettled(c) \/ PreferencesSettled(c)
       \/ SessionLoaded(c) \/ ProfileSettled(c) \/ SignOutSettled(c)
  \/ \E s \in Symbols : Visit(s) \/ Age(s)
  \/ \E f \in Filters : Load(f)
  \/ LoadMore \/ LoadPreferences \/ Edit \/ SavePreferences \/ ResendVerification
  \/ LoadSession \/ HandleSubmit \/ SignOut
  \/ /\ \/ Expire \/ FollowLink
        \/ \E f \in Filters : Publish(f) \/ Withdraw(f)
     /\ UNCHANGED <<page, hint, calls, asked, cache>>

-----------------------------------------------------------------------------
(* Wherever the user went while requests were under way, a company's page shows *)
(* its own company, never waits for a request that is over, and no two requests *)
(* for one company run at once.                                                 *)
CompanyShown ==
  page.name = "company" =>
    /\ page.data \in {"none", page.symbol}
    /\ page.waits # NoCall =>
         page.waits \in DOMAIN calls /\ calls[page.waits].arg = page.symbol
    /\ \A c, d \in DOMAIN calls : calls[c].arg = calls[d].arg => c = d

(* The announcements shown are of one choice of filters, without repetition,    *)
(* and paging by offset skips none that was listed when they were loaded,       *)
(* although more are published meanwhile. Asking for more while another choice  *)
(* is loading, or an announcement leaving the feed, is outside the promise.     *)
FeedWhole ==
  page.name = "feed" /\ ~page.mixed =>
    /\ \A i, j \in DOMAIN page.cards :
         page.cards[i][1] = page.shown /\ (page.cards[i] = page.cards[j] => i = j)
    /\ ~server.left /\ ~page.hasMore /\ ~page.failed /\ page.cards # <<>> =>
         \A i \in 1..FeedSize : Contains(page.cards, <<page.shown, i>>)

(* With nothing under way, the settings show what the API has, unless a link    *)
(* changed it since, an answer failed or two requests overlapped.               *)
SettingsShown ==
  /\ page.name = "settings" /\ page.saved # <<>> /\ ~Busy(page)
  /\ ~page.failed /\ ~page.mixed /\ ~server.changed
  => page.saved = server.preferences

(* The hint that somebody is signed in is only stored for a user whose profile  *)
(* exists, whatever the order in which the sign-in's and the frame's requests   *)
(* are answered.                                                                *)
HintEarned == page.name = "sign_in" /\ Cognito /\ hint => server.profile
=============================================================================
