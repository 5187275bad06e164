-------------------------------- MODULE Sites --------------------------------
(* One source adapter listing a company's documents or fetching one of them    *)
(* (scrapers/adapter.py, article_listings.py, companies/), the web session it   *)
(* does it through (scrapers/fetching.py) and the checks a downloaded document  *)
(* has to pass (lambdas/download_validation.py). The sites answer as they like. *)
EXTENDS Naturals, FiniteSets

CONSTANTS
  MaxBytes,     \* the size limit of a document
  MaxLinks,     \* links a listing page adds
  MaxHops       \* requests one plain download makes (6 in the code)

VARIABLES
  task,         \* what the adapter is doing
  call,         \* the session call it awaits
  session       \* what the session has started

vars == <<task, call, session>>

(* How adapters list: a JSON feed, one rendered page, a page with a plain      *)
(* fallback, one page per year, one page or several of article links, a widget *)
(* whose wrapper page may fail. And how they fetch a document.                 *)
ListStyles == {"feed", "page", "fallback", "years", "single", "walk", "widget"}
FetchStyles == {"download", "resource", "seeded", "article", "click"}

Formats == {"pdf", "docx", "html", "txt"}
ContentTypes == {"pdf", "docx", "zip", "octet", "html", "plain", "image"}
FormatTypes == [pdf |-> {"pdf", "octet"}, txt |-> {"plain"}, html |-> {"html", "octet"},
                docx |-> {"docx", "zip", "octet"}]
Supported == UNION {FormatTypes[f] : f \in Formats}

\* What bytes can turn out to be: a format, a broken archive, or neither.
Contents == Formats \cup {"broken", "binary"}

\* Text counts as text only when it is declared so.
Detected(bytes, type) ==
  IF bytes \in {"pdf", "docx", "html"} THEN bytes
  ELSE IF bytes = "txt" /\ type = "plain" THEN "txt" ELSE "none"

(* validated_document: the one way a download becomes a document.              *)
Validated(size, bytes, type) ==
  /\ size > 0 /\ size <= MaxBytes
  /\ type \in Supported
  /\ Detected(bytes, type) # "none"
  /\ type \in FormatTypes[Detected(bytes, type)]

\* A missing document, one a retry cannot fix, a failure to retry, an answer.
StatusClasses == {"ok", "not_found", "rejected", "retry"}

NoCall == [op |-> "none", step |-> "none", hops |-> 0, result |-> "none"]
NoSession == [driver |-> FALSE, browser |-> FALSE, context |-> FALSE, page |-> FALSE]
NoDocument == [size |-> 0, bytes |-> "binary", type |-> "image"]
NoTask == [style |-> "none", pc |-> "idle", pages |-> 0, links |-> 0, resolved |-> 0,
           failures |-> 0, trouble |-> FALSE, outcome |-> "none", document |-> NoDocument,
           leaked |-> FALSE]

Init ==
  /\ task \in {[NoTask EXCEPT !.style = s, !.pc = "first"] : s \in ListStyles \cup FetchStyles}
  /\ call = NoCall
  /\ session = NoSession

-----------------------------------------------------------------------------
(* The session's calls. Every call that opened a page closes it, however it    *)
(* ends.                                                                       *)
Browser == {"render", "request_page", "request_document", "click"}

Return(r) ==
  /\ call' = [call EXCEPT !.step = "returned", !.result = r]
  /\ session' = [session EXCEPT !.page = FALSE]
  /\ UNCHANGED task

\* _browser_context: the driver, the browser and its context, once per session.
StartBrowser ==
  /\ call.op \in Browser /\ call.step = "called" /\ ~session.context
  /\ \/ /\ session' = IF ~session.driver THEN [session EXCEPT !.driver = TRUE]
                      ELSE IF ~session.browser THEN [session EXCEPT !.browser = TRUE]
                      ELSE [session EXCEPT !.context = TRUE]
        /\ UNCHANGED <<task, call>>
     \/ Return("retry")

\* get_json and get_page over plain HTTP; what should be JSON may not be.
PlainGet ==
  /\ call.op = "get" /\ call.step = "called"
  /\ \E r \in {"page", "unreachable"} \cup (IF task.style = "feed" THEN {"retry"} ELSE {}) :
       Return(r)

OpenPage ==
  /\ call.op \in {"render", "click"} \/ (call.op = "request_document" /\ task.style = "seeded")
  /\ call.step = "called" /\ session.context
  /\ \/ /\ session' = [session EXCEPT !.page = TRUE]
        /\ call' = [call EXCEPT !.step = "opened"]
        /\ UNCHANGED task
     \/ Return("retry")

\* render: a network error, a time-out and an HTTP error are all unreachable.
RenderGoto ==
  /\ call.op = "render" /\ call.step = "opened"
  /\ \/ Return("unreachable")
     \/ call' = [call EXCEPT !.step = "loaded"] /\ UNCHANGED <<task, session>>

(* _wait_for and _frame: what never shows up, even after the click meant to    *)
(* fill it in, is a changed layout where it is required.                       *)
RenderRead ==
  /\ call.op = "render" /\ call.step = "loaded"
  /\ \E r \in {"page", "retry"} \cup (IF task.style \in {"page", "click"} THEN {"layout"} ELSE {}) :
       Return(r)

RequestPage ==
  /\ call.op = "request_page" /\ call.step = "called" /\ session.context
  /\ \/ Return("unreachable")
     \/ \E s \in StatusClasses : Return(IF s = "ok" THEN "page" ELSE s)

\* The seed page of request_document; Playwright's own errors are retried.
Seed ==
  /\ call.op = "request_document" /\ call.step = "opened"
  /\ \/ \E r \in {"retry", "rejected"} : Return(r)
     \/ /\ session' = [session EXCEPT !.page = FALSE]
        /\ call' = [call EXCEPT !.step = "seeded"]
        /\ UNCHANGED task

\* A document that passes is kept; one that fails is never a document.
Read(size, bytes, type) ==
  IF Validated(size, bytes, type)
  THEN /\ call' = [call EXCEPT !.step = "returned", !.result = "document"]
       /\ task' = [task EXCEPT !.document = [size |-> size, bytes |-> bytes, type |-> type]]
       /\ session' = [session EXCEPT !.page = FALSE]
  ELSE Return("rejected")

ReadAnything ==
  \E size \in 0..(MaxBytes + 1), bytes \in Contents, type \in ContentTypes :
    Read(size, bytes, type)

RequestDocument ==
  /\ call.op = "request_document" /\ session.context
  /\ call.step = IF task.style = "seeded" THEN "seeded" ELSE "called"
  /\ \/ \E s \in {"not_found", "rejected", "retry"} : Return(s)
     \/ ReadAnything

\* download_document: follow redirects to the source's hosts, at most MaxHops requests.
Hop ==
  /\ call.op = "download" /\ call.step = "called"
  /\ IF call.hops = MaxHops
     THEN Return("rejected")
     ELSE \/ /\ call' = [call EXCEPT !.hops = @ + 1]
             /\ UNCHANGED <<task, session>>
          \/ \E s \in {"not_found", "rejected", "retry"} : Return(s)
          \/ ReadAnything

\* click_download: reopen the listing, find the link, wait for its download.
Click ==
  /\ call.op = "click" /\ call.step = "opened"
  /\ \/ \E r \in {"retry", "rejected"} : Return(r)
     \/ ReadAnything

-----------------------------------------------------------------------------
(* The adapters. Ends(o) leaves the session's block with an outcome.           *)
Calls(op) ==
  /\ call.step = "none"
  /\ call' = [NoCall EXCEPT !.op = op, !.step = "called"]
  /\ UNCHANGED <<task, session>>

Answered(r) == call.step = "returned" /\ call.result = r
Failed == call.step = "returned" /\ call.result \notin {"page", "document"}

Continue(t) ==
  /\ task' = t
  /\ call' = NoCall
  /\ UNCHANGED session

Ends(t, o) == Continue([t EXCEPT !.pc = "leaving", !.outcome = o])

\* A fetch ends in a permanent document error, or in one a later attempt may get past.
Raised(r) == IF r \in {"rejected", "not_found"} THEN "permanent" ELSE "retry"
Trouble == [task EXCEPT !.trouble = @ \/ call.result \in {"unreachable", "retry"}]

\* list_documents: a listing with nothing to read is a changed layout.
Listed(t) == Ends(t, IF t.resolved = 0 THEN "layout" ELSE "listed")

Listing == task.style \in ListStyles

First(style) == task.style = style /\ task.pc = "first"
Refused == Failed /\ Ends(Trouble, call.result)

\* What a page yields: its links, its announcements, the document of an article.
Links == 0..MaxLinks
Found == {0, 1}

\* YourIR's feed; a payload of another shape is a changed layout.
FeedPage ==
  /\ First("feed")
  /\ \/ Calls("get")
     \/ Refused
     \/ Answered("page") /\ Ends(task, "layout")
     \/ Answered("page") /\ \E n \in Links : Listed([task EXCEPT !.resolved = n])

ListingPage ==
  /\ First("page")
  /\ \/ Calls("render")
     \/ Refused
     \/ Answered("page") /\ \E n \in Links : Listed([task EXCEPT !.resolved = n])

\* BHP: a page that cannot be reached is fetched over plain HTTP instead.
FallbackPage ==
  /\ task.style = "fallback"
  /\ \/ Calls(IF task.pc = "first" THEN "render" ELSE "get") /\ task.pc \in {"first", "plain"}
     \/ Answered("unreachable") /\ task.pc = "first" /\ Continue([Trouble EXCEPT !.pc = "plain"])
     \/ Refused /\ (Answered("unreachable") => task.pc = "plain")
     \/ Answered("page") /\ \E n \in Links : Listed([task EXCEPT !.resolved = n])

\* COH: a first page, then the newest two years it links to, but for the current one.
YearsPage ==
  /\ task.style = "years"
  /\ \/ Calls("render") /\ task.pc \in {"first", "year"}
     \/ Refused
     \/ /\ Answered("page") /\ task.pc = "first"
        /\ \E n \in Links, years \in 0..2 :
             /\ years = 2 => n = 0
             /\ IF years = 0 THEN Listed([task EXCEPT !.resolved = n])
                ELSE Continue([task EXCEPT !.pc = "year", !.pages = years, !.resolved = n])
     \/ /\ Answered("page") /\ task.pc = "year"
        /\ \E n \in Links :
             IF task.pages = 2 THEN Continue([task EXCEPT !.pages = 1, !.resolved = n])
             ELSE Listed([task EXCEPT !.resolved = @ + n])

\* RIO: the widget's address is read from its wrapper page, or known without it.
WidgetPage ==
  /\ task.style = "widget"
  /\ \/ Calls("render") /\ task.pc \in {"first", "widget"}
     \/ Answered("unreachable") /\ task.pc = "first" /\ Continue([Trouble EXCEPT !.pc = "widget"])
     \/ Refused /\ (Answered("unreachable") => task.pc = "widget")
     \/ Answered("page") /\ task.pc = "first" /\ Continue([task EXCEPT !.pc = "widget"])
     \/ /\ Answered("page") /\ task.pc = "widget"
        /\ \E n \in Links : Continue([task EXCEPT !.links = n, !.pc = "articles"])

\* MQG: one page of article links.
ReportsPage ==
  /\ First("single")
  /\ \/ Calls("render")
     \/ Refused
     \/ Answered("page") /\ \E n \in Links : Continue([task EXCEPT !.links = n, !.pc = "articles"])

\* ORG and WDS: up to two pages of article links, the first of which must load.
FirstOfWalk ==
  /\ First("walk")
  /\ \/ Calls("render")
     \/ Refused
     \/ /\ Answered("page")
        /\ \E n \in Links :
             Continue([task EXCEPT !.links = n, !.pc = IF n = 0 THEN "articles" ELSE "walk"])

\* walk_listing_pages: a later page that fails or adds nothing ends the walk.
WalkOn ==
  /\ Listing /\ task.pc = "walk"
  /\ \/ Calls("render")
     \/ /\ Answered("unreachable")
        /\ Continue([Trouble EXCEPT !.pc = "articles"])
     \/ Refused /\ ~Answered("unreachable")
     \/ /\ Answered("page")
        /\ \E n \in Links : Continue([task EXCEPT !.links = @ + n, !.pc = "articles"])

(* resolved_announcements: an article that cannot be loaded is skipped, unless *)
(* nothing was resolved, which makes the source unreachable.                   *)
Article ==
  /\ Listing /\ task.pc = "articles" /\ task.links > 0
  /\ \/ Calls("render")
     \/ /\ call.step = "none"
        /\ task.style \in {"single", "walk"}
        /\ Continue([task EXCEPT !.links = @ - 1, !.resolved = @ + 1])
     \/ /\ Answered("unreachable")
        /\ Continue([Trouble EXCEPT !.links = @ - 1, !.failures = @ + 1])
     \/ Refused /\ ~Answered("unreachable")
     \/ /\ Answered("page")
        /\ \E found \in Found :
             Continue([task EXCEPT !.links = @ - 1, !.resolved = @ + found])

\* Mutant: skipped articles alone are not a reason to give the source up.
ResolvedAnyway == Listing /\ task.pc = "articles" /\ task.links = 0 /\ Listed(task)

Resolved ==
  /\ Listing /\ task.pc = "articles" /\ task.links = 0
  /\ IF task.failures > 0 /\ task.resolved = 0 THEN Ends(task, "unreachable") ELSE Listed(task)

\* A fetch ends with its document, or with the error of the call it awaits.
Fetched(codes) ==
  \/ Answered("document") /\ Ends(task, "document")
  \/ Failed /\ call.result \notin codes /\ Ends(Trouble, Raised(call.result))

Refuses == call.step = "none" /\ Ends(task, "permanent")

\* CSL and the documents of YourIR's API.
DownloadFetch ==
  /\ First("download")
  /\ Calls("download") \/ Fetched({})

\* YourIR also serves every resource under a fixed file name.
ResourceFetch ==
  /\ task.style = "resource"
  /\ \/ task.pc \in {"first", "second"} /\ Calls("download")
     \/ Fetched(IF task.pc = "first" THEN {"not_found"} ELSE {})
     \/ /\ Answered("not_found") /\ task.pc = "first"
        /\ \/ Continue([task EXCEPT !.pc = "second"])
           \/ Ends(task, "permanent")

\* SeededBrowserDownload: the listing page is opened first.
SeededFetch ==
  /\ First("seeded")
  /\ Refuses \/ Calls("request_document") \/ Fetched({})

\* BHP: the document is the one its article links to.
ArticleFetch ==
  /\ task.style = "article"
  /\ \/ task.pc = "first" /\ (Refuses \/ Calls("request_page"))
     \/ /\ Answered("page")
        /\ Continue([task EXCEPT !.pc = "second"]) \/ Ends(task, "permanent")
     \/ task.pc = "second" /\ Calls("request_document")
     \/ Fetched({})

\* WES: the link is found again in the listing, and clicked.
ClickFetch ==
  /\ task.style = "click"
  /\ \/ task.pc = "first" /\ (Refuses \/ Calls("render"))
     \/ /\ Answered("page")
        /\ Continue([task EXCEPT !.pc = "second"]) \/ Ends(task, "permanent")
     \/ task.pc = "second" /\ Calls("click")
     \/ Fetched({})

\* LiveFetcher.session: closing may fail, which hides whatever the block returned.
Close ==
  /\ task.pc = "leaving"
  /\ \/ /\ session' = NoSession
        /\ task' = [task EXCEPT !.pc = "closed"]
     \/ /\ session.browser
        /\ task' = [task EXCEPT !.pc = "closed", !.outcome = "retry", !.leaked = TRUE]
        /\ UNCHANGED session
  /\ UNCHANGED call

Next ==
  \/ StartBrowser \/ PlainGet \/ OpenPage \/ RenderGoto \/ RenderRead \/ RequestPage
  \/ Seed \/ RequestDocument \/ Hop \/ Click
  \/ FeedPage \/ ListingPage \/ FallbackPage \/ YearsPage \/ WidgetPage \/ ReportsPage
  \/ FirstOfWalk \/ WalkOn \/ Article \/ Resolved
  \/ DownloadFetch \/ ResourceFetch \/ SeededFetch \/ ArticleFetch \/ ClickFetch
  \/ Close

-----------------------------------------------------------------------------
(* Whatever fails, and at whichever step, an adapter that is done holds no      *)
(* page, browser or driver, unless closing the browser is what failed.         *)
NothingLeftOpen ==
  /\ task.pc \in {"leaving", "closed"} => ~session.page
  /\ task.pc = "closed" /\ ~task.leaked => session = NoSession

(* A changed layout or a permanent error ends a message for good, so it is      *)
(* never the verdict on a site that could not be reached: only a page that was *)
(* answered decides it. Three fallbacks read another page instead.             *)
FinalNeedsAnswer ==
  task.outcome \in {"layout", "permanent"} =>
    \/ ~task.trouble
    \/ task.style \in {"fallback", "widget"} /\ task.failures = 0
    \/ task.style = "walk" /\ task.failures = 0

(* A listing of articles that resolved one is never reported unreachable; only *)
(* one made of years gives all of them up for one that fails. A fetched        *)
(* document is a supported format of its declared type within the limit.       *)
OutcomeHolds ==
  /\ task.outcome = "listed" => task.resolved > 0
  /\ task.outcome = "unreachable" /\ task.pc = "closed" => task.trouble
  /\ task.outcome = "unreachable" /\ task.style # "years" => task.resolved = 0
  /\ task.outcome = "document" =>
       Validated(task.document.size, task.document.bytes, task.document.type)
=============================================================================
