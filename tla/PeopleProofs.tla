----------------------------- MODULE PeopleProofs -----------------------------
(* The parts that people meet, for every value of the constants: the pages of   *)
(* the website, whose requests are answered late and in any order, the accounts  *)
(* and the watchlist page. The theorems about the last two are those of their    *)
(* own modules, for the slots that hold their state here.                        *)
EXTENDS MCParts, SequenceTheorems, FiniteSetTheorems, TLAPS

-----------------------------------------------------------------------------
(* Website: s1 is the page, s2 the sign-in, s3 its hint, s4 the requests under  *)
(* way, s5 how many were made, s6 the request cache and s7 what the API has.    *)

CallFields == {"what", "arg", "pc", "token", "again", "answer", "data"}
ServerFields == {"profile", "preferences", "changed", "left", "feed"}

\* Only a request that returned was answered with success.
RequestsRight ==
  /\ s5 \in Nat /\ DOMAIN s4 \subseteq 1..s5
  /\ \A c \in DOMAIN s4 :
       /\ DOMAIN s4[c] = CallFields
       /\ s4[c].pc # "returned" => s4[c].answer # "ok"
  /\ DOMAIN s2 = {"provider", "tokens"}
  /\ DOMAIN s7 = ServerFields

\* What making a request does.
LEMMA AsksIs ==
  ASSUME RequestsRight, NEW what, NEW arg, NEW p, Web!Asks(what, arg, p)
  PROVE  /\ s1' = p
         /\ s5' = s5 + 1 /\ s5' \in Nat /\ s5' # 0
         /\ s5' \notin DOMAIN s4
         /\ DOMAIN s4' = DOMAIN s4 \cup {s5'} /\ DOMAIN s4' \subseteq 1..s5'
         /\ \A c \in DOMAIN s4 : s4'[c] = s4[c]
         /\ DOMAIN s4'[s5'] = CallFields
         /\ s4'[s5'].what = what /\ s4'[s5'].arg = arg /\ s4'[s5'].answer = "none"
         /\ s4'[s5'].data = <<>>
  <1>1. /\ s5' = s5 + 1 /\ s1' = p
        /\ s4' = Web!With(s4, s5 + 1, Web!Call(what, arg))
    BY DEF Web!Asks, Web!Next1
  <1>2. s5 \in Nat /\ s5 + 1 \in Nat /\ s5 + 1 # 0 /\ s5 + 1 \notin 1..s5
    BY DEF RequestsRight
  <1>3. 1..s5 \subseteq 1..(s5 + 1) /\ s5 + 1 \in 1..(s5 + 1)
    BY <1>2
  <1>4. PICK call : call = Web!Call(what, arg)
    OBVIOUS
  <1>5. /\ DOMAIN call = CallFields /\ call.what = what /\ call.arg = arg
        /\ call.answer = "none" /\ call.data = <<>>
    BY <1>4 DEF Web!Call, CallFields
  <1>6. /\ DOMAIN s4' = DOMAIN s4 \cup {s5 + 1}
        /\ \A c \in DOMAIN s4 : c # s5 + 1 => s4'[c] = s4[c]
        /\ s4'[s5 + 1] = call
    BY <1>1, <1>4 DEF Web!With
  <1> QED
    BY <1>1, <1>2, <1>3, <1>5, <1>6 DEF RequestsRight

LEMMA AskedRight ==
  ASSUME RequestsRight, NEW what, NEW arg, NEW p, Web!Asks(what, arg, p),
         DOMAIN s2' = DOMAIN s2, DOMAIN s7' = DOMAIN s7
  PROVE  RequestsRight'
  <1>1. /\ s5' \in Nat /\ DOMAIN s4' = DOMAIN s4 \cup {s5'} /\ DOMAIN s4' \subseteq 1..s5'
        /\ \A c \in DOMAIN s4 : s4'[c] = s4[c]
        /\ DOMAIN s4'[s5'] = CallFields /\ s4'[s5'].answer = "none"
    BY AsksIs
  <1> QED
    BY <1>1 DEF RequestsRight

\* A request whose answer the page has taken is over.
LEMMA TakenIs ==
  ASSUME RequestsRight, NEW c, Web!Taken(c)
  PROVE  /\ s5' = s5 /\ s7' = s7
         /\ DOMAIN s4' = DOMAIN s4 \ {c}
         /\ \A d \in DOMAIN s4 \ {c} : s4'[d] = s4[d]
  BY DEF Web!Taken, Web!Without

LEMMA TakenRight ==
  ASSUME RequestsRight, NEW c, Web!Taken(c), DOMAIN s2' = DOMAIN s2
  PROVE  RequestsRight'
  BY TakenIs DEF RequestsRight

(* The network: one request goes on, is answered or fails. A success is the     *)
(* API's answer after it acted, and a failure may come from a request that the  *)
(* API acted on.                                                                *)
Network(c) ==
  /\ c \in DOMAIN s4 /\ s4[c].pc # "returned"
  /\ UNCHANGED <<s1, s3, s5, s6>>
  /\ DOMAIN s4' = DOMAIN s4
  /\ \A d \in DOMAIN s4 \ {c} : s4'[d] = s4[d]
  /\ DOMAIN s4'[c] = CallFields
  /\ s4'[c].what = s4[c].what /\ s4'[c].arg = s4[c].arg
  /\ s4'[c].pc # "returned" => s4'[c].answer # "ok"
  /\ s7' = s7 \/ s7' = Web!Stored(c)
  /\ s4'[c].answer = "ok" =>
       /\ Web!Possible(c)
       /\ s7' = Web!Stored(c)
       /\ s4'[c].data = IF s4[c].what \in {"save", "resend", "load"} THEN s7'.preferences
                        ELSE Web!Data(c)
  /\ DOMAIN s2' = DOMAIN s2 /\ s2'.provider = s2.provider

\* A request that becomes r, with its answer or without.
LEMMA BecomesIs ==
  ASSUME RequestsRight, NEW c \in DOMAIN s4, NEW r, Web!Becomes(c, r)
  PROVE  /\ DOMAIN s4' = DOMAIN s4 /\ s4'[c] = r
         /\ \A d \in DOMAIN s4 \ {c} : s4'[d] = s4[d]
  BY DEF Web!Becomes

LEMMA FailsIs ==
  ASSUME RequestsRight, NEW c \in DOMAIN s4, s4[c].pc # "returned",
         \/ Web!Fails(c) \/ Web!Ends(c, "error") \/ Web!Ends(c, "401")
         \/ Web!Becomes(c, [s4[c] EXCEPT !.pc = "refused"])
         \/ \E token : Web!Becomes(c, [s4[c] EXCEPT !.pc = "sent", !.token = token])
         \/ Web!Becomes(c, [s4[c] EXCEPT !.pc = "sent", !.token = "fresh", !.again = TRUE])
  PROVE  /\ DOMAIN s4' = DOMAIN s4
         /\ \A d \in DOMAIN s4 \ {c} : s4'[d] = s4[d]
         /\ DOMAIN s4'[c] = CallFields
         /\ s4'[c].what = s4[c].what /\ s4'[c].arg = s4[c].arg
         /\ s4'[c].answer # "ok"
  <1>1. DOMAIN s4[c] = CallFields /\ s4[c].answer # "ok"
    BY DEF RequestsRight
  <1>2. ASSUME NEW r, Web!Becomes(c, r), DOMAIN r = CallFields, r.what = s4[c].what,
               r.arg = s4[c].arg, r.answer # "ok"
        PROVE  /\ DOMAIN s4' = DOMAIN s4
               /\ \A d \in DOMAIN s4 \ {c} : s4'[d] = s4[d]
               /\ DOMAIN s4'[c] = CallFields
               /\ s4'[c].what = s4[c].what /\ s4'[c].arg = s4[c].arg
               /\ s4'[c].answer # "ok"
    BY <1>2, BecomesIs
  <1>3. ASSUME NEW pc, Web!Becomes(c, [s4[c] EXCEPT !.pc = pc])
        PROVE  \E r : /\ Web!Becomes(c, r) /\ DOMAIN r = CallFields /\ r.what = s4[c].what
                      /\ r.arg = s4[c].arg /\ r.answer # "ok"
    <2>1. PICK r : r = [s4[c] EXCEPT !.pc = pc]
      OBVIOUS
    <2>2. DOMAIN r = CallFields /\ r.what = s4[c].what /\ r.arg = s4[c].arg /\ r.answer # "ok"
      BY <1>1, <2>1 DEF CallFields
    <2> QED
      BY <1>3, <2>1, <2>2
  <1>4. ASSUME NEW answer, answer # "ok", Web!Ends(c, answer)
        PROVE  \E r : /\ Web!Becomes(c, r) /\ DOMAIN r = CallFields /\ r.what = s4[c].what
                      /\ r.arg = s4[c].arg /\ r.answer # "ok"
    <2>1. PICK r : r = [s4[c] EXCEPT !.pc = "returned", !.answer = answer]
      OBVIOUS
    <2>2. DOMAIN r = CallFields /\ r.what = s4[c].what /\ r.arg = s4[c].arg /\ r.answer # "ok"
      BY <1>1, <1>4, <2>1 DEF CallFields
    <2> QED
      BY <1>4, <2>1, <2>2 DEF Web!Ends
  <1>5. ASSUME NEW token, Web!Becomes(c, [s4[c] EXCEPT !.pc = "sent", !.token = token])
        PROVE  \E r : /\ Web!Becomes(c, r) /\ DOMAIN r = CallFields /\ r.what = s4[c].what
                      /\ r.arg = s4[c].arg /\ r.answer # "ok"
    <2>1. PICK r : r = [s4[c] EXCEPT !.pc = "sent", !.token = token]
      OBVIOUS
    <2>2. DOMAIN r = CallFields /\ r.what = s4[c].what /\ r.arg = s4[c].arg /\ r.answer # "ok"
      BY <1>1, <2>1 DEF CallFields
    <2> QED
      BY <1>5, <2>1, <2>2
  <1>6. ASSUME Web!Becomes(c, [s4[c] EXCEPT !.pc = "sent", !.token = "fresh", !.again = TRUE])
        PROVE  \E r : /\ Web!Becomes(c, r) /\ DOMAIN r = CallFields /\ r.what = s4[c].what
                      /\ r.arg = s4[c].arg /\ r.answer # "ok"
    <2>1. PICK r : r = [s4[c] EXCEPT !.pc = "sent", !.token = "fresh", !.again = TRUE]
      OBVIOUS
    <2>2. DOMAIN r = CallFields /\ r.what = s4[c].what /\ r.arg = s4[c].arg /\ r.answer # "ok"
      BY <1>1, <2>1 DEF CallFields
    <2> QED
      BY <1>6, <2>1, <2>2
  <1>7. Web!Fails(c) => Web!Ends(c, "error") \/ Web!Becomes(c, [s4[c] EXCEPT !.pc = "refused"])
    BY DEF Web!Fails
  <1>8. \E r : /\ Web!Becomes(c, r) /\ DOMAIN r = CallFields /\ r.what = s4[c].what
               /\ r.arg = s4[c].arg /\ r.answer # "ok"
    BY <1>3, <1>4, <1>5, <1>6, <1>7
  <1> QED
    BY <1>2, <1>8

LEMMA SignedOutIs ==
  ASSUME RequestsRight, s2' \in Web!SignedOut(s2)
  PROVE  DOMAIN s2' = DOMAIN s2 /\ s2'.provider = s2.provider
  BY DEF Web!SignedOut, RequestsRight

LEMMA NetworkIs ==
  ASSUME RequestsRight, NEW c \in DOMAIN s4,
         Web!AddToken(c) \/ Web!Serve(c) \/ Web!Refused(c)
  PROVE  Network(c)
  <1> DEFINE Failing == /\ DOMAIN s4' = DOMAIN s4
                        /\ \A d \in DOMAIN s4 \ {c} : s4'[d] = s4[d]
                        /\ DOMAIN s4'[c] = CallFields
                        /\ s4'[c].what = s4[c].what /\ s4'[c].arg = s4[c].arg
                        /\ s4'[c].answer # "ok"
  <1>1. UNCHANGED <<s1, s3, s5, s6>> /\ s4[c].pc # "returned"
    BY DEF Web!AddToken, Web!Serve, Web!Refused, Web!Apart
  <1>2. CASE Web!AddToken(c)
    <2>1. Failing
      BY <1>1, <1>2, FailsIs DEF Web!AddToken
    <2>2. UNCHANGED <<s2, s7>>
      BY <1>2 DEF Web!AddToken
    <2> QED
      BY <1>1, <2>1, <2>2 DEF Network
  <1>3. CASE Web!Refused(c)
    <2>1. Failing
      BY <1>1, <1>3, FailsIs DEF Web!Refused
    <2>2. UNCHANGED s7
      BY <1>3 DEF Web!Refused
    <2>3. DOMAIN s2' = DOMAIN s2 /\ s2'.provider = s2.provider
      <3>1. \/ s2' = [s2 EXCEPT !.tokens = "fresh"]
            \/ s2' \in Web!SignedOut(s2)
            \/ s2' = s2
        BY <1>3 DEF Web!Refused
      <3> QED
        BY <3>1, SignedOutIs DEF RequestsRight
    <2> QED
      BY <1>1, <2>1, <2>2, <2>3 DEF Network
  <1>4. CASE Web!Serve(c)
    <2>1. DOMAIN s2' = DOMAIN s2 /\ s2'.provider = s2.provider
      <3>1. \/ s2' = [s2 EXCEPT !.tokens = "fresh"]
            \/ s2' = [s2 EXCEPT !.tokens = "none"]
            \/ s2' = s2
        BY <1>4 DEF Web!Serve
      <3> QED
        BY <3>1 DEF RequestsRight
    <2>2. CASE Failing /\ (s7' = s7 \/ s7' = Web!Stored(c))
      BY <1>1, <2>1, <2>2 DEF Network
    <2>3. ASSUME NEW r, Web!Becomes(c, r), Web!Possible(c), s7' = Web!Stored(c),
                 r = [s4[c] EXCEPT !.pc = "returned", !.answer = "ok",
                        !.data = IF s4[c].what \in {"save", "resend", "load"}
                                 THEN s7'.preferences ELSE Web!Data(c)]
          PROVE  Network(c)
      <3>1. PICK data : data = IF s4[c].what \in {"save", "resend", "load"}
                               THEN s7'.preferences ELSE Web!Data(c)
        OBVIOUS
      <3>2. r = [s4[c] EXCEPT !.pc = "returned", !.answer = "ok", !.data = data]
        BY <2>3, <3>1
      <3>3. DOMAIN s4[c] = CallFields
        BY DEF RequestsRight
      <3>4. /\ DOMAIN r = CallFields /\ r.what = s4[c].what /\ r.arg = s4[c].arg
            /\ r.pc = "returned" /\ r.data = data
        BY <3>2, <3>3 DEF CallFields
      <3>5. /\ DOMAIN s4' = DOMAIN s4 /\ s4'[c] = r
            /\ \A d \in DOMAIN s4 \ {c} : s4'[d] = s4[d]
        BY <2>3, BecomesIs
      <3> QED
        BY <1>1, <2>1, <2>3, <3>1, <3>4, <3>5 DEF Network
    <2>4. \/ Failing /\ (s7' = s7 \/ s7' = Web!Stored(c))
          \/ \E r : /\ Web!Becomes(c, r) /\ Web!Possible(c) /\ s7' = Web!Stored(c)
                    /\ r = [s4[c] EXCEPT !.pc = "returned", !.answer = "ok",
                              !.data = IF s4[c].what \in {"save", "resend", "load"}
                                       THEN s7'.preferences ELSE Web!Data(c)]
      <3>1. Web!Fails(c) => Failing
        BY <1>1, FailsIs
      <3>2. Web!Becomes(c, [s4[c] EXCEPT !.pc = "refused"]) => Failing
        BY <1>1, FailsIs
      <3> HIDE DEF Failing
      <3> QED
        BY <1>4, <3>1, <3>2 DEF Web!Serve
    <2> QED
      BY <2>2, <2>3, <2>4
  <1> QED
    BY <1>2, <1>3, <1>4

LEMMA NetworkRight ==
  ASSUME RequestsRight, NEW c, Network(c), DOMAIN s7' = DOMAIN s7
  PROVE  RequestsRight'
  BY DEF RequestsRight, Network

\* What the API changes when it acts on a request.
LEMMA StoredIs ==
  ASSUME RequestsRight, NEW c, NEW t, t = Web!Stored(c)
  PROVE  /\ DOMAIN t = ServerFields
         /\ t.feed = s7.feed /\ t.left = s7.left
         /\ t.profile = (IF s4[c].what = "bootstrap" THEN TRUE ELSE s7.profile)
         /\ t.changed = (IF s4[c].what \in {"save", "resend", "load"} THEN FALSE ELSE s7.changed)
         /\ s4[c].what \notin {"save", "resend"} => t.preferences = s7.preferences
  <1>1. CASE s4[c].what = "bootstrap"
    BY <1>1 DEF Web!Stored, RequestsRight, ServerFields
  <1>2. CASE s4[c].what = "save"
    <2>1. PICK p : t = [s7 EXCEPT !.changed = FALSE, !.preferences = p]
      BY <1>2 DEF Web!Stored
    <2> QED
      BY <1>2, <2>1 DEF RequestsRight, ServerFields
  <1>3. CASE s4[c].what = "resend"
    <2>1. PICK p : t = [s7 EXCEPT !.changed = FALSE, !.preferences = p]
      <3>1. t = [s7 EXCEPT !.changed = FALSE, !.preferences.status = "pending"]
        BY <1>3 DEF Web!Stored
      <3> QED
        BY <3>1
    <2> QED
      BY <1>3, <2>1 DEF RequestsRight, ServerFields
  <1>4. CASE s4[c].what = "load"
    BY <1>4 DEF Web!Stored, RequestsRight, ServerFields
  <1>5. CASE s4[c].what \notin {"bootstrap", "save", "resend", "load"}
    BY <1>5 DEF Web!Stored, RequestsRight, ServerFields
  <1> QED
    BY <1>1, <1>2, <1>3, <1>4, <1>5

LEMMA NetworkServer ==
  ASSUME RequestsRight, NEW c, Network(c)
  PROVE  RequestsRight' /\ s7'.feed = s7.feed /\ s7'.left = s7.left
  <1>1. s7' = s7 \/ s7' = Web!Stored(c)
    BY DEF Network
  <1>2. PICK t : t = Web!Stored(c)
    OBVIOUS
  <1>3. DOMAIN t = ServerFields /\ t.feed = s7.feed /\ t.left = s7.left
    BY <1>2, StoredIs
  <1>4. DOMAIN s7' = DOMAIN s7 /\ s7'.feed = s7.feed /\ s7'.left = s7.left
    BY <1>1, <1>2, <1>3 DEF RequestsRight
  <1> QED
    BY <1>4, NetworkRight

-----------------------------------------------------------------------------
(* A company's page.                                                            *)
CompanyFields == {"name", "symbol", "waits", "data", "failed"}
EntryFields == {"call", "data", "fresh"}

\* One request at most for each company: the one its entry of the cache names.
CompanyInv ==
  /\ RequestsRight
  /\ s1.name = "company" /\ DOMAIN s1 = CompanyFields
  /\ s1.data \in {"none", s1.symbol}
  /\ s1.waits # 0 => s1.waits \in DOMAIN s4 /\ s4[s1.waits].arg = s1.symbol
  /\ DOMAIN s6 = Symbols
  /\ \A s \in Symbols :
       /\ DOMAIN s6[s] = EntryFields
       /\ s6[s].data \in {"none", s}
       /\ s6[s].call # 0 => s6[s].call \in DOMAIN s4 /\ s4[s6[s].call].arg = s
  /\ \A c \in DOMAIN s4 :
       /\ s4[c].what = "brief" /\ s4[c].arg \in Symbols
       /\ s6[s4[c].arg].call = c
       /\ s4[c].answer = "ok" => s4[c].data = s4[c].arg

LEMMA CompanyPageIs ==
  ASSUME NEW s, NEW p, p = Web!CompanyPage(s)
  PROVE  /\ DOMAIN p = CompanyFields /\ p.name = "company" /\ p.symbol = s
         /\ p.waits = 0 /\ p.data = "none"
  BY DEF Web!CompanyPage, CompanyFields, Web!NoCall

LEMMA CompanyNetwork ==
  ASSUME CompanyInv, NEW c, Network(c)
  PROVE  CompanyInv'
  <1>1. RequestsRight'
    BY NetworkServer DEF CompanyInv
  <1>2. s4'[c].answer = "ok" => s4'[c].data = s4[c].arg
    BY DEF Network, CompanyInv, Web!Data
  <1> QED
    BY <1>1, <1>2 DEF CompanyInv, Network

LEMMA VisitKept ==
  ASSUME CompanyInv, NEW s \in Symbols, Web!Visit(s)
  PROVE  CompanyInv'
  <1>1. PICK e : e = s6[s]
    OBVIOUS
  <1>2. /\ DOMAIN e = EntryFields /\ e.data \in {"none", s}
        /\ e.call # 0 => e.call \in DOMAIN s4 /\ s4[e.call].arg = s
    BY <1>1 DEF CompanyInv
  <1>3. PICK page : page = Web!CompanyPage(s)
    OBVIOUS
  <1>4. /\ DOMAIN page = CompanyFields /\ page.name = "company" /\ page.symbol = s
        /\ page.waits = 0 /\ page.data = "none"
    BY <1>3, CompanyPageIs
  <1>5. CASE e.call # 0 \/ e.fresh
    <2>1. /\ s1' = [page EXCEPT !.waits = e.call, !.data = e.data]
          /\ UNCHANGED <<s2, s4, s5, s6, s7>>
      BY <1>1, <1>3, <1>5 DEF Web!Visit, Web!NoCall
    <2>2. /\ DOMAIN s1' = CompanyFields /\ s1'.name = "company" /\ s1'.symbol = s
          /\ s1'.waits = e.call /\ s1'.data = e.data
      BY <1>4, <2>1 DEF CompanyFields
    <2> QED
      BY <1>2, <2>1, <2>2 DEF CompanyInv, RequestsRight
  <1>6. CASE ~(e.call # 0 \/ e.fresh)
    <2>1. /\ Web!Asks("brief", s, [page EXCEPT !.waits = s5 + 1])
          /\ s6' = [s6 EXCEPT ![s] = [Web!NoEntry EXCEPT !.call = s5 + 1]]
          /\ UNCHANGED <<s2, s7>>
      BY <1>1, <1>3, <1>6 DEF Web!Visit, Web!NoCall, Web!Next1
    <2>2. PICK p : p = [page EXCEPT !.waits = s5 + 1]
      OBVIOUS
    <2>3. /\ DOMAIN p = CompanyFields /\ p.name = "company" /\ p.symbol = s
          /\ p.waits = s5 + 1 /\ p.data = "none"
      BY <1>4, <2>2 DEF CompanyFields
    <2>4. /\ s1' = p /\ s5' = s5 + 1 /\ s5' # 0 /\ s5' \notin DOMAIN s4
          /\ DOMAIN s4' = DOMAIN s4 \cup {s5'}
          /\ \A c \in DOMAIN s4 : s4'[c] = s4[c]
          /\ s4'[s5'].what = "brief" /\ s4'[s5'].arg = s /\ s4'[s5'].answer = "none"
      BY <2>1, <2>2, AsksIs DEF CompanyInv
    <2>5. RequestsRight'
      BY <2>1, AskedRight DEF CompanyInv
    <2>6. PICK n : n = [Web!NoEntry EXCEPT !.call = s5 + 1]
      OBVIOUS
    <2>7. DOMAIN n = EntryFields /\ n.call = s5' /\ n.data = "none"
      BY <2>4, <2>6 DEF Web!NoEntry, EntryFields
    <2>8. /\ DOMAIN s6' = Symbols /\ s6'[s] = n
          /\ \A x \in Symbols \ {s} : s6'[x] = s6[x]
      BY <2>1, <2>6 DEF CompanyInv
    <2>9. \A c \in DOMAIN s4 : s4[c].arg # s
      BY <1>1, <1>6, <2>4 DEF CompanyInv, RequestsRight
    <2>10. ASSUME NEW c \in DOMAIN s4'
           PROVE  /\ s4'[c].what = "brief" /\ s4'[c].arg \in Symbols
                  /\ s6'[s4'[c].arg].call = c
                  /\ s4'[c].answer = "ok" => s4'[c].data = s4'[c].arg
      <3>1. CASE c = s5'
        BY <2>4, <2>7, <2>8, <3>1
      <3>2. CASE c \in DOMAIN s4
        <4>1. s4'[c] = s4[c] /\ s4[c].arg \in Symbols \ {s}
          BY <2>4, <2>9, <3>2 DEF CompanyInv
        <4> QED
          BY <2>8, <3>2, <4>1 DEF CompanyInv
      <3> QED
        BY <2>4, <3>1, <3>2
    <2>11. ASSUME NEW x \in Symbols
           PROVE  /\ DOMAIN s6'[x] = EntryFields
                  /\ s6'[x].data \in {"none", x}
                  /\ s6'[x].call # 0 => s6'[x].call \in DOMAIN s4' /\ s4'[s6'[x].call].arg = x
      <3>1. CASE x = s
        BY <2>4, <2>7, <2>8, <3>1
      <3>2. CASE x # s
        BY <2>4, <2>8, <3>2 DEF CompanyInv
      <3> QED
        BY <3>1, <3>2
    <2> QED
      BY <2>3, <2>4, <2>5, <2>8, <2>10, <2>11 DEF CompanyInv
  <1> QED
    BY <1>5, <1>6

LEMMA AgeKept ==
  ASSUME CompanyInv, NEW s \in Symbols, Web!Age(s)
  PROVE  CompanyInv'
  <1>1. UNCHANGED <<s1, s2, s4, s5, s7>> /\ s6' = [s6 EXCEPT ![s].fresh = FALSE]
    BY DEF Web!Age
  <1>2. PICK e : e = [s6[s] EXCEPT !.fresh = FALSE]
    OBVIOUS
  <1>3. DOMAIN e = EntryFields /\ e.call = s6[s].call /\ e.data = s6[s].data
    BY <1>2 DEF CompanyInv, EntryFields
  <1>4. DOMAIN s6' = Symbols /\ s6'[s] = e /\ \A x \in Symbols \ {s} : s6'[x] = s6[x]
    BY <1>1, <1>2 DEF CompanyInv
  <1>5. \A x \in Symbols :
          DOMAIN s6'[x] = EntryFields /\ s6'[x].call = s6[x].call /\ s6'[x].data = s6[x].data
    BY <1>3, <1>4 DEF CompanyInv
  <1> QED
    BY <1>1, <1>4, <1>5 DEF CompanyInv, RequestsRight

LEMMA BriefKept ==
  ASSUME CompanyInv, NEW c \in DOMAIN s4, Web!BriefSettled(c)
  PROVE  CompanyInv'
  <1>1. /\ DOMAIN s4' = DOMAIN s4 \ {c}
        /\ \A d \in DOMAIN s4 \ {c} : s4'[d] = s4[d]
    BY TakenIs DEF Web!BriefSettled, CompanyInv
  <1>2. RequestsRight'
    BY TakenRight DEF Web!BriefSettled, CompanyInv
  <1>3. PICK s : s = s4[c].arg
    OBVIOUS
  <1>4. /\ s \in Symbols /\ s6[s].call = c /\ c # 0
        /\ s4[c].answer = "ok" => s4[c].data = s
    BY <1>3 DEF CompanyInv, RequestsRight
  <1>5. PICK e : e = IF Web!Ok(c) THEN [call |-> 0, data |-> s4[c].data, fresh |-> TRUE]
                     ELSE Web!NoEntry
    OBVIOUS
  <1>6. DOMAIN e = EntryFields /\ e.call = 0 /\ e.data \in {"none", s}
    BY <1>4, <1>5 DEF Web!Ok, Web!NoEntry, Web!NoCall, EntryFields
  <1>7. /\ DOMAIN s6' = Symbols /\ s6'[s] = e
        /\ \A x \in Symbols \ {s} : s6'[x] = s6[x]
    BY <1>3, <1>5 DEF Web!BriefSettled, CompanyInv, Web!NoCall
  <1>8. /\ s1'.name = "company" /\ DOMAIN s1' = CompanyFields
        /\ s1'.data \in {"none", s1'.symbol}
        /\ s1'.waits # 0 => s1'.waits \in DOMAIN s4' /\ s4'[s1'.waits].arg = s1'.symbol
    <2>1. CASE s1.waits # c
      <3>1. s1' = s1
        BY <2>1 DEF Web!BriefSettled
      <3> QED
        BY <1>1, <2>1, <3>1 DEF CompanyInv
    <2>2. CASE s1.waits = c
      <3>1. PICK data : data = IF Web!Ok(c) THEN s4[c].data ELSE "none"
        OBVIOUS
      <3>2. PICK failed : failed = ~Web!Ok(c)
        OBVIOUS
      <3>3. s1' = [s1 EXCEPT !.waits = 0, !.failed = failed, !.data = data]
        BY <2>2, <3>1, <3>2 DEF Web!BriefSettled, Web!NoCall
      <3>4. /\ DOMAIN s1' = CompanyFields /\ s1'.name = s1.name /\ s1'.symbol = s1.symbol
            /\ s1'.waits = 0 /\ s1'.data = data
        BY <3>3 DEF CompanyInv, CompanyFields
      <3>5. s = s1.symbol
        BY <1>3, <1>4, <2>2 DEF CompanyInv
      <3>6. data \in {"none", s}
        BY <1>4, <3>1 DEF Web!Ok
      <3> QED
        BY <3>4, <3>5, <3>6 DEF CompanyInv
    <2> QED
      BY <2>1, <2>2
  <1>9. ASSUME NEW d \in DOMAIN s4'
        PROVE  /\ s4'[d].what = "brief" /\ s4'[d].arg \in Symbols
               /\ s6'[s4'[d].arg].call = d
               /\ s4'[d].answer = "ok" => s4'[d].data = s4'[d].arg
    <2>1. d \in DOMAIN s4 \ {c} /\ s4'[d] = s4[d]
      BY <1>1
    <2>2. s4[d].arg \in Symbols \ {s}
      BY <1>4, <2>1 DEF CompanyInv
    <2> QED
      BY <1>7, <2>1, <2>2 DEF CompanyInv
  <1>10. ASSUME NEW x \in Symbols
         PROVE  /\ DOMAIN s6'[x] = EntryFields
                /\ s6'[x].data \in {"none", x}
                /\ s6'[x].call # 0 => s6'[x].call \in DOMAIN s4' /\ s4'[s6'[x].call].arg = x
    <2>1. CASE x = s
      BY <1>6, <1>7, <2>1
    <2>2. CASE x # s
      <3>1. s6'[x] = s6[x]
        BY <1>7, <2>2
      <3>2. s6[x].call # 0 => s6[x].call # c
        BY <1>3, <2>2 DEF CompanyInv
      <3> QED
        BY <1>1, <3>1, <3>2 DEF CompanyInv
    <2> QED
      BY <2>1, <2>2
  <1> QED
    BY <1>2, <1>7, <1>8, <1>9, <1>10 DEF CompanyInv

LEMMA CompanyPromise ==
  ASSUME CompanyInv
  PROVE  Web!CompanyShown
  BY DEF CompanyInv, Web!CompanyShown, Web!NoCall

-----------------------------------------------------------------------------
(* Signing in and out.                                                          *)
SignInFields == {"name", "step", "mfa", "waits"}

\* With Cognito, whoever was answered has a profile, and profiles stay.
SignInInv ==
  /\ RequestsRight
  /\ s1.name = "sign_in" /\ DOMAIN s1 = SignInFields
  /\ \A c \in DOMAIN s4 : s4[c].what \in {"me", "bootstrap", "sign_in", "sign_out"}
  /\ s2.provider = "cognito" =>
       /\ s3 => s7.profile
       /\ \A c \in DOMAIN s4 :
            /\ s4[c].what \in {"me", "bootstrap"}
            /\ s4[c].answer = "ok" => s7.profile

LEMMA SignInNetwork ==
  ASSUME SignInInv, NEW c, Network(c)
  PROVE  SignInInv'
  <1>1. RequestsRight'
    BY NetworkServer DEF SignInInv
  <1>2. PICK t : t = Web!Stored(c)
    OBVIOUS
  <1>3. t.profile = IF s4[c].what = "bootstrap" THEN TRUE ELSE s7.profile
    BY <1>2, StoredIs DEF SignInInv
  <1>4. s7.profile => s7'.profile
    BY <1>2, <1>3 DEF Network
  <1>5. s4[c].what \in {"me", "bootstrap"} /\ s4'[c].answer = "ok" => s7'.profile
    BY <1>2, <1>3 DEF Network, Web!Possible
  <1> QED
    BY <1>1, <1>4, <1>5 DEF SignInInv, Network

\* A request of the page, by a page that differs in its step.
LEMMA SignInAsks ==
  ASSUME SignInInv, NEW what \in {"me", "bootstrap", "sign_in", "sign_out"}, NEW arg, NEW p,
         Web!Asks(what, arg, p), p.name = "sign_in", DOMAIN p = SignInFields,
         DOMAIN s2' = DOMAIN s2, s2'.provider = s2.provider, UNCHANGED <<s3, s7>>,
         s2.provider = "cognito" => what \in {"me", "bootstrap"}
  PROVE  SignInInv'
  <1>1. RequestsRight'
    BY AskedRight DEF SignInInv
  <1>2. /\ s1' = p
        /\ DOMAIN s4' = DOMAIN s4 \cup {s5'}
        /\ \A c \in DOMAIN s4 : s4'[c] = s4[c]
        /\ s4'[s5'].what = what /\ s4'[s5'].answer = "none"
    BY AsksIs DEF SignInInv
  <1> QED
    BY <1>1, <1>2 DEF SignInInv

\* An answer is taken; the hint stays, or is gone, or was earned by it.
LEMMA SignInTakes ==
  ASSUME SignInInv, NEW c \in DOMAIN s4, Web!Taken(c),
         s1'.name = "sign_in", DOMAIN s1' = SignInFields,
         DOMAIN s2' = DOMAIN s2, s2'.provider = s2.provider,
         s3' => s3 \/ (s4[c].what \in {"me", "bootstrap", "sign_in"} /\ s4[c].answer = "ok")
  PROVE  SignInInv'
  <1>1. RequestsRight'
    BY TakenRight DEF SignInInv
  <1>2. /\ s7' = s7 /\ DOMAIN s4' = DOMAIN s4 \ {c}
        /\ \A d \in DOMAIN s4 \ {c} : s4'[d] = s4[d]
    BY TakenIs DEF SignInInv
  <1> QED
    BY <1>1, <1>2 DEF SignInInv

LEMMA SettledKept ==
  ASSUME SignInInv, NEW c \in DOMAIN s4,
         Web!SessionLoaded(c) \/ Web!ProfileSettled(c) \/ Web!SignOutSettled(c)
  PROVE  SignInInv'
  <1>1. CASE Web!SessionLoaded(c)
    BY <1>1, SignInTakes DEF Web!SessionLoaded, Web!Ok, SignInInv
  <1>2. CASE Web!ProfileSettled(c)
    <2>1. DOMAIN s2' = DOMAIN s2 /\ s2'.provider = s2.provider
      <3>1. s2' = s2 \/ s2' \in Web!SignedOut(s2)
        BY <1>2 DEF Web!ProfileSettled
      <3> QED
        BY <3>1, SignedOutIs DEF SignInInv
    <2>2. PICK step : step = IF Web!Ok(c) THEN "in" ELSE "form"
      OBVIOUS
    <2>3. s1' = [s1 EXCEPT !.waits = Web!NoCall, !.step = step]
      BY <1>2, <2>2 DEF Web!ProfileSettled
    <2>4. s1'.name = "sign_in" /\ DOMAIN s1' = SignInFields
      BY <2>3 DEF SignInInv, SignInFields
    <2>5. Web!Taken(c) /\ (s3' => s3 \/ s4[c].answer = "ok")
          /\ s4[c].what \in {"bootstrap", "sign_in"}
      BY <1>2 DEF Web!ProfileSettled, Web!Ok
    <2> QED
      BY <2>1, <2>4, <2>5, SignInTakes
  <1>3. CASE Web!SignOutSettled(c)
    <2>1. /\ s1' = [s1 EXCEPT !.waits = Web!NoCall, !.step = "form", !.mfa = FALSE]
          /\ s3' = FALSE /\ s2' = s2 /\ Web!Taken(c)
      BY <1>3 DEF Web!SignOutSettled
    <2>2. s1'.name = "sign_in" /\ DOMAIN s1' = SignInFields
      BY <2>1 DEF SignInInv, SignInFields
    <2>3. ~s3'
      BY <2>1
    <2> QED
      BY <2>1, <2>2, <2>3, SignInTakes
  <1> QED
    BY <1>1, <1>2, <1>3

LEMMA LoadSessionKept ==
  ASSUME SignInInv, Web!LoadSession
  PROVE  SignInInv'
  BY SignInAsks DEF Web!LoadSession, SignInInv

\* Steps of the page alone.
LEMMA SignInStays ==
  ASSUME SignInInv, s1'.name = "sign_in", DOMAIN s1' = SignInFields,
         DOMAIN s2' = DOMAIN s2, s2'.provider = s2.provider, UNCHANGED <<s4, s5, s7>>,
         s3' => s3
  PROVE  SignInInv'
  BY DEF SignInInv, RequestsRight

LEMMA HandleSubmitKept ==
  ASSUME SignInInv, Web!HandleSubmit
  PROVE  SignInInv'
  <1>1. UNCHANGED <<s3, s7>>
    BY DEF Web!HandleSubmit
  <1>2. DOMAIN s2' = DOMAIN s2 /\ s2'.provider = s2.provider
    <2>1. s2' = s2 \/ s2' = [s2 EXCEPT !.tokens = "fresh"]
      BY DEF Web!HandleSubmit
    <2> QED
      BY <2>1 DEF SignInInv, RequestsRight
  <1>3. PICK p : p = [s1 EXCEPT !.step = "profile", !.waits = Web!Next1]
    OBVIOUS
  <1>4. p.name = "sign_in" /\ DOMAIN p = SignInFields
    BY <1>3 DEF SignInInv, SignInFields
  <1>5. CASE s2.provider = "cognito" /\ Web!Asks("bootstrap", <<>>, p)
    BY <1>1, <1>2, <1>4, <1>5, SignInAsks
  <1>6. CASE s2.provider # "cognito" /\ Web!Asks("sign_in", <<>>, p)
    BY <1>1, <1>2, <1>4, <1>6, SignInAsks
  <1>7. CASE /\ s1' = [s1 EXCEPT !.mfa = TRUE] \/ s1' = [s1 EXCEPT !.step = "elsewhere"]
             /\ UNCHANGED <<s2, s4, s5>>
    <2>1. s1'.name = "sign_in" /\ DOMAIN s1' = SignInFields
      BY <1>7 DEF SignInInv, SignInFields
    <2> QED
      BY <1>1, <1>2, <1>7, <2>1, SignInStays
  <1> QED
    BY <1>3, <1>5, <1>6, <1>7 DEF Web!HandleSubmit, Web!Cognito

LEMMA SignOutKept ==
  ASSUME SignInInv, Web!SignOut
  PROVE  SignInInv'
  <1>1. UNCHANGED s7
    BY DEF Web!SignOut
  <1>2. DOMAIN s2' = DOMAIN s2 /\ s2'.provider = s2.provider
    <2>1. s2' = s2 \/ s2' \in Web!SignedOut(s2)
      BY DEF Web!SignOut
    <2> QED
      BY <2>1, SignedOutIs DEF SignInInv
  <1>3. CASE Web!Cognito
    <2>1. /\ s3' = FALSE /\ UNCHANGED <<s4, s5>>
          /\ s1' = [s1 EXCEPT !.step = "form", !.mfa = FALSE]
      BY <1>3 DEF Web!SignOut
    <2>2. s1'.name = "sign_in" /\ DOMAIN s1' = SignInFields /\ ~s3'
      BY <2>1 DEF SignInInv, SignInFields
    <2> QED
      BY <1>1, <1>2, <2>1, <2>2, SignInStays
  <1>4. CASE ~Web!Cognito
    <2>1. PICK p : p = [s1 EXCEPT !.step = "profile", !.waits = Web!Next1]
      OBVIOUS
    <2>2. p.name = "sign_in" /\ DOMAIN p = SignInFields
      BY <2>1 DEF SignInInv, SignInFields
    <2>3. Web!Asks("sign_out", <<>>, p) /\ UNCHANGED s3
      BY <1>4, <2>1 DEF Web!SignOut
    <2> QED
      BY <1>1, <1>2, <1>4, <2>2, <2>3, SignInAsks DEF Web!Cognito
  <1> QED
    BY <1>3, <1>4

LEMMA SignInExpires ==
  ASSUME SignInInv, Web!Expire, UNCHANGED <<s1, s3, s4, s5, s6>>
  PROVE  SignInInv'
  <1>1. s2' = [s2 EXCEPT !.tokens = "stale"] /\ s7' = s7
    BY DEF Web!Expire
  <1>2. DOMAIN s2' = DOMAIN s2 /\ s2'.provider = s2.provider
    BY <1>1 DEF SignInInv, RequestsRight
  <1> QED
    BY <1>1, <1>2, SignInStays DEF SignInInv

LEMMA SignInPromise ==
  ASSUME SignInInv
  PROVE  Web!HintEarned
  BY DEF SignInInv, Web!HintEarned, Web!Cognito

-----------------------------------------------------------------------------
(* The alert settings.                                                          *)
SettingsFields ==
  {"name", "saved", "draft", "saving", "loading", "resending", "failed", "mixed"}

\* Every request is the one a field names; what an answer holds is what the API
\* has until a link changes it, unless a save and a resend overlap.
SettingsInv ==
  /\ RequestsRight
  /\ s1.name = "settings" /\ DOMAIN s1 = SettingsFields
  /\ \A c \in DOMAIN s4 :
       c \in {s1.loading, s1.saving, s1.resending} /\ s4[c].what \in {"load", "save", "resend"}
  /\ s1.loading # 0 => s1.saved = <<>> /\ s1.saving = 0 /\ s1.resending = 0
  /\ s1.saving # 0 /\ s1.resending # 0 => s1.mixed
  /\ ~s1.mixed /\ ~s7.changed =>
       /\ \A c \in DOMAIN s4 : s4[c].answer = "ok" => s4[c].data = s7.preferences
       /\ s1.saved # <<>> /\ ~s1.failed /\ s1.loading = 0 /\ s1.saving = 0 /\ s1.resending = 0
            => s1.saved = s7.preferences

LEMMA BusyIs ==
  ASSUME NEW p
  PROVE  Web!Busy(p) <=> ~(p.loading = 0 /\ p.saving = 0 /\ p.resending = 0)
  BY DEF Web!Busy, Web!NoCall

\* Two requests are a save and a resend, which overlap.
LEMMA OnlyRequest ==
  ASSUME SettingsInv, ~s1.mixed, NEW c \in DOMAIN s4, NEW d \in DOMAIN s4
  PROVE  c = d
  BY DEF SettingsInv, RequestsRight

LEMMA SettingsNetwork ==
  ASSUME SettingsInv, NEW c, Network(c)
  PROVE  SettingsInv'
  <1>1. RequestsRight'
    BY NetworkServer DEF SettingsInv
  <1>2. c \in DOMAIN s4 /\ c \in 1..s5 /\ c # 0 /\ s4[c].what \in {"load", "save", "resend"}
    BY DEF Network, SettingsInv, RequestsRight
  <1>3. ~(s1.loading = 0 /\ s1.saving = 0 /\ s1.resending = 0)
    BY <1>2 DEF SettingsInv
  <1>4. s4'[c].answer = "ok" => s4'[c].data = s7'.preferences
    BY <1>2 DEF Network
  <1>5. ~s1.mixed => \A d \in DOMAIN s4 : d = c
    BY <1>2, OnlyRequest
  <1> QED
    BY <1>1, <1>3, <1>4, <1>5 DEF SettingsInv, Network

LEMMA LoadPreferencesKept ==
  ASSUME SettingsInv, Web!LoadPreferences
  PROVE  SettingsInv'
  <1>1. /\ s1.saved = <<>> /\ s1.loading = 0 /\ s1.saving = 0 /\ s1.resending = 0
        /\ UNCHANGED <<s2, s7>>
    BY BusyIs DEF Web!LoadPreferences
  <1>2. PICK p : p = [s1 EXCEPT !.loading = Web!Next1, !.failed = FALSE]
    OBVIOUS
  <1>3. Web!Asks("load", <<>>, p)
    BY <1>2 DEF Web!LoadPreferences
  <1>4. /\ DOMAIN p = SettingsFields /\ p.name = "settings" /\ p.saved = s1.saved
        /\ p.loading = s5 + 1 /\ p.saving = s1.saving /\ p.resending = s1.resending
        /\ p.mixed = s1.mixed
    BY <1>2 DEF SettingsInv, SettingsFields, Web!Next1
  <1>5. /\ s1' = p /\ s5' = s5 + 1 /\ s5' # 0
        /\ DOMAIN s4' = DOMAIN s4 \cup {s5'}
        /\ s4'[s5'].what = "load" /\ s4'[s5'].answer = "none"
    BY <1>3, AsksIs DEF SettingsInv
  <1>6. RequestsRight'
    BY <1>1, <1>3, AskedRight DEF SettingsInv
  <1>7. DOMAIN s4 = {}
    <2>1. ASSUME NEW c \in DOMAIN s4
          PROVE  FALSE
      <3>1. c \in 1..s5 /\ c # 0
        BY DEF SettingsInv, RequestsRight
      <3> QED
        BY <1>1, <3>1 DEF SettingsInv
    <2> QED
      BY <2>1
  <1>8. \A c \in DOMAIN s4' : c = s5'
    BY <1>5, <1>7
  <1>9. /\ s1'.name = "settings" /\ DOMAIN s1' = SettingsFields
        /\ s1'.loading = s5' /\ s1'.saving = 0 /\ s1'.resending = 0 /\ s1'.saved = <<>>
    BY <1>1, <1>4, <1>5
  <1> QED
    BY <1>5, <1>6, <1>8, <1>9 DEF SettingsInv

LEMMA EditKept ==
  ASSUME SettingsInv, Web!Edit
  PROVE  SettingsInv'
  <1>1. UNCHANGED <<s2, s4, s5, s7>>
    BY DEF Web!Edit
  <1>2. PICK draft : s1' = [s1 EXCEPT !.draft = draft]
    <2>1. \/ s1' = [s1 EXCEPT !.draft.enabled = ~@]
          \/ \E r \in {1, 2} : s1' = [s1 EXCEPT !.draft.rule = r]
      BY DEF Web!Edit
    <2>2. CASE s1' = [s1 EXCEPT !.draft.enabled = ~@]
      BY <2>2
    <2>3. ASSUME NEW r, s1' = [s1 EXCEPT !.draft.rule = r]
          PROVE  \E draft : s1' = [s1 EXCEPT !.draft = draft]
      BY <2>3
    <2> QED
      BY <2>1, <2>2, <2>3
  <1>3. /\ DOMAIN s1' = SettingsFields /\ s1'.name = s1.name /\ s1'.saved = s1.saved
        /\ s1'.loading = s1.loading /\ s1'.saving = s1.saving /\ s1'.resending = s1.resending
        /\ s1'.failed = s1.failed /\ s1'.mixed = s1.mixed
    BY <1>2 DEF SettingsInv, SettingsFields
  <1> QED
    BY <1>1, <1>3 DEF SettingsInv, RequestsRight

LEMMA ChangesAsked ==
  ASSUME SettingsInv, Web!SavePreferences \/ Web!ResendVerification
  PROVE  SettingsInv'
  <1>1. s1.saved # <<>> /\ s1.loading = 0 /\ UNCHANGED <<s2, s7>>
    BY DEF Web!SavePreferences, Web!ResendVerification, SettingsInv
  <1>2. CASE Web!SavePreferences
    <2>1. PICK mixed : mixed = (s1.resending # 0)
      OBVIOUS
    <2>2. PICK p : p = [s1 EXCEPT !.saving = Web!Next1, !.failed = FALSE, !.mixed = mixed]
      OBVIOUS
    <2>3. Web!Asks("save", s1.draft, p) /\ s1.saving = 0
      BY <1>2, <2>1, <2>2 DEF Web!SavePreferences, Web!NoCall
    <2>4. /\ DOMAIN p = SettingsFields /\ p.name = "settings"
          /\ p.loading = 0 /\ p.saving = s5 + 1 /\ p.resending = s1.resending
          /\ p.mixed = mixed
      BY <1>1, <2>2 DEF SettingsInv, SettingsFields, Web!Next1
    <2>5. /\ s1' = p /\ s5' = s5 + 1 /\ s5' # 0
          /\ DOMAIN s4' = DOMAIN s4 \cup {s5'}
          /\ \A c \in DOMAIN s4 : s4'[c] = s4[c]
          /\ s4'[s5'].what = "save" /\ s4'[s5'].answer = "none"
      BY <2>3, AsksIs DEF SettingsInv
    <2>6. RequestsRight'
      BY <1>1, <2>3, AskedRight DEF SettingsInv
    <2>7. \A c \in DOMAIN s4 : c = s1.resending /\ s1.resending # 0
      BY <1>1, <2>3 DEF SettingsInv, RequestsRight
    <2> QED
      BY <1>1, <2>1, <2>4, <2>5, <2>6, <2>7 DEF SettingsInv
  <1>3. CASE Web!ResendVerification
    <2>1. PICK mixed : mixed = (s1.saving # 0)
      OBVIOUS
    <2>2. PICK p : p = [s1 EXCEPT !.resending = Web!Next1, !.failed = FALSE, !.mixed = mixed]
      OBVIOUS
    <2>3. Web!Asks("resend", <<>>, p) /\ s1.resending = 0
      BY <1>3, <2>1, <2>2 DEF Web!ResendVerification, Web!NoCall
    <2>4. /\ DOMAIN p = SettingsFields /\ p.name = "settings"
          /\ p.loading = 0 /\ p.resending = s5 + 1 /\ p.saving = s1.saving
          /\ p.mixed = mixed
      BY <1>1, <2>2 DEF SettingsInv, SettingsFields, Web!Next1
    <2>5. /\ s1' = p /\ s5' = s5 + 1 /\ s5' # 0
          /\ DOMAIN s4' = DOMAIN s4 \cup {s5'}
          /\ \A c \in DOMAIN s4 : s4'[c] = s4[c]
          /\ s4'[s5'].what = "resend" /\ s4'[s5'].answer = "none"
      BY <2>3, AsksIs DEF SettingsInv
    <2>6. RequestsRight'
      BY <1>1, <2>3, AskedRight DEF SettingsInv
    <2>7. \A c \in DOMAIN s4 : c = s1.saving /\ s1.saving # 0
      BY <1>1, <2>3 DEF SettingsInv, RequestsRight
    <2> QED
      BY <1>1, <2>1, <2>4, <2>5, <2>6, <2>7 DEF SettingsInv
  <1> QED
    BY <1>2, <1>3

LEMMA PreferencesKept ==
  ASSUME SettingsInv, NEW c \in DOMAIN s4, Web!PreferencesSettled(c)
  PROVE  SettingsInv'
  <1>1. /\ s7' = s7 /\ DOMAIN s4' = DOMAIN s4 \ {c}
        /\ \A d \in DOMAIN s4 \ {c} : s4'[d] = s4[d]
    BY TakenIs DEF Web!PreferencesSettled, SettingsInv
  <1>2. RequestsRight'
    BY TakenRight DEF Web!PreferencesSettled, SettingsInv
  <1> DEFINE Over(n) == IF n = c THEN 0 ELSE n
  <1>3. PICK done : done = [s1 EXCEPT !.loading = Over(@), !.saving = Over(@),
                                      !.resending = Over(@)]
    OBVIOUS
  <1>4. /\ DOMAIN done = SettingsFields /\ done.name = "settings" /\ done.mixed = s1.mixed
        /\ done.loading = Over(s1.loading) /\ done.saving = Over(s1.saving)
        /\ done.resending = Over(s1.resending) /\ done.saved = s1.saved
        /\ done.failed = s1.failed
    BY <1>3 DEF SettingsInv, SettingsFields
  <1>5. s1' = IF Web!Ok(c) THEN [done EXCEPT !.saved = s4[c].data,
                                             !.draft = Web!Draft(s4[c].data)]
              ELSE [done EXCEPT !.failed = TRUE]
    BY <1>3 DEF Web!PreferencesSettled, Web!NoCall
  <1>6. /\ DOMAIN s1' = SettingsFields /\ s1'.name = "settings" /\ s1'.mixed = s1.mixed
        /\ s1'.loading = done.loading /\ s1'.saving = done.saving
        /\ s1'.resending = done.resending
        /\ s4[c].answer = "ok" => s1'.saved = s4[c].data
        /\ s4[c].answer # "ok" => s1'.failed /\ s1'.saved = s1.saved
    <2>1. CASE s4[c].answer = "ok"
      <3>1. s1' = [done EXCEPT !.saved = s4[c].data, !.draft = Web!Draft(s4[c].data)]
        BY <1>5, <2>1 DEF Web!Ok
      <3> QED
        BY <1>4, <2>1, <3>1 DEF SettingsFields
    <2>2. CASE s4[c].answer # "ok"
      <3>1. s1' = [done EXCEPT !.failed = TRUE]
        BY <1>5, <2>2 DEF Web!Ok
      <3> QED
        BY <1>4, <2>2, <3>1 DEF SettingsFields
    <2> QED
      BY <2>1, <2>2
  <1>7. /\ s1'.loading = Over(s1.loading) /\ s1'.saving = Over(s1.saving)
        /\ s1'.resending = Over(s1.resending) /\ c # 0
    BY <1>4, <1>6 DEF SettingsInv, RequestsRight
  <1>8. s1.loading # 0 => c = s1.loading
    BY <1>7 DEF SettingsInv
  <1>9. \A d \in DOMAIN s4' : d \in {s1'.loading, s1'.saving, s1'.resending}
    BY <1>1, <1>7 DEF SettingsInv
  <1>10. ~s1.mixed /\ ~s7.changed /\ s4[c].answer = "ok" => s1'.saved = s7.preferences
    BY <1>6 DEF SettingsInv
  <1> QED
    BY <1>1, <1>2, <1>6, <1>7, <1>8, <1>9, <1>10 DEF SettingsInv

\* A link in an email changes the preferences; tokens expire.
LEMMA SettingsOutside ==
  ASSUME SettingsInv, Web!Expire \/ Web!FollowLink, UNCHANGED <<s1, s3, s4, s5, s6>>
  PROVE  SettingsInv'
  <1>1. CASE Web!Expire
    <2>1. s2' = [s2 EXCEPT !.tokens = "stale"] /\ s7' = s7
      BY <1>1 DEF Web!Expire
    <2>2. DOMAIN s2' = DOMAIN s2
      BY <2>1
    <2> QED
      BY <2>1, <2>2 DEF SettingsInv, RequestsRight
  <1>2. CASE Web!FollowLink
    <2>1. PICK p : s7' = [s7 EXCEPT !.preferences = p, !.changed = TRUE]
      <3>1. \/ s7' = [s7 EXCEPT !.preferences.status = "verified", !.changed = TRUE]
            \/ s7' = [s7 EXCEPT !.preferences.enabled = FALSE, !.changed = TRUE]
        BY <1>2 DEF Web!FollowLink
      <3>2. CASE s7' = [s7 EXCEPT !.preferences.status = "verified", !.changed = TRUE]
        BY <3>2
      <3>3. CASE s7' = [s7 EXCEPT !.preferences.enabled = FALSE, !.changed = TRUE]
        BY <3>3
      <3> QED
        BY <3>1, <3>2, <3>3
    <2>2. s7'.changed /\ DOMAIN s7' = DOMAIN s7 /\ s2' = s2
      BY <1>2, <2>1 DEF Web!FollowLink, SettingsInv, RequestsRight, ServerFields
    <2> QED
      BY <2>2 DEF SettingsInv, RequestsRight
  <1> QED
    BY <1>1, <1>2

LEMMA SettingsPromise ==
  ASSUME SettingsInv
  PROVE  Web!SettingsShown
  BY BusyIs DEF SettingsInv, Web!SettingsShown

-----------------------------------------------------------------------------
(* The announcements: what the operators on sequences do.                       *)
Distinct(q) == \A i, j \in 1..Len(q) : q[i] = q[j] => i = j

LEMMA MinIs ==
  ASSUME NEW a \in Int, NEW b \in Int
  PROVE  Web!Min({a, b}) = IF a <= b THEN a ELSE b
  <1>1. PICK m : m = IF a <= b THEN a ELSE b
    OBVIOUS
  <1>2. m \in {a, b} /\ \A y \in {a, b} : m <= y
    BY <1>1
  <1>3. \A x \in {a, b} : (\A y \in {a, b} : x <= y) => x = m
    BY <1>1
  <1> QED
    BY <1>1, <1>2, <1>3 DEF Web!Min

\* A page of a feed is its part from an offset on.
LEMMA PageOfIs ==
  ASSUME NEW S, NEW q \in Seq(S), NEW o \in Nat, NEW d, d = Web!PageOf(q, o)
  PROVE  /\ d \in Seq(S)
         /\ Len(d) # PageSize => Len(q) <= o + Len(d)
         /\ \A k \in 1..Len(d) : o + k \in 1..Len(q) /\ d[k] = q[o + k]
         /\ \A k \in 1..Len(q) : o < k /\ k <= o + Len(d) => k - o \in 1..Len(d)
  <1>1. PICK n \in Nat : n = Len(q)
    OBVIOUS
  <1>2. PICK m : m = IF o + PageSize <= n THEN o + PageSize ELSE n
    OBVIOUS
  <1>3. o + PageSize \in Int /\ n \in Int
    BY PageAssumption
  <1>4. d = SubSeq(q, o + 1, m)
    BY <1>1, <1>2, <1>3, MinIs DEF Web!PageOf
  <1>5. m \in Int /\ o + 1 \in Int /\ m <= n /\ m <= o + PageSize /\ (m = o + PageSize \/ m = n)
    BY <1>2, PageAssumption
  <1>6. \A i \in (o + 1)..m : q[i] \in S
    <2>1. \A i \in (o + 1)..m : i \in 1..n
      BY <1>5
    <2> QED
      BY <1>1, <2>1
  <1>7. /\ d \in Seq(S)
        /\ Len(d) = IF o + 1 <= m THEN m - (o + 1) + 1 ELSE 0
        /\ \A i \in 1..(m - (o + 1) + 1) : d[i] = q[(o + 1) + i - 1]
    BY <1>4, <1>5, <1>6, SubSeqProperties
  <1>8. CASE o + 1 <= m
    <2>1. Len(d) = m - o
      BY <1>5, <1>7, <1>8
    <2>2. \A k \in 1..Len(d) : d[k] = q[o + k]
      <3> SUFFICES ASSUME NEW k \in 1..Len(d)
                   PROVE  d[k] = q[o + k]
        OBVIOUS
      <3>1. k \in 1..(m - (o + 1) + 1) /\ (o + 1) + k - 1 = o + k
        BY <1>5, <2>1
      <3> QED
        BY <1>7, <3>1
    <2>3. \A k \in 1..Len(d) : o + k \in 1..n
      BY <1>5, <2>1
    <2>4. Len(d) # PageSize => n <= o + Len(d)
      BY <1>5, <2>1, PageAssumption
    <2>5. \A k \in 1..n : o < k /\ k <= o + Len(d) => k - o \in 1..Len(d)
      BY <1>5, <2>1
    <2> QED
      BY <1>1, <1>7, <2>2, <2>3, <2>4, <2>5
  <1>9. CASE ~(o + 1 <= m)
    <2>1. Len(d) = 0 /\ m <= o
      BY <1>5, <1>7, <1>9
    <2>2. Len(d) # PageSize => n <= o
      BY <1>5, <2>1, PageAssumption
    <2> QED
      BY <1>1, <1>7, <2>1, <2>2
  <1> QED
    BY <1>8, <1>9

\* An announcement published at a place moves those from there on by one.
LEMMA InsertIs ==
  ASSUME NEW S, NEW q \in Seq(S), NEW i \in 1..(Len(q) + 1), NEW e \in S,
         NEW d, d = Web!InsertAt(q, i, e)
  PROVE  /\ d \in Seq(S) /\ Len(d) = Len(q) + 1 /\ d[i] = e
         /\ \A k \in 1..Len(q) : k < i => d[k] = q[k]
         /\ \A k \in 1..Len(q) : i <= k => d[k + 1] = q[k]
  <1>1. PICK n \in Nat : n = Len(q)
    OBVIOUS
  <1>2. PICK a : a = SubSeq(q, 1, i - 1)
    OBVIOUS
  <1>3. PICK b : b = SubSeq(q, i, n)
    OBVIOUS
  <1>4. i \in Int /\ i - 1 \in Int /\ 1 <= i /\ i <= n + 1
    BY <1>1
  <1>5. /\ a \in Seq(S) /\ Len(a) = i - 1
        /\ \A k \in 1..(i - 1) : a[k] = q[k]
    <2>1. \A k \in 1..(i - 1) : q[k] \in S
      BY <1>1, <1>4
    <2>2. /\ a \in Seq(S) /\ Len(a) = IF 1 <= i - 1 THEN (i - 1) - 1 + 1 ELSE 0
          /\ \A k \in 1..((i - 1) - 1 + 1) : a[k] = q[1 + k - 1]
      BY <1>2, <1>4, <2>1, SubSeqProperties
    <2>3. \A k \in 1..(i - 1) : k \in 1..((i - 1) - 1 + 1) /\ 1 + k - 1 = k
      BY <1>4
    <2>4. Len(a) = i - 1
      BY <1>4, <2>2
    <2> QED
      BY <2>2, <2>3, <2>4
  <1>6. /\ b \in Seq(S) /\ Len(b) = n - i + 1
        /\ \A k \in i..n : b[k - i + 1] = q[k]
    <2>1. \A k \in i..n : q[k] \in S
      BY <1>1, <1>4
    <2>2. /\ b \in Seq(S) /\ Len(b) = IF i <= n THEN n - i + 1 ELSE 0
          /\ \A k \in 1..(n - i + 1) : b[k] = q[i + k - 1]
      BY <1>3, <1>4, <2>1, SubSeqProperties
    <2>3. \A k \in i..n : k - i + 1 \in 1..(n - i + 1) /\ i + (k - i + 1) - 1 = k
      BY <1>4
    <2>4. Len(b) = n - i + 1
      BY <1>4, <2>2
    <2> QED
      BY <2>2, <2>3, <2>4
  <1>7. <<e>> \in Seq(S) /\ Len(<<e>>) = 1 /\ <<e>>[1] = e
    OBVIOUS
  <1>8. PICK f : f = a \o <<e>>
    OBVIOUS
  <1>9. /\ f \in Seq(S) /\ Len(f) = Len(a) + 1
        /\ \A k \in 1..(Len(a) + 1) :
             f[k] = IF k <= Len(a) THEN a[k] ELSE <<e>>[k - Len(a)]
    BY <1>5, <1>7, <1>8, ConcatProperties
  <1>10. /\ f \in Seq(S) /\ Len(f) = i /\ f[i] = e /\ \A k \in 1..(i - 1) : f[k] = q[k]
    <2>1. Len(f) = i
      BY <1>4, <1>5, <1>9
    <2>2. i \in 1..(Len(a) + 1) /\ ~(i <= Len(a)) /\ i - Len(a) = 1
      BY <1>4, <1>5
    <2>3. f[i] = e
      BY <1>7, <1>9, <2>2
    <2>4. \A k \in 1..(i - 1) : k \in 1..(Len(a) + 1) /\ k <= Len(a)
      BY <1>4, <1>5
    <2> QED
      BY <1>5, <1>9, <2>1, <2>3, <2>4
  <1>11. d = f \o b
    BY <1>1, <1>2, <1>3, <1>8 DEF Web!InsertAt
  <1>12. /\ d \in Seq(S) /\ Len(d) = Len(f) + Len(b)
         /\ \A k \in 1..(Len(f) + Len(b)) : d[k] = IF k <= Len(f) THEN f[k] ELSE b[k - Len(f)]
    <2>1. f \in Seq(S) /\ b \in Seq(S)
      BY <1>6, <1>10
    <2> QED
      BY <1>11, <2>1, ConcatProperties
  <1>13. Len(d) = n + 1
    BY <1>4, <1>6, <1>10, <1>12
  <1>14. \A k \in 1..i : d[k] = f[k]
    BY <1>4, <1>6, <1>10, <1>12
  <1>15. \A k \in i..n : d[k + 1] = q[k]
    <2> SUFFICES ASSUME NEW k \in i..n
                 PROVE  d[k + 1] = q[k]
      OBVIOUS
    <2>1. k + 1 \in 1..(Len(f) + Len(b)) /\ ~(k + 1 <= Len(f)) /\ k + 1 - Len(f) = k - i + 1
      BY <1>4, <1>6, <1>10
    <2>2. d[k + 1] = b[(k + 1) - Len(f)]
      BY <1>12, <2>1
    <2> QED
      BY <1>6, <2>1, <2>2
  <1>16. \A k \in 1..n : k < i => k \in 1..(i - 1) /\ k \in 1..i
    BY <1>4
  <1>17. \A k \in 1..n : i <= k => k \in i..n
    BY <1>4
  <1>18. i \in 1..i
    BY <1>4
  <1> QED
    BY <1>1, <1>10, <1>12, <1>13, <1>14, <1>15, <1>16, <1>17, <1>18

LEMMA RemoveIs ==
  ASSUME NEW S, NEW q \in Seq(S), NEW i \in 1..Len(q), NEW d, d = Web!RemoveAt(q, i)
  PROVE  /\ d \in Seq(S) /\ Len(d) = Len(q) - 1
         /\ \A k \in 1..Len(d) : d[k] = IF k < i THEN q[k] ELSE q[k + 1]
  <1>1. PICK n \in Nat : n = Len(q)
    OBVIOUS
  <1>2. PICK a : a = SubSeq(q, 1, i - 1)
    OBVIOUS
  <1>3. PICK b : b = SubSeq(q, i + 1, n)
    OBVIOUS
  <1>4. i \in Int /\ i - 1 \in Int /\ i + 1 \in Int /\ 1 <= i /\ i <= n
    BY <1>1
  <1>5. /\ a \in Seq(S) /\ Len(a) = i - 1
        /\ \A k \in 1..(i - 1) : a[k] = q[k]
    <2>1. \A k \in 1..(i - 1) : q[k] \in S
      BY <1>1, <1>4
    <2>2. /\ a \in Seq(S) /\ Len(a) = IF 1 <= i - 1 THEN (i - 1) - 1 + 1 ELSE 0
          /\ \A k \in 1..((i - 1) - 1 + 1) : a[k] = q[1 + k - 1]
      BY <1>2, <1>4, <2>1, SubSeqProperties
    <2>3. \A k \in 1..(i - 1) : k \in 1..((i - 1) - 1 + 1) /\ 1 + k - 1 = k
      BY <1>4
    <2>4. Len(a) = i - 1
      BY <1>4, <2>2
    <2> QED
      BY <2>2, <2>3, <2>4
  <1>6. /\ b \in Seq(S) /\ Len(b) = n - i
        /\ \A k \in 1..(n - i) : b[k] = q[i + k]
    <2>1. \A k \in (i + 1)..n : q[k] \in S
      BY <1>1, <1>4
    <2>2. /\ b \in Seq(S) /\ Len(b) = IF i + 1 <= n THEN n - (i + 1) + 1 ELSE 0
          /\ \A k \in 1..(n - (i + 1) + 1) : b[k] = q[(i + 1) + k - 1]
      BY <1>1, <1>3, <1>4, <2>1, SubSeqProperties
    <2>3. \A k \in 1..(n - i) : k \in 1..(n - (i + 1) + 1) /\ (i + 1) + k - 1 = i + k
      BY <1>4
    <2>4. Len(b) = n - i
      BY <1>4, <2>2
    <2> QED
      BY <2>2, <2>3, <2>4
  <1>7. d = a \o b
    BY <1>1, <1>2, <1>3 DEF Web!RemoveAt
  <1>8. /\ d \in Seq(S) /\ Len(d) = Len(a) + Len(b)
        /\ \A k \in 1..(Len(a) + Len(b)) : d[k] = IF k <= Len(a) THEN a[k] ELSE b[k - Len(a)]
    <2>1. a \in Seq(S) /\ b \in Seq(S)
      BY <1>5, <1>6
    <2> QED
      BY <1>7, <2>1, ConcatProperties
  <1>9. Len(d) = n - 1
    BY <1>4, <1>5, <1>6, <1>8
  <1>10. ASSUME NEW k \in 1..Len(d)
         PROVE  d[k] = IF k < i THEN q[k] ELSE q[k + 1]
    <2>1. CASE k < i
      <3>1. k \in 1..(Len(a) + Len(b)) /\ k <= Len(a) /\ k \in 1..(i - 1)
        BY <1>4, <1>5, <1>8, <2>1
      <3> QED
        BY <1>5, <1>8, <2>1, <3>1
    <2>2. CASE ~(k < i)
      <3>1. /\ k \in 1..(Len(a) + Len(b)) /\ ~(k <= Len(a)) /\ k - Len(a) \in 1..(n - i)
            /\ i + (k - Len(a)) = k + 1
        BY <1>4, <1>5, <1>6, <1>8, <2>2
      <3> QED
        BY <1>6, <1>8, <2>2, <3>1
    <2> QED
      BY <2>1, <2>2
  <1> QED
    BY <1>1, <1>8, <1>9, <1>10

LEMMA CardinalityIs == \A T : Web!Cardinality(T) = Cardinality(T)
  BY DEF Web!Cardinality, Cardinality

\* The n-th of a set of numbers is found by how many come up to it.
UpTo(K, k) == {j \in K : j <= k}

LEMMA NthIs ==
  ASSUME NEW m \in Nat, NEW K \in SUBSET (1..m)
  PROVE  /\ Cardinality(K) \in Nat
         /\ \A n \in 1..Cardinality(K) : Web!Nth(K, n) \in K
         /\ \A n, l \in 1..Cardinality(K) : Web!Nth(K, n) = Web!Nth(K, l) => n = l
         /\ \A k \in K : \E n \in 1..Cardinality(K) : Web!Nth(K, n) = k
  <1>1. IsFiniteSet(1..m)
    BY FS_Interval
  <1>2. IsFiniteSet(K) /\ Cardinality(K) \in Nat
    BY <1>1, FS_Subset, FS_CardinalityType
  <1>3. PICK c \in Nat : c = Cardinality(K)
    BY <1>2
  <1>4. \A k \in K : /\ IsFiniteSet(UpTo(K, k)) /\ Cardinality(UpTo(K, k)) \in Nat
                     /\ Cardinality(UpTo(K, k)) <= c /\ Cardinality(UpTo(K, k)) # 0
    <2> SUFFICES ASSUME NEW k \in K
                 PROVE  /\ IsFiniteSet(UpTo(K, k)) /\ Cardinality(UpTo(K, k)) \in Nat
                        /\ Cardinality(UpTo(K, k)) <= c /\ Cardinality(UpTo(K, k)) # 0
      OBVIOUS
    <2>1. UpTo(K, k) \in SUBSET K /\ k \in UpTo(K, k)
      BY DEF UpTo
    <2>2. IsFiniteSet(UpTo(K, k)) /\ Cardinality(UpTo(K, k)) <= c
      BY <1>2, <1>3, <2>1, FS_Subset
    <2>3. Cardinality(UpTo(K, k)) \in Nat
      BY <2>2, FS_CardinalityType
    <2>4. Cardinality(UpTo(K, k)) # 0
      BY <2>1, <2>2, FS_EmptySet
    <2> QED
      BY <2>2, <2>3, <2>4
  <1>5. \A k, l \in K : Cardinality(UpTo(K, k)) = Cardinality(UpTo(K, l)) => k = l
    <2>1. ASSUME NEW k \in K, NEW l \in K, k < l
          PROVE  Cardinality(UpTo(K, k)) # Cardinality(UpTo(K, l))
      <3>1. UpTo(K, k) \in SUBSET UpTo(K, l)
        <4> SUFFICES ASSUME NEW j \in UpTo(K, k)
                     PROVE  j \in UpTo(K, l)
          OBVIOUS
        <4>1. j \in K /\ j <= k
          BY DEF UpTo
        <4>2. j \in Int /\ k \in Int /\ l \in Int
          BY <4>1
        <4>3. j <= l
          BY <2>1, <4>1, <4>2
        <4> QED
          BY <4>1, <4>3 DEF UpTo
      <3>2. l \in UpTo(K, l) /\ l \notin UpTo(K, k)
        BY <2>1 DEF UpTo
      <3>3. Cardinality(UpTo(K, l)) = Cardinality(UpTo(K, k)) => UpTo(K, l) = UpTo(K, k)
        BY <1>4, <3>1, FS_Subset
      <3> QED
        BY <3>2, <3>3
    <2>2. \A k, l \in K : k < l \/ l < k \/ k = l
      OBVIOUS
    <2> QED
      BY <2>1, <2>2
  <1>6. PICK f : f = [k \in K |-> Cardinality(UpTo(K, k))]
    OBVIOUS
  <1>7. f \in [K -> 1..c] /\ \A k \in K : f[k] = Cardinality(UpTo(K, k))
    BY <1>4, <1>6
  <1>8. f \in Injection(K, 1..c)
    BY <1>5, <1>7 DEF Injection, IsInjective
  <1>9. f \in Surjection(K, 1..c)
    <2>1. IsFiniteSet(1..c) /\ Cardinality(1..c) = c
      <3>1. 1 \in Int /\ c \in Int
        OBVIOUS
      <3>2. IsFiniteSet(1..c) /\ Cardinality(1..c) = IF 1 > c THEN 0 ELSE c - 1 + 1
        BY <3>1, FS_Interval
      <3>3. c = IF 1 > c THEN 0 ELSE c - 1 + 1
        OBVIOUS
      <3> QED
        BY <3>2, <3>3
    <2> QED
      BY <1>3, <1>8, <2>1, FS_Injection
  <1>10. \A n \in 1..c : \E k \in K : Cardinality(UpTo(K, k)) = n
    BY <1>7, <1>9 DEF Surjection
  <1>11. \A n \in 1..c : Web!Nth(K, n) \in K /\ Cardinality(UpTo(K, Web!Nth(K, n))) = n
    <2>1. \A n : Web!Nth(K, n) = CHOOSE k \in K : Cardinality(UpTo(K, k)) = n
      BY CardinalityIs DEF Web!Nth, UpTo
    <2> QED
      BY <1>10, <2>1
  <1>12. \A k \in K : \E n \in 1..c : Web!Nth(K, n) = k
    <2> SUFFICES ASSUME NEW k \in K
                 PROVE  \E n \in 1..c : Web!Nth(K, n) = k
      OBVIOUS
    <2>1. PICK n \in 1..c : n = Cardinality(UpTo(K, k))
      BY <1>7
    <2>2. Web!Nth(K, n) \in K /\ Cardinality(UpTo(K, Web!Nth(K, n))) = Cardinality(UpTo(K, k))
      BY <1>11, <2>1
    <2>3. Web!Nth(K, n) = k
      BY <1>5, <2>2
    <2> QED
      BY <2>3
  <1> QED
    BY <1>3, <1>11, <1>12

\* What is appended is what the cards do not show yet, each once.
LEMMA AppendIs ==
  ASSUME NEW S, NEW cards \in Seq(S), NEW data \in Seq(S), Distinct(cards), Distinct(data),
         NEW d, d = Web!AppendAnnouncementPage(cards, data)
  PROVE  /\ d \in Seq(S) /\ Distinct(d)
         /\ \A x : Web!Contains(cards, x) \/ Web!Contains(data, x) => Web!Contains(d, x)
  <1>1. PICK K : K = {k \in DOMAIN data : ~Web!Contains(cards, data[k])}
    OBVIOUS
  <1>2. PICK m \in Nat : m = Len(data) /\ DOMAIN data = 1..m
    OBVIOUS
  <1>3. PICK c : c = Cardinality(K)
    OBVIOUS
  <1>4. PICK e : e = [n \in 1..c |-> data[Web!Nth(K, n)]]
    OBVIOUS
  <1>5. d = cards \o e
    <2>1. d = cards \o [n \in 1..Web!Cardinality(K) |-> data[Web!Nth(K, n)]]
      BY <1>1 DEF Web!AppendAnnouncementPage
    <2> QED
      BY <1>3, <1>4, <2>1, CardinalityIs
  <1>6. /\ c \in Nat /\ \A n \in 1..c : Web!Nth(K, n) \in K
        /\ \A n, l \in 1..c : Web!Nth(K, n) = Web!Nth(K, l) => n = l
        /\ \A k \in K : \E n \in 1..c : Web!Nth(K, n) = k
    <2>1. K \in SUBSET (1..m)
      BY <1>1, <1>2
    <2> QED
      BY <1>3, <2>1, NthIs
  <1>7. /\ e \in Seq(S) /\ Len(e) = c /\ \A n \in 1..c : e[n] = data[Web!Nth(K, n)]
    <2>1. \A n \in 1..c : data[Web!Nth(K, n)] \in S
      BY <1>1, <1>2, <1>6
    <2> QED
      BY <1>4, <1>6, <2>1
  <1>8. PICK l \in Nat : l = Len(cards)
    OBVIOUS
  <1>9. /\ d \in Seq(S) /\ Len(d) = l + c
        /\ \A k \in 1..(l + c) : d[k] = IF k <= l THEN cards[k] ELSE e[k - l]
    <2>1. e \in Seq(S) /\ Len(e) = c
      BY <1>7
    <2> QED
      BY <1>5, <1>8, <2>1, ConcatProperties
  <1>10. \A n \in 1..c : \A k \in 1..l : e[n] # cards[k]
    <2>1. \A n \in 1..c : ~Web!Contains(cards, e[n])
      BY <1>1, <1>6, <1>7
    <2> QED
      BY <1>8, <2>1 DEF Web!Contains
  <1>11. \A n, k \in 1..c : e[n] = e[k] => n = k
    <2>1. \A n \in 1..c : Web!Nth(K, n) \in 1..m
      BY <1>1, <1>2, <1>6
    <2> QED
      BY <1>2, <1>6, <1>7, <2>1 DEF Distinct
  <1>12. Distinct(d)
    <2> SUFFICES ASSUME NEW i \in 1..(l + c), NEW j \in 1..(l + c), d[i] = d[j]
                 PROVE  i = j
      BY <1>9 DEF Distinct
    <2>1. \A k \in 1..(l + c) : \/ k \in 1..l /\ k <= l
                                \/ k - l \in 1..c /\ ~(k <= l)
      BY <1>6
    <2>2. CASE i <= l /\ j <= l
      BY <1>8, <1>9, <2>1, <2>2 DEF Distinct
    <2>3. CASE ~(i <= l) /\ ~(j <= l)
      <3>1. i - l = j - l
        BY <1>9, <1>11, <2>1, <2>3
      <3> QED
        BY <1>6, <3>1
    <2>4. CASE i <= l /\ ~(j <= l)
      BY <1>9, <1>10, <2>1, <2>4
    <2>5. CASE ~(i <= l) /\ j <= l
      BY <1>9, <1>10, <2>1, <2>5
    <2> QED
      BY <2>2, <2>3, <2>4, <2>5
  <1>13. ASSUME NEW x, Web!Contains(cards, x)
         PROVE  Web!Contains(d, x)
    <2>1. PICK k \in 1..l : cards[k] = x
      BY <1>8, <1>13 DEF Web!Contains
    <2>2. k \in 1..(l + c) /\ k <= l
      BY <1>6
    <2> QED
      BY <1>9, <2>1, <2>2 DEF Web!Contains
  <1>14. ASSUME NEW x, Web!Contains(data, x), ~Web!Contains(cards, x)
         PROVE  Web!Contains(d, x)
    <2>1. PICK k \in 1..m : data[k] = x
      BY <1>2, <1>14 DEF Web!Contains
    <2>2. k \in K
      BY <1>1, <1>2, <1>14, <2>1
    <2>3. PICK n \in 1..c : Web!Nth(K, n) = k
      BY <1>6, <2>2
    <2>4. l + n \in 1..(l + c) /\ ~(l + n <= l) /\ (l + n) - l = n
      BY <1>6
    <2>5. d[l + n] = x
      BY <1>7, <1>9, <2>1, <2>3, <2>4
    <2> QED
      BY <1>9, <2>4, <2>5 DEF Web!Contains
  <1> QED
    BY <1>9, <1>12, <1>13, <1>14

Announcements(f) == {f} \X (1..(FeedSize + 1))

\* Of the announcements listed at first, those at the first n places of a feed are
\* among the cards or in the data; and all of them are.
Covers(q, f, cards, data, n) ==
  \A i \in 1..FeedSize, k \in 1..Len(q) :
    q[k] = <<f, i>> /\ k <= n => Web!Contains(cards, <<f, i>>) \/ Web!Contains(data, <<f, i>>)
Whole(f, cards, data) ==
  \A i \in 1..FeedSize : Web!Contains(cards, <<f, i>>) \/ Web!Contains(data, <<f, i>>)

FeedRight(q, f) == q \in Seq(Announcements(f)) /\ Distinct(q)

LEMMA NothingContains == \A x : ~Web!Contains(<<>>, x)
  BY DEF Web!Contains

LEMMA ContainsIs ==
  ASSUME NEW q, NEW x
  PROVE  Web!Contains(q, x) <=> \E k \in 1..Len(q) : q[k] = x
  BY DEF Web!Contains

LEMMA PageTyped ==
  ASSUME NEW f, NEW q, FeedRight(q, f), NEW o \in Nat, NEW d, d = Web!PageOf(q, o)
  PROVE  FeedRight(d, f)
  <1>1. q \in Seq(Announcements(f)) /\ Distinct(q)
    BY DEF FeedRight
  <1>2. /\ d \in Seq(Announcements(f))
        /\ \A k \in 1..Len(d) : o + k \in 1..Len(q) /\ d[k] = q[o + k]
    BY <1>1, PageOfIs
  <1>3. ASSUME NEW i \in 1..Len(d), NEW j \in 1..Len(d), d[i] = d[j]
        PROVE  i = j
    <2>1. o + i = o + j
      BY <1>1, <1>2, <1>3 DEF Distinct
    <2>2. i \in Int /\ j \in Int
      OBVIOUS
    <2> QED
      BY <2>1, <2>2
  <1> QED
    BY <1>2, <1>3 DEF FeedRight, Distinct

\* A page asked for at an offset goes on where the cards end.
LEMMA PageRight ==
  ASSUME NEW f, NEW q, FeedRight(q, f), NEW o \in Nat, NEW d, d = Web!PageOf(q, o),
         NEW cards, Covers(q, f, cards, <<>>, o)
  PROVE  /\ FeedRight(d, f)
         /\ Covers(q, f, cards, d, o + Len(d))
         /\ Len(d) # PageSize /\ Whole(f, q, <<>>) => Whole(f, cards, d)
  <1>1. q \in Seq(Announcements(f)) /\ Distinct(q)
    BY DEF FeedRight
  <1>2. /\ d \in Seq(Announcements(f))
        /\ Len(d) # PageSize => Len(q) <= o + Len(d)
        /\ \A k \in 1..Len(d) : o + k \in 1..Len(q) /\ d[k] = q[o + k]
        /\ \A k \in 1..Len(q) : o < k /\ k <= o + Len(d) => k - o \in 1..Len(d)
    BY <1>1, PageOfIs
  <1>4. Covers(q, f, cards, d, o + Len(d))
    <2> SUFFICES ASSUME NEW i \in 1..FeedSize, NEW k \in 1..Len(q), q[k] = <<f, i>>,
                        k <= o + Len(d)
                 PROVE  Web!Contains(cards, <<f, i>>) \/ Web!Contains(d, <<f, i>>)
      BY DEF Covers
    <2>1. CASE k <= o
      BY <2>1, NothingContains DEF Covers
    <2>2. CASE ~(k <= o)
      <3>1. o < k /\ o + (k - o) = k
        BY <2>2
      <3>2. k - o \in 1..Len(d) /\ d[k - o] = <<f, i>>
        BY <1>2, <3>1
      <3> QED
        BY <3>2 DEF Web!Contains
    <2> QED
      BY <2>1, <2>2
  <1>5. ASSUME Len(d) # PageSize, Whole(f, q, <<>>)
        PROVE  Whole(f, cards, d)
    <2> SUFFICES ASSUME NEW i \in 1..FeedSize
                 PROVE  Web!Contains(cards, <<f, i>>) \/ Web!Contains(d, <<f, i>>)
      BY DEF Whole
    <2>1. PICK k \in 1..Len(q) : q[k] = <<f, i>>
      BY <1>5, NothingContains, ContainsIs DEF Whole
    <2>2. Len(d) \in Nat /\ Len(q) \in Nat
      BY <1>1, <1>2
    <2>3. k <= o + Len(d)
      BY <1>2, <1>5, <2>2
    <2> QED
      BY <1>4, <2>1, <2>3 DEF Covers
  <1> QED
    BY <1>4, <1>5, PageTyped

\* A late announcement moves others back, never one to an earlier place.
LEMMA InsertRight ==
  ASSUME NEW f, NEW q, FeedRight(q, f), NEW e \in {<<f, FeedSize + 1>>}, ~Web!Contains(q, e),
         NEW i \in 1..(Len(q) + 1), NEW d, d = Web!InsertAt(q, i, e)
  PROVE  /\ FeedRight(d, f)
         /\ Whole(f, q, <<>>) => Whole(f, d, <<>>)
         /\ \A cards, data : \A n \in Nat :
              Covers(q, f, cards, data, n) => Covers(d, f, cards, data, n)
  <1>1. q \in Seq(Announcements(f)) /\ Distinct(q)
    BY DEF FeedRight
  <1>3. e \in Announcements(f) /\ \A j \in 1..FeedSize : <<f, j>> # e
    <2>1. FeedSize + 1 \in 1..(FeedSize + 1) /\ \A j \in 1..FeedSize : j # FeedSize + 1
      BY PageAssumption
    <2> QED
      BY <2>1 DEF Announcements
  <1>4. PICK l \in Nat : l = Len(q)
    BY <1>1
  <1>5. /\ d \in Seq(Announcements(f)) /\ Len(d) = l + 1 /\ d[i] = e
        /\ \A k \in 1..l : k < i => d[k] = q[k]
        /\ \A k \in 1..l : i <= k => d[k + 1] = q[k]
    <2>1. q \in Seq(Announcements(f)) /\ e \in Announcements(f)
      BY <1>1, <1>3
    <2>4. /\ d \in Seq(Announcements(f)) /\ Len(d) = Len(q) + 1 /\ d[i] = e
          /\ \A k \in 1..Len(q) : k < i => d[k] = q[k]
          /\ \A k \in 1..Len(q) : i <= k => d[k + 1] = q[k]
      BY <2>1, InsertIs
    <2> QED
      BY <1>4, <2>4
  <1>6. \A k \in 1..(l + 1) : \/ k = i
                              \/ k \in 1..l /\ k < i /\ d[k] = q[k]
                              \/ k - 1 \in 1..l /\ i < k /\ d[k] = q[k - 1]
    <2> SUFFICES ASSUME NEW k \in 1..(l + 1), k # i
                 PROVE  \/ k \in 1..l /\ k < i /\ d[k] = q[k]
                        \/ k - 1 \in 1..l /\ i < k /\ d[k] = q[k - 1]
      OBVIOUS
    <2>1. CASE k < i
      <3>1. k \in 1..l
        BY <1>4, <2>1
      <3> QED
        BY <1>5, <2>1, <3>1
    <2>2. CASE i < k
      <3>1. k - 1 \in 1..l /\ i <= k - 1 /\ (k - 1) + 1 = k
        BY <1>4, <2>2
      <3> QED
        BY <1>5, <2>2, <3>1
    <2>3. k < i \/ i < k
      BY <1>4
    <2> QED
      BY <2>1, <2>2, <2>3
  <1>7. \A k \in 1..l : q[k] # e
    BY <1>4 DEF Web!Contains
  <1>8. Distinct(d)
    <2> SUFFICES ASSUME NEW k \in 1..(l + 1), NEW m \in 1..(l + 1), d[k] = d[m]
                 PROVE  k = m
      BY <1>5 DEF Distinct
    <2>1. \A x, y \in 1..l : q[x] = q[y] => x = y
      BY <1>1, <1>4 DEF Distinct
    <2>2. CASE k = i \/ m = i
      BY <1>5, <1>6, <1>7, <2>2
    <2>3. CASE k # i /\ m # i
      BY <1>6, <2>1, <2>3
    <2> QED
      BY <2>2, <2>3
  <1>9. ASSUME NEW cards, NEW data, NEW n \in Nat, Covers(q, f, cards, data, n)
        PROVE  Covers(d, f, cards, data, n)
    <2> SUFFICES ASSUME NEW j \in 1..FeedSize, NEW k \in 1..(l + 1), d[k] = <<f, j>>, k <= n
                 PROVE  Web!Contains(cards, <<f, j>>) \/ Web!Contains(data, <<f, j>>)
      BY <1>5 DEF Covers
    <2>1. k # i
      BY <1>3, <1>5
    <2>2. \E m \in 1..l : q[m] = <<f, j>> /\ m <= n
      <3>1. CASE k \in 1..l /\ k < i /\ d[k] = q[k]
        BY <3>1
      <3>2. CASE k - 1 \in 1..l /\ i < k /\ d[k] = q[k - 1]
        <4>1. k - 1 <= n
          OBVIOUS
        <4> QED
          BY <3>2, <4>1
      <3> QED
        BY <1>6, <2>1, <3>1, <3>2
    <2> QED
      BY <1>4, <1>9, <2>2 DEF Covers
  <1>10. ASSUME Whole(f, q, <<>>)
         PROVE  Whole(f, d, <<>>)
    <2> SUFFICES ASSUME NEW j \in 1..FeedSize
                 PROVE  Web!Contains(d, <<f, j>>)
      BY DEF Whole
    <2>1. PICK k \in 1..l : q[k] = <<f, j>>
      BY <1>4, <1>10, NothingContains, ContainsIs DEF Whole
    <2>2. \E m \in 1..(l + 1) : d[m] = <<f, j>>
      <3>1. k \in 1..(l + 1) /\ k + 1 \in 1..(l + 1) /\ (k < i \/ i <= k)
        BY <1>4
      <3> QED
        BY <1>5, <2>1, <3>1
    <2> QED
      BY <1>5, <2>2 DEF Web!Contains
  <1> QED
    BY <1>5, <1>8, <1>9, <1>10 DEF FeedRight

LEMMA RemoveRight ==
  ASSUME NEW f, NEW q, FeedRight(q, f), NEW i \in 1..Len(q), NEW d, d = Web!RemoveAt(q, i)
  PROVE  FeedRight(d, f)
  <1>1. q \in Seq(Announcements(f)) /\ Distinct(q)
    BY DEF FeedRight
  <1>2. /\ d \in Seq(Announcements(f)) /\ Len(d) = Len(q) - 1
        /\ \A k \in 1..Len(d) : d[k] = IF k < i THEN q[k] ELSE q[k + 1]
    BY <1>1, RemoveIs
  <1>3. PICK l \in Nat : l = Len(q)
    BY <1>1
  <1>4. ASSUME NEW k \in 1..Len(d), NEW m \in 1..Len(d), d[k] = d[m]
        PROVE  k = m
    <2>1. k \in 1..l /\ k + 1 \in 1..l /\ m \in 1..l /\ m + 1 \in 1..l
      BY <1>2, <1>3
    <2>2. \A x, y \in 1..l : q[x] = q[y] => x = y
      BY <1>1, <1>3 DEF Distinct
    <2>3. PICK x \in 1..l : d[k] = q[x] /\ x = IF k < i THEN k ELSE k + 1
      BY <1>2, <2>1
    <2>4. PICK y \in 1..l : d[m] = q[y] /\ y = IF m < i THEN m ELSE m + 1
      BY <1>2, <2>1
    <2>5. x = y
      BY <1>4, <2>2, <2>3, <2>4
    <2> QED
      BY <1>3, <2>1, <2>3, <2>4, <2>5
  <1> QED
    BY <1>2, <1>4 DEF FeedRight, Distinct

-----------------------------------------------------------------------------
FeedFields == {"name", "filter", "first", "mores", "busy", "shown", "cards", "offset",
               "hasMore", "failed", "mixed"}

\* What the answer of a first page holds, whatever the page shows by now.
FeedCall(c) ==
  /\ s4[c].what \in {"first", "more"} /\ s4[c].arg.filter \in Filters
  /\ s4[c].arg.offset \in Nat /\ (s4[c].what = "first" => s4[c].arg.offset = 0)
  /\ s4[c].what = "more" => c \in s1.mores
  /\ s4[c].answer = "ok" => FeedRight(s4[c].data, s4[c].arg.filter)
  /\ s4[c].answer = "ok" /\ s4[c].what = "first" /\ ~s7.left =>
       /\ Covers(s7.feed[s4[c].arg.filter], s4[c].arg.filter, <<>>, s4[c].data,
                 Len(s4[c].data))
       /\ Len(s4[c].data) # PageSize => Whole(s4[c].arg.filter, <<>>, s4[c].data)

\* What the answer of a further page adds to the cards, which wait for it.
MoreRight(c) ==
  /\ s1.mores = {c} /\ s4[c].arg.filter = s1.shown /\ s4[c].arg.offset = s1.offset
  /\ s4[c].answer = "ok" /\ ~s7.left =>
       /\ Covers(s7.feed[s1.shown], s1.shown, s1.cards, s4[c].data,
                 s1.offset + Len(s4[c].data))
       /\ Len(s4[c].data) # PageSize => Whole(s1.shown, s1.cards, s4[c].data)

\* The cards, unless the answers of two choices of filters were mixed.
ShownRight ==
  /\ FeedRight(s1.cards, s1.shown)
  /\ s1.mores # {} => s1.busy /\ s1.hasMore
  /\ \A c \in DOMAIN s4 : s4[c].what = "more" => MoreRight(c)
  /\ ~s7.left =>
       /\ Covers(s7.feed[s1.shown], s1.shown, s1.cards, <<>>, s1.offset)
       /\ ~s1.hasMore /\ s1.cards # <<>> => Whole(s1.shown, s1.cards, <<>>)

FeedsRight ==
  /\ DOMAIN s7.feed = Filters
  /\ \A f \in Filters :
       /\ FeedRight(s7.feed[f], f)
       /\ ~s7.left => Whole(f, s7.feed[f], <<>>)

FeedInv ==
  /\ RequestsRight
  /\ s1.name = "feed" /\ DOMAIN s1 = FeedFields
  /\ s1.filter \in Filters /\ s1.shown \in Filters /\ s1.offset \in Nat
  /\ FeedsRight
  /\ IF s1.first = 0 THEN s1.shown = s1.filter
     ELSE /\ s1.first \in DOMAIN s4 /\ s4[s1.first].what = "first"
          /\ s4[s1.first].arg.filter = s1.filter
  /\ \A c \in DOMAIN s4 : FeedCall(c)
  /\ ~s1.mixed => ShownRight

\* A request nothing happened to.
LEMMA CallKept ==
  ASSUME FeedInv, NEW d \in DOMAIN s4, s4'[d] = s4[d], s7'.left = s7.left,
         s7'.feed = s7.feed, s4[d].what = "more" => d \in s1'.mores
  PROVE  FeedCall(d)'
  BY DEF FeedInv, FeedCall

LEMMA EmptyRight ==
  ASSUME NEW q, NEW f
  PROVE  FeedRight(<<>>, f) /\ Covers(q, f, <<>>, <<>>, 0)
  <1>1. <<>> \in Seq(Announcements(f)) /\ Distinct(<<>>)
    BY DEF Distinct
  <1>2. \A k \in 1..Len(q) : ~(k <= 0)
    OBVIOUS
  <1> QED
    BY <1>1, <1>2 DEF FeedRight, Covers

\* The page of a feed that a request asks for.
LEMMA AnswerIs ==
  ASSUME FeedInv, NEW c \in DOMAIN s4, NEW d, d = Web!Data(c)
  PROVE  /\ FeedRight(d, s4[c].arg.filter)
         /\ ~s7.left =>
              \A cards :
                Covers(s7.feed[s4[c].arg.filter], s4[c].arg.filter, cards, <<>>,
                       s4[c].arg.offset) =>
                  /\ Covers(s7.feed[s4[c].arg.filter], s4[c].arg.filter, cards, d,
                            s4[c].arg.offset + Len(d))
                  /\ Len(d) # PageSize => Whole(s4[c].arg.filter, cards, d)
  <1>1. PICK f : f = s4[c].arg.filter
    OBVIOUS
  <1>2. PICK o : o = s4[c].arg.offset
    OBVIOUS
  <1>3. PICK q : q = s7.feed[f]
    OBVIOUS
  <1>4. s4[c].what \in {"first", "more"} /\ f \in Filters /\ o \in Nat
    BY <1>1, <1>2 DEF FeedInv, FeedCall
  <1>5. FeedRight(q, f) /\ (~s7.left => Whole(f, q, <<>>))
    BY <1>3, <1>4 DEF FeedInv, FeedsRight
  <1>6. d = Web!PageOf(q, o)
    BY <1>1, <1>2, <1>3, <1>4 DEF Web!Data
  <1>7. FeedRight(d, f)
    BY <1>4, <1>5, <1>6, PageTyped
  <1>8. ASSUME NEW cards, Covers(q, f, cards, <<>>, o)
        PROVE  /\ Covers(q, f, cards, d, o + Len(d))
               /\ Len(d) # PageSize /\ Whole(f, q, <<>>) => Whole(f, cards, d)
    BY <1>4, <1>5, <1>6, <1>8, PageRight
  <1> QED
    BY <1>1, <1>2, <1>3, <1>5, <1>7, <1>8

LEMMA FeedNetwork ==
  ASSUME FeedInv, NEW c, Network(c)
  PROVE  FeedInv'
  <1>1. RequestsRight' /\ s7'.feed = s7.feed /\ s7'.left = s7.left
    BY NetworkServer DEF FeedInv
  <1>2. /\ c \in DOMAIN s4 /\ DOMAIN s4' = DOMAIN s4 /\ s1' = s1
        /\ \A d \in DOMAIN s4 \ {c} : s4'[d] = s4[d]
        /\ s4'[c].what = s4[c].what /\ s4'[c].arg = s4[c].arg
    BY DEF Network
  <1>3. PICK d : d = Web!Data(c)
    OBVIOUS
  <1>4. s4'[c].answer = "ok" => s4'[c].data = d
    <2>1. s4[c].what \in {"first", "more"}
      BY <1>2 DEF FeedInv, FeedCall
    <2> QED
      BY <1>3, <2>1 DEF Network
  <1>5. PICK f : f = s4[c].arg.filter
    OBVIOUS
  <1>6. /\ FeedRight(d, f)
        /\ ~s7.left =>
             \A cards : Covers(s7.feed[f], f, cards, <<>>, s4[c].arg.offset) =>
               /\ Covers(s7.feed[f], f, cards, d, s4[c].arg.offset + Len(d))
               /\ Len(d) # PageSize => Whole(f, cards, d)
    BY <1>2, <1>3, <1>5, AnswerIs
  <1>7. Len(d) \in Nat /\ 0 + Len(d) = Len(d)
    BY <1>6 DEF FeedRight
  <1>8. FeedCall(c)'
    <2>1. ~s7.left /\ s4[c].what = "first" =>
            /\ Covers(s7.feed[f], f, <<>>, d, Len(d))
            /\ Len(d) # PageSize => Whole(f, <<>>, d)
      <3>1. s4[c].what = "first" => s4[c].arg.offset = 0
        BY <1>2 DEF FeedInv, FeedCall
      <3> QED
        BY <1>6, <1>7, <3>1, EmptyRight
    <2>2. /\ s4[c].what \in {"first", "more"} /\ f \in Filters
          /\ s4[c].arg.offset \in Nat /\ (s4[c].what = "first" => s4[c].arg.offset = 0)
          /\ s4[c].what = "more" => c \in s1.mores
      BY <1>2, <1>5 DEF FeedInv, FeedCall
    <2> QED
      BY <1>1, <1>2, <1>4, <1>5, <1>6, <2>1, <2>2 DEF FeedCall
  <1>9. \A x \in DOMAIN s4' : FeedCall(x)'
    <2> SUFFICES ASSUME NEW x \in DOMAIN s4'
                 PROVE  FeedCall(x)'
      OBVIOUS
    <2>1. CASE x = c
      BY <1>8, <2>1
    <2>2. CASE x # c
      <3>1. x \in DOMAIN s4 /\ s4'[x] = s4[x] /\ (s4[x].what = "more" => x \in s1'.mores)
        BY <1>2, <2>2 DEF FeedInv, FeedCall
      <3> QED
        BY <1>1, <3>1, CallKept
    <2> QED
      BY <2>1, <2>2
  <1>10. ASSUME ~s1.mixed
         PROVE  ShownRight'
    <2>1. ShownRight
      BY <1>10 DEF FeedInv
    <2>2. ASSUME NEW x \in DOMAIN s4', s4'[x].what = "more"
          PROVE  MoreRight(x)'
      <3>1. CASE x # c
        BY <1>1, <1>2, <2>1, <2>2, <3>1 DEF ShownRight, MoreRight
      <3>2. CASE x = c
        <4>1. MoreRight(c)
          BY <1>2, <2>1, <2>2, <3>2 DEF ShownRight
        <4>2. /\ s1.mores = {c} /\ f = s1.shown /\ s4[c].arg.offset = s1.offset
          BY <1>5, <4>1 DEF MoreRight
        <4>3. ~s7.left =>
                /\ Covers(s7.feed[s1.shown], s1.shown, s1.cards, d, s1.offset + Len(d))
                /\ Len(d) # PageSize => Whole(s1.shown, s1.cards, d)
          BY <1>6, <2>1, <4>2 DEF ShownRight
        <4> QED
          BY <1>1, <1>2, <1>4, <1>5, <3>2, <4>2, <4>3 DEF MoreRight
      <3> QED
        BY <3>1, <3>2
    <2> QED
      BY <1>1, <1>2, <2>1, <2>2 DEF ShownRight
  <1> QED
    BY <1>1, <1>2, <1>9, <1>10 DEF FeedInv, FeedsRight

\* A first page is asked for: nothing shown changes.
LEMMA LoadKept ==
  ASSUME FeedInv, NEW f \in Filters, Web!Load(f)
  PROVE  FeedInv'
  <1>1. PICK p : p = [s1 EXCEPT !.filter = f, !.first = Web!Next1, !.failed = FALSE]
    OBVIOUS
  <1>2. Web!Asks("first", [filter |-> f, offset |-> 0], p) /\ UNCHANGED <<s2, s7>>
    BY <1>1 DEF Web!Load
  <1>3. /\ DOMAIN p = FeedFields /\ p.name = "feed" /\ p.filter = f /\ p.first = s5 + 1
        /\ p.shown = s1.shown /\ p.offset = s1.offset /\ p.cards = s1.cards
        /\ p.hasMore = s1.hasMore /\ p.mores = s1.mores /\ p.busy = s1.busy
        /\ p.mixed = s1.mixed
    BY <1>1 DEF FeedInv, FeedFields, Web!Next1
  <1>4. PICK a : a = [filter |-> f, offset |-> 0]
    OBVIOUS
  <1>5. /\ s1' = p /\ s5' = s5 + 1 /\ s5' # 0 /\ s5' \notin DOMAIN s4
        /\ DOMAIN s4' = DOMAIN s4 \cup {s5'}
        /\ \A c \in DOMAIN s4 : s4'[c] = s4[c]
        /\ s4'[s5'].what = "first" /\ s4'[s5'].arg = a /\ s4'[s5'].answer = "none"
    BY <1>2, <1>4, AsksIs DEF FeedInv
  <1>6. RequestsRight'
    BY <1>2, AskedRight DEF FeedInv
  <1>7. a.filter = f /\ a.offset = 0
    BY <1>4
  <1>8. ASSUME NEW c \in DOMAIN s4'
        PROVE  FeedCall(c)'
    <2>1. CASE c = s5'
      BY <1>5, <1>7, <2>1 DEF FeedCall
    <2>2. CASE c \in DOMAIN s4
      <3>1. s4'[c] = s4[c] /\ (s4[c].what = "more" => c \in s1'.mores)
        BY <1>3, <1>5, <2>2 DEF FeedInv, FeedCall
      <3> QED
        BY <1>2, <2>2, <3>1, CallKept
    <2> QED
      BY <1>5, <2>1, <2>2
  <1>9. ASSUME ~s1.mixed
        PROVE  ShownRight'
    <2>1. ShownRight
      BY <1>9 DEF FeedInv
    <2>2. ASSUME NEW c \in DOMAIN s4', s4'[c].what = "more"
          PROVE  MoreRight(c)'
      <3>1. c \in DOMAIN s4 /\ s4'[c] = s4[c]
        BY <1>5, <2>2
      <3>2. MoreRight(c)
        BY <2>1, <2>2, <3>1 DEF ShownRight
      <3> QED
        BY <1>2, <1>3, <1>5, <3>1, <3>2 DEF MoreRight
    <2> QED
      BY <1>2, <1>3, <1>5, <2>1, <2>2 DEF ShownRight
  <1>10. FeedsRight'
    BY <1>2 DEF FeedInv, FeedsRight
  <1>11. /\ s1'.first = s5' /\ s1'.first # 0 /\ s1'.filter = f /\ s1'.name = "feed"
         /\ DOMAIN s1' = FeedFields /\ s1'.shown = s1.shown /\ s1'.offset = s1.offset
         /\ s1'.mixed = s1.mixed
    BY <1>3, <1>5
  <1> QED
    BY <1>5, <1>6, <1>7, <1>8, <1>9, <1>10, <1>11 DEF FeedInv

\* A further page is asked for where the cards end.
LEMMA LoadMoreKept ==
  ASSUME FeedInv, Web!LoadMore
  PROVE  FeedInv'
  <1>1. PICK mixed : mixed = (s1.mixed \/ s1.first # 0)
    OBVIOUS
  <1>2. PICK p : p = [s1 EXCEPT !.mores = s1.mores \cup {s5 + 1}, !.busy = TRUE,
                                !.mixed = mixed]
    OBVIOUS
  <1>3. PICK a : a = [filter |-> s1.filter, offset |-> s1.offset]
    OBVIOUS
  <1>4. Web!Asks("more", a, p) /\ UNCHANGED <<s2, s7>> /\ s1.hasMore /\ ~s1.busy
    <2>1. p = [s1 EXCEPT !.mores = @ \cup {Web!Next1}, !.busy = TRUE,
                         !.mixed = @ \/ s1.first # Web!NoCall]
      BY <1>1, <1>2 DEF Web!Next1, Web!NoCall, FeedInv, FeedFields
    <2> QED
      BY <1>3, <2>1 DEF Web!LoadMore
  <1>5. /\ DOMAIN p = FeedFields /\ p.name = "feed" /\ p.filter = s1.filter
        /\ p.first = s1.first
        /\ p.shown = s1.shown /\ p.offset = s1.offset /\ p.cards = s1.cards
        /\ p.hasMore = s1.hasMore /\ p.mores = s1.mores \cup {s5 + 1} /\ p.busy = TRUE
        /\ p.mixed = mixed
    BY <1>2 DEF FeedInv, FeedFields
  <1>6. a.filter = s1.filter /\ a.offset = s1.offset
    BY <1>3
  <1>7. /\ s1' = p /\ s5' = s5 + 1 /\ s5' # 0 /\ s5' \notin DOMAIN s4
        /\ DOMAIN s4' = DOMAIN s4 \cup {s5'}
        /\ \A c \in DOMAIN s4 : s4'[c] = s4[c]
        /\ s4'[s5'].what = "more" /\ s4'[s5'].arg = a /\ s4'[s5'].answer = "none"
    BY <1>4, AsksIs DEF FeedInv
  <1>8. RequestsRight'
    BY <1>4, AskedRight DEF FeedInv
  <1>9. s1'.mores = s1.mores \cup {s5'}
    BY <1>5, <1>7
  <1>10. ASSUME NEW c \in DOMAIN s4'
         PROVE  FeedCall(c)'
    <2>1. CASE c = s5'
      <3>1. s1.filter \in Filters /\ s1.offset \in Nat
        BY DEF FeedInv
      <3> QED
        BY <1>6, <1>7, <1>9, <2>1, <3>1 DEF FeedCall
    <2>2. CASE c \in DOMAIN s4
      <3>1. s4'[c] = s4[c] /\ (s4[c].what = "more" => c \in s1'.mores)
        BY <1>7, <1>9, <2>2 DEF FeedInv, FeedCall
      <3> QED
        BY <1>4, <2>2, <3>1, CallKept
    <2> QED
      BY <1>7, <2>1, <2>2
  <1>11. ASSUME ~mixed
         PROVE  ShownRight'
    <2>1. ShownRight /\ s1.first = 0 /\ s1.shown = s1.filter
      BY <1>1, <1>11 DEF FeedInv
    <2>2. s1.mores = {}
      BY <1>4, <2>1 DEF ShownRight
    <2>3. ASSUME NEW c \in DOMAIN s4', s4'[c].what = "more"
          PROVE  MoreRight(c)'
      <3>1. c = s5'
        BY <1>7, <2>2, <2>3 DEF FeedInv, FeedCall
      <3> QED
        BY <1>5, <1>6, <1>7, <1>9, <2>1, <2>2, <3>1 DEF MoreRight
    <2> QED
      BY <1>4, <1>5, <1>7, <2>1, <2>3 DEF ShownRight
  <1>12. FeedsRight'
    BY <1>4 DEF FeedInv, FeedsRight
  <1> QED
    BY <1>5, <1>7, <1>8, <1>10, <1>11, <1>12 DEF FeedInv

\* What arrives becomes the cards.
LEMMA Swapped ==
  ASSUME NEW q, NEW f, NEW d
  PROVE  /\ \A n : Covers(q, f, <<>>, d, n) => Covers(q, f, d, <<>>, n)
         /\ Whole(f, <<>>, d) => Whole(f, d, <<>>)
  BY NothingContains DEF Covers, Whole

LEMMA FirstKept ==
  ASSUME FeedInv, NEW c \in DOMAIN s4, Web!FirstSettled(c)
  PROVE  FeedInv'
  <1>1. /\ s7' = s7 /\ DOMAIN s4' = DOMAIN s4 \ {c}
        /\ \A d \in DOMAIN s4 \ {c} : s4'[d] = s4[d]
    BY TakenIs DEF Web!FirstSettled, FeedInv
  <1>2. RequestsRight'
    BY TakenRight DEF Web!FirstSettled, FeedInv
  <1>3. s1' = Web!FirstShown(c) /\ s4[c].what = "first"
    BY DEF Web!FirstSettled
  <1>4. FeedsRight'
    BY <1>1 DEF FeedInv, FeedsRight
  <1>5. ASSUME s1'.mores = s1.mores, NEW x \in DOMAIN s4'
        PROVE  FeedCall(x)'
    <2>1. x \in DOMAIN s4 /\ s4'[x] = s4[x] /\ (s4[x].what = "more" => x \in s1'.mores)
      BY <1>1, <1>5 DEF FeedInv, FeedCall
    <2> QED
      BY <1>1, <2>1, CallKept
  <1>6. CASE s1.first # c
    <2>1. s1' = s1
      BY <1>3, <1>6 DEF Web!FirstShown
    <2>2. ASSUME ~s1.mixed
          PROVE  ShownRight'
      BY <1>1, <2>1, <2>2 DEF FeedInv, ShownRight, MoreRight
    <2> QED
      BY <1>1, <1>2, <1>4, <1>5, <1>6, <2>1, <2>2 DEF FeedInv
  <1>7. CASE s1.first = c
    <2>1. PICK f : f = s4[c].arg.filter
      OBVIOUS
    <2>2. PICK data : data = IF Web!Ok(c) THEN s4[c].data ELSE <<>>
      OBVIOUS
    <2>3. PICK mixed : mixed = (s1.mores # {})
      OBVIOUS
    <2>4. PICK offset : offset = IF Web!Ok(c) THEN Len(s4[c].data) ELSE 0
      OBVIOUS
    <2>5. PICK more : more = (Web!Ok(c) /\ Len(s4[c].data) = PageSize)
      OBVIOUS
    <2>6. PICK failed : failed = ~Web!Ok(c)
      OBVIOUS
    <2>7. s1' = [s1 EXCEPT !.first = 0, !.busy = FALSE, !.failed = failed, !.shown = f,
                   !.mixed = mixed, !.cards = data, !.offset = offset, !.hasMore = more]
      BY <1>3, <1>7, <2>1, <2>2, <2>3, <2>4, <2>5, <2>6 DEF Web!FirstShown, Web!NoCall
    <2>8. /\ DOMAIN s1' = FeedFields /\ s1'.name = "feed" /\ s1'.filter = s1.filter
          /\ s1'.first = 0 /\ s1'.busy = FALSE /\ s1'.shown = f /\ s1'.mixed = mixed
          /\ s1'.cards = data /\ s1'.offset = offset /\ s1'.hasMore = more
          /\ s1'.mores = s1.mores
      BY <2>7 DEF FeedInv, FeedFields
    <2>9. f \in Filters /\ f = s1.filter
      <3>1. c \in 1..s5 /\ c # 0
        BY DEF FeedInv, RequestsRight
      <3> QED
        BY <1>7, <2>1, <3>1 DEF FeedInv
    <2>10. /\ FeedRight(data, f) /\ offset = Len(data) /\ offset \in Nat
           /\ more = (Web!Ok(c) /\ Len(data) = PageSize)
      <3>1. CASE Web!Ok(c)
        <4>1. FeedRight(data, f)
          BY <2>1, <2>2, <3>1 DEF FeedInv, FeedCall, Web!Ok
        <4> QED
          BY <2>2, <2>4, <2>5, <3>1, <4>1 DEF FeedRight
      <3>2. CASE ~Web!Ok(c)
        <4>1. data = <<>> /\ FeedRight(<<>>, f)
          BY <2>2, <3>2, EmptyRight
        <4> QED
          BY <2>4, <2>5, <3>2, <4>1
      <3> QED
        BY <3>1, <3>2
    <2>11. ASSUME ~s7.left
           PROVE  /\ Covers(s7.feed[f], f, data, <<>>, offset)
                  /\ ~more /\ data # <<>> => Whole(f, data, <<>>)
      <3>1. CASE Web!Ok(c)
        <4>1. /\ Covers(s7.feed[f], f, <<>>, data, Len(data))
              /\ Len(data) # PageSize => Whole(f, <<>>, data)
          BY <1>3, <2>1, <2>2, <2>11, <3>1 DEF FeedInv, FeedCall, Web!Ok
        <4> QED
          BY <2>10, <3>1, <4>1, Swapped
      <3>2. CASE ~Web!Ok(c)
        BY <2>2, <2>4, <3>2, EmptyRight
      <3> QED
        BY <3>1, <3>2
    <2>12. ASSUME ~mixed
           PROVE  ShownRight'
      <3>1. s1.mores = {}
        BY <2>3, <2>12
      <3>2. \A x \in DOMAIN s4' : s4'[x].what # "more"
        BY <1>1, <3>1 DEF FeedInv, FeedCall
      <3> QED
        BY <1>1, <2>8, <2>10, <2>11, <3>1, <3>2 DEF ShownRight
    <2> QED
      BY <1>2, <1>4, <1>5, <2>8, <2>9, <2>10, <2>12 DEF FeedInv
  <1> QED
    BY <1>6, <1>7

\* A further page: the cards and it are what is shown.
LEMMA MoreKept ==
  ASSUME FeedInv, NEW c \in DOMAIN s4, Web!MoreSettled(c)
  PROVE  FeedInv'
  <1>1. /\ s7' = s7 /\ DOMAIN s4' = DOMAIN s4 \ {c}
        /\ \A d \in DOMAIN s4 \ {c} : s4'[d] = s4[d]
    BY TakenIs DEF Web!MoreSettled, FeedInv
  <1>2. RequestsRight'
    BY TakenRight DEF Web!MoreSettled, FeedInv
  <1>3. s4[c].what = "more"
    BY DEF Web!MoreSettled
  <1>4. PICK data : data = s4[c].data
    OBVIOUS
  <1>5. PICK ok : ok = Web!Ok(c)
    OBVIOUS
  <1>6. PICK cards : cards = IF ok THEN Web!AppendAnnouncementPage(s1.cards, data) ELSE s1.cards
    OBVIOUS
  <1>7. PICK offset : offset = IF ok THEN s1.offset + Len(data) ELSE s1.offset
    OBVIOUS
  <1>8. PICK more : more = IF ok THEN Len(data) = PageSize ELSE s1.hasMore
    OBVIOUS
  <1>9. PICK mores : mores = s1.mores \ {c}
    OBVIOUS
  <1>10. s1' = [s1 EXCEPT !.mores = mores, !.busy = FALSE, !.cards = cards, !.offset = offset,
                          !.hasMore = more]
    <2>1. DOMAIN s1 = FeedFields
      BY DEF FeedInv
    <2> QED
      BY <1>4, <1>5, <1>6, <1>7, <1>8, <1>9, <2>1 DEF Web!MoreSettled, FeedFields
  <1>11. /\ DOMAIN s1' = FeedFields /\ s1'.name = "feed" /\ s1'.filter = s1.filter
         /\ s1'.first = s1.first /\ s1'.busy = FALSE /\ s1'.shown = s1.shown
         /\ s1'.mixed = s1.mixed /\ s1'.cards = cards /\ s1'.offset = offset
         /\ s1'.hasMore = more /\ s1'.mores = mores
    BY <1>10 DEF FeedInv, FeedFields
  <1>12. FeedsRight'
    BY <1>1 DEF FeedInv, FeedsRight
  <1>13. \A x \in DOMAIN s4' : FeedCall(x)'
    <2> SUFFICES ASSUME NEW x \in DOMAIN s4'
                 PROVE  FeedCall(x)'
      OBVIOUS
    <2>1. x \in DOMAIN s4 /\ s4'[x] = s4[x] /\ (s4[x].what = "more" => x \in s1'.mores)
      BY <1>1, <1>9, <1>11 DEF FeedInv, FeedCall
    <2> QED
      BY <1>1, <2>1, CallKept
  <1>14. offset \in Nat
    <2>1. s1.offset \in Nat /\ (ok => FeedRight(data, s4[c].arg.filter))
      BY <1>4, <1>5 DEF FeedInv, FeedCall, Web!Ok
    <2>2. ok => Len(data) \in Nat
      BY <2>1 DEF FeedRight
    <2> QED
      BY <1>7, <2>1, <2>2
  <1>15. ASSUME ~s1.mixed
         PROVE  ShownRight'
    <2>1. /\ ShownRight /\ MoreRight(c)
      BY <1>3, <1>15 DEF FeedInv, ShownRight
    <2>2. s1.mores = {c} /\ s4[c].arg.filter = s1.shown /\ s1.hasMore
      BY <2>1 DEF ShownRight, MoreRight
    <2>3. mores = {}
      BY <1>9, <2>2
    <2>4. \A x \in DOMAIN s4' : s4'[x].what # "more"
      BY <1>1, <2>2 DEF FeedInv, FeedCall
    <2>5. FeedRight(s1.cards, s1.shown)
      BY <2>1 DEF ShownRight
    <2>6. CASE ~ok
      <3>1. cards = s1.cards /\ offset = s1.offset /\ more = s1.hasMore
        BY <1>6, <1>7, <1>8, <2>6
      <3> QED
        BY <1>1, <1>11, <2>1, <2>3, <2>4, <3>1 DEF ShownRight
    <2>7. CASE ok
      <3>1. FeedRight(data, s1.shown)
        BY <1>4, <1>5, <2>2, <2>7 DEF FeedInv, FeedCall, Web!Ok
      <3>2. cards = Web!AppendAnnouncementPage(s1.cards, data) /\ offset = s1.offset + Len(data)
            /\ more = (Len(data) = PageSize)
        BY <1>6, <1>7, <1>8, <2>7
      <3>3. PICK S : S = Announcements(s1.shown)
        OBVIOUS
      <3>4. PICK old : old = s1.cards
        OBVIOUS
      <3>5. /\ old \in Seq(S) /\ Distinct(old) /\ data \in Seq(S) /\ Distinct(data)
        BY <2>5, <3>1, <3>3, <3>4 DEF FeedRight
      <3>6. /\ cards \in Seq(S) /\ Distinct(cards)
            /\ \A x : Web!Contains(old, x) \/ Web!Contains(data, x) => Web!Contains(cards, x)
        BY <3>2, <3>4, <3>5, AppendIs
      <3>7. ~s7.left =>
              /\ Covers(s7.feed[s1.shown], s1.shown, old, data, offset)
              /\ ~more => Whole(s1.shown, old, data)
        BY <1>4, <1>5, <2>1, <2>7, <3>2, <3>4 DEF MoreRight, Web!Ok
      <3>8. ~s7.left =>
              /\ Covers(s7.feed[s1.shown], s1.shown, cards, <<>>, offset)
              /\ ~more => Whole(s1.shown, cards, <<>>)
        BY <3>6, <3>7 DEF Covers, Whole
      <3>9. FeedRight(cards, s1.shown)
        BY <3>3, <3>6 DEF FeedRight
      <3> QED
        BY <1>1, <1>11, <2>3, <2>4, <3>8, <3>9 DEF ShownRight
    <2> QED
      BY <2>6, <2>7
  <1>16. IF s1.first = 0 THEN TRUE ELSE s1.first \in DOMAIN s4' /\ s4'[s1.first] = s4[s1.first]
    BY <1>1, <1>3 DEF FeedInv
  <1> QED
    BY <1>2, <1>11, <1>12, <1>13, <1>14, <1>15, <1>16 DEF FeedInv

\* The feeds change under the page: what it holds stays right.
LEMMA FeedsChanged ==
  ASSUME FeedInv, UNCHANGED <<s1, s2, s4, s5>>, DOMAIN s7' = DOMAIN s7, FeedsRight',
         ~s7'.left => ~s7.left,
         \A g \in Filters : \A cards, data : \A n \in Nat :
           ~s7'.left /\ Covers(s7.feed[g], g, cards, data, n)
             => Covers(s7'.feed[g], g, cards, data, n)
  PROVE  FeedInv'
  <1>1. RequestsRight'
    BY DEF FeedInv, RequestsRight
  <1>2. ASSUME NEW c \in DOMAIN s4
        PROVE  FeedCall(c)'
    <2>1. FeedCall(c)
      BY DEF FeedInv
    <2>2. s4[c].answer = "ok" => Len(s4[c].data) \in Nat
      BY <2>1 DEF FeedCall, FeedRight
    <2> QED
      BY <2>1, <2>2 DEF FeedCall
  <1>3. ASSUME ~s1.mixed
        PROVE  ShownRight'
    <2>1. ShownRight /\ s1.shown \in Filters /\ s1.offset \in Nat
      BY <1>3 DEF FeedInv
    <2>2. ASSUME NEW c \in DOMAIN s4, s4[c].what = "more"
          PROVE  MoreRight(c)'
      <3>1. MoreRight(c)
        BY <2>1, <2>2 DEF ShownRight
      <3>2. s4[c].answer = "ok" => Len(s4[c].data) \in Nat /\ s1.offset + Len(s4[c].data) \in Nat
        <4>1. s4[c].answer = "ok" => Len(s4[c].data) \in Nat
          BY <2>2 DEF FeedInv, FeedCall, FeedRight
        <4> QED
          BY <2>1, <4>1
      <3> QED
        BY <2>1, <3>1, <3>2 DEF MoreRight
    <2> QED
      BY <2>1, <2>2 DEF ShownRight
  <1> QED
    BY <1>1, <1>2, <1>3 DEF FeedInv

LEMMA PublishKept ==
  ASSUME FeedInv, NEW f \in Filters, Web!Publish(f), UNCHANGED <<s1, s3, s4, s5, s6>>
  PROVE  FeedInv'
  <1>1. PICK i \in 1..Len(s7.feed[f]) + 1 :
          s7' = [s7 EXCEPT !.feed[f] = Web!InsertAt(@, i, <<f, FeedSize + 1>>)]
    BY DEF Web!Publish
  <1>2. PICK q : q = s7.feed[f]
    OBVIOUS
  <1>3. PICK e : e \in {<<f, FeedSize + 1>>}
    OBVIOUS
  <1>4. PICK d : d = Web!InsertAt(q, i, e)
    OBVIOUS
  <1>5. PICK feed : feed = [s7.feed EXCEPT ![f] = d]
    OBVIOUS
  <1>6. s7' = [s7 EXCEPT !.feed = feed]
    BY <1>1, <1>2, <1>3, <1>4, <1>5
  <1>7. DOMAIN s7' = DOMAIN s7 /\ s7'.feed = feed /\ s7'.left = s7.left /\ s2' = s2
    BY <1>6 DEF FeedInv, RequestsRight, ServerFields, Web!Publish
  <1>8. /\ DOMAIN feed = Filters /\ feed[f] = d
        /\ \A g \in Filters \ {f} : feed[g] = s7.feed[g]
    BY <1>5 DEF FeedInv, FeedsRight
  <1>9. ~Web!Contains(q, e) /\ i \in 1..(Len(q) + 1) /\ FeedRight(q, f)
    BY <1>1, <1>2, <1>3 DEF Web!Publish, FeedInv, FeedsRight
  <1>10. /\ FeedRight(d, f)
         /\ Whole(f, q, <<>>) => Whole(f, d, <<>>)
         /\ \A cards, data : \A n \in Nat :
              Covers(q, f, cards, data, n) => Covers(d, f, cards, data, n)
    BY <1>3, <1>4, <1>9, InsertRight
  <1>11. FeedsRight'
    BY <1>2, <1>7, <1>8, <1>10 DEF FeedInv, FeedsRight
  <1>12. \A g \in Filters : \A cards, data : \A n \in Nat :
           ~s7'.left /\ Covers(s7.feed[g], g, cards, data, n)
             => Covers(s7'.feed[g], g, cards, data, n)
    BY <1>2, <1>7, <1>8, <1>10
  <1> QED
    BY <1>7, <1>11, <1>12, FeedsChanged

LEMMA WithdrawKept ==
  ASSUME FeedInv, NEW f \in Filters, Web!Withdraw(f), UNCHANGED <<s1, s3, s4, s5, s6>>
  PROVE  FeedInv'
  <1>1. PICK i \in 1..Len(s7.feed[f]) :
          s7' = [s7 EXCEPT !.feed[f] = Web!RemoveAt(@, i), !.left = TRUE]
    BY DEF Web!Withdraw
  <1>2. PICK q : q = s7.feed[f]
    OBVIOUS
  <1>3. PICK d : d = Web!RemoveAt(q, i)
    OBVIOUS
  <1>4. PICK feed : feed = [s7.feed EXCEPT ![f] = d]
    OBVIOUS
  <1>5. s7' = [s7 EXCEPT !.feed = feed, !.left = TRUE]
    BY <1>1, <1>2, <1>3, <1>4
  <1>6. DOMAIN s7' = DOMAIN s7 /\ s7'.feed = feed /\ s7'.left = TRUE /\ s2' = s2
    BY <1>5 DEF FeedInv, RequestsRight, ServerFields, Web!Withdraw
  <1>7. /\ DOMAIN feed = Filters /\ feed[f] = d
        /\ \A g \in Filters \ {f} : feed[g] = s7.feed[g]
    BY <1>4 DEF FeedInv, FeedsRight
  <1>8. i \in 1..Len(q) /\ FeedRight(q, f)
    BY <1>1, <1>2 DEF FeedInv, FeedsRight
  <1>9. FeedRight(d, f)
    BY <1>3, <1>8, RemoveRight
  <1>10. FeedsRight'
    BY <1>6, <1>7, <1>9 DEF FeedInv, FeedsRight
  <1> QED
    BY <1>6, <1>10, FeedsChanged

LEMMA FeedPromise ==
  ASSUME FeedInv
  PROVE  Web!FeedWhole
  <1> SUFFICES ASSUME ~s1.mixed
               PROVE  /\ \A i, j \in DOMAIN s1.cards :
                           /\ s1.cards[i][1] = s1.shown
                           /\ s1.cards[i] = s1.cards[j] => i = j
                      /\ ~s7.left /\ ~s1.hasMore /\ ~s1.failed /\ s1.cards # <<>> =>
                           \A i \in 1..FeedSize : Web!Contains(s1.cards, <<s1.shown, i>>)
    BY DEF Web!FeedWhole
  <1>1. ShownRight
    BY DEF FeedInv
  <1>2. PICK q : q = s1.cards
    OBVIOUS
  <1>3. q \in Seq(Announcements(s1.shown)) /\ Distinct(q)
    BY <1>1, <1>2 DEF ShownRight, FeedRight
  <1>4. DOMAIN q = 1..Len(q) /\ \A i \in 1..Len(q) : q[i] \in Announcements(s1.shown)
    BY <1>3
  <1>5. \A x \in Announcements(s1.shown) : x[1] = s1.shown
    BY DEF Announcements
  <1>6. ~s7.left /\ ~s1.hasMore /\ q # <<>> =>
          \A i \in 1..FeedSize : Web!Contains(q, <<s1.shown, i>>)
    BY <1>1, <1>2, NothingContains DEF ShownRight, Whole
  <1> QED
    BY <1>2, <1>3, <1>4, <1>5, <1>6 DEF Distinct

-----------------------------------------------------------------------------
(* One page of the website per behaviour: each step belongs to a page.          *)
LEMMA PageIs ==
  /\ \A s : Web!Visit(s) => s1.name = "company"
  /\ \A f : Web!Load(f) => s1.name = "feed"
  /\ Web!LoadMore => s1.name = "feed"
  /\ Web!LoadPreferences \/ Web!Edit \/ Web!SavePreferences \/ Web!ResendVerification
       => s1.name = "settings"
  /\ Web!LoadSession \/ Web!HandleSubmit \/ Web!SignOut => s1.name = "sign_in"
  /\ Web!Expire => s1.name \notin {"company", "feed"}
  /\ Web!FollowLink => s1.name = "settings"
  /\ \A f : Web!Publish(f) \/ Web!Withdraw(f) => s1.name = "feed"
  BY DEF Web!Visit, Web!Load, Web!LoadMore, Web!LoadPreferences, Web!Edit,
         Web!SavePreferences, Web!ResendVerification, Web!LoadSession, Web!HandleSubmit,
         Web!SignOut, Web!AtStep, Web!Expire, Web!Open, Web!FollowLink, Web!Publish,
         Web!Withdraw

LEMMA SettledIs ==
  ASSUME NEW c
  PROVE  /\ Web!BriefSettled(c) => s4[c].what = "brief"
         /\ Web!FirstSettled(c) => s4[c].what = "first"
         /\ Web!MoreSettled(c) => s4[c].what = "more"
         /\ Web!PreferencesSettled(c) => s4[c].what \in {"load", "save", "resend"}
         /\ Web!SessionLoaded(c) => s4[c].what = "me"
         /\ Web!ProfileSettled(c) => s4[c].what \in {"bootstrap", "sign_in"}
         /\ Web!SignOutSettled(c) => s4[c].what = "sign_out"
  BY DEF Web!BriefSettled, Web!FirstSettled, Web!MoreSettled, Web!PreferencesSettled,
         Web!SessionLoaded, Web!ProfileSettled, Web!SignOutSettled

\* What a step is, by what does it.
Answered(c) ==
  \/ Web!BriefSettled(c) \/ Web!FirstSettled(c) \/ Web!MoreSettled(c)
  \/ Web!PreferencesSettled(c) \/ Web!SessionLoaded(c) \/ Web!ProfileSettled(c)
  \/ Web!SignOutSettled(c)

LEMMA WebsiteNext ==
  ASSUME RequestsRight, Web!Next
  PROVE  \/ \E c : Network(c)
         \/ \E c \in DOMAIN s4 : Answered(c)
         \/ \E s \in Symbols : Web!Visit(s) \/ Web!Age(s)
         \/ \E f \in Filters : Web!Load(f)
         \/ Web!LoadMore \/ Web!LoadPreferences \/ Web!Edit \/ Web!SavePreferences
         \/ Web!ResendVerification \/ Web!LoadSession \/ Web!HandleSubmit \/ Web!SignOut
         \/ /\ \/ Web!Expire \/ Web!FollowLink
               \/ \E f \in Filters : Web!Publish(f) \/ Web!Withdraw(f)
            /\ UNCHANGED <<s1, s3, s4, s5, s6>>
  <1>1. ASSUME NEW c \in DOMAIN s4, Web!AddToken(c) \/ Web!Serve(c) \/ Web!Refused(c)
        PROVE  Network(c)
    BY <1>1, NetworkIs
  <1> QED
    BY <1>1 DEF Web!Next, Answered

LEMMA CompanyStep ==
  ASSUME CompanyInv, Web!Next
  PROVE  CompanyInv'
  <1>1. RequestsRight /\ s1.name = "company" /\ \A c \in DOMAIN s4 : s4[c].what = "brief"
    BY DEF CompanyInv
  <1>2. ASSUME NEW c \in DOMAIN s4, Answered(c)
        PROVE  CompanyInv'
    BY <1>1, <1>2, SettledIs, BriefKept DEF Answered
  <1> QED
    BY <1>1, <1>2, WebsiteNext, PageIs, CompanyNetwork, VisitKept, AgeKept

\* What the cache holds makes no difference to the other pages.
LEMMA FeedStays ==
  ASSUME FeedInv, UNCHANGED <<s1, s2, s4, s5, s7>>
  PROVE  FeedInv'
  BY DEF FeedInv, RequestsRight, FeedsRight, FeedCall, ShownRight, MoreRight

LEMMA SettingsStays ==
  ASSUME SettingsInv, UNCHANGED <<s1, s2, s4, s5, s7>>
  PROVE  SettingsInv'
  BY DEF SettingsInv, RequestsRight

LEMMA SignInStayed ==
  ASSUME SignInInv, UNCHANGED <<s1, s2, s3, s4, s5, s7>>
  PROVE  SignInInv'
  BY DEF SignInInv, RequestsRight

LEMMA AgeIs ==
  ASSUME NEW s, Web!Age(s)
  PROVE  UNCHANGED <<s1, s2, s3, s4, s5, s7>>
  BY DEF Web!Age

LEMMA FeedStep ==
  ASSUME FeedInv, Web!Next
  PROVE  FeedInv'
  <1>1. /\ RequestsRight /\ s1.name = "feed"
        /\ \A c \in DOMAIN s4 : s4[c].what \in {"first", "more"}
    BY DEF FeedInv, FeedCall
  <1>2. ASSUME NEW c \in DOMAIN s4, Answered(c)
        PROVE  FeedInv'
    BY <1>1, <1>2, SettledIs, FirstKept, MoreKept DEF Answered
  <1>3. ASSUME NEW s, Web!Age(s)
        PROVE  FeedInv'
    BY <1>3, AgeIs, FeedStays
  <1>4. ASSUME NEW f \in Filters, Web!Publish(f) \/ Web!Withdraw(f),
               UNCHANGED <<s1, s3, s4, s5, s6>>
        PROVE  FeedInv'
    BY <1>4, PublishKept, WithdrawKept
  <1> QED
    BY <1>1, <1>2, <1>3, <1>4, WebsiteNext, PageIs, FeedNetwork, LoadKept, LoadMoreKept

LEMMA SettingsStep ==
  ASSUME SettingsInv, Web!Next
  PROVE  SettingsInv'
  <1>1. /\ RequestsRight /\ s1.name = "settings"
        /\ \A c \in DOMAIN s4 : s4[c].what \in {"load", "save", "resend"}
    BY DEF SettingsInv
  <1>2. ASSUME NEW c \in DOMAIN s4, Answered(c)
        PROVE  SettingsInv'
    BY <1>1, <1>2, SettledIs, PreferencesKept DEF Answered
  <1>3. ASSUME NEW s, Web!Age(s)
        PROVE  SettingsInv'
    BY <1>3, AgeIs, SettingsStays
  <1> QED
    BY <1>1, <1>2, <1>3, WebsiteNext, PageIs, SettingsNetwork, LoadPreferencesKept, EditKept,
       ChangesAsked, SettingsOutside

LEMMA SignInStep ==
  ASSUME SignInInv, Web!Next
  PROVE  SignInInv'
  <1>1. /\ RequestsRight /\ s1.name = "sign_in"
        /\ \A c \in DOMAIN s4 : s4[c].what \in {"me", "bootstrap", "sign_in", "sign_out"}
    BY DEF SignInInv
  <1>2. ASSUME NEW c \in DOMAIN s4, Answered(c)
        PROVE  SignInInv'
    BY <1>1, <1>2, SettledIs, SettledKept DEF Answered
  <1>3. ASSUME NEW s, Web!Age(s)
        PROVE  SignInInv'
    BY <1>3, AgeIs, SignInStayed
  <1> QED
    BY <1>1, <1>2, <1>3, WebsiteNext, PageIs, SignInNetwork, LoadSessionKept, HandleSubmitKept,
       SignOutKept, SignInExpires

-----------------------------------------------------------------------------
(* Each page opens with nothing asked for.                                      *)
LEMMA RequestsInit ==
  ASSUME Web!Init
  PROVE  RequestsRight /\ DOMAIN s4 = {} /\ s5 = 0
  <1>1. s4 = [c \in {} |-> 0] /\ s5 = 0
    BY DEF Web!Init
  <1>2. DOMAIN s4 = {}
    BY <1>1
  <1>3. DOMAIN s2 = {"provider", "tokens"}
    BY DEF Web!Init
  <1>4. DOMAIN s7 = ServerFields
    BY DEF Web!Init, ServerFields
  <1> QED
    BY <1>1, <1>2, <1>3, <1>4 DEF RequestsRight

LEMMA CompanyInit ==
  ASSUME Web!Init, NEW s \in Symbols, s1 = Web!CompanyPage(s)
  PROVE  CompanyInv
  <1>1. /\ DOMAIN s1 = CompanyFields /\ s1.name = "company" /\ s1.symbol = s
        /\ s1.waits = 0 /\ s1.data = "none"
    BY CompanyPageIs
  <1>2. PICK e : e = Web!NoEntry
    OBVIOUS
  <1>3. DOMAIN e = EntryFields /\ e.call = 0 /\ e.data = "none"
    BY <1>2 DEF Web!NoEntry, Web!NoCall, EntryFields
  <1>4. s6 = [x \in Symbols |-> e]
    BY <1>2 DEF Web!Init
  <1> QED
    BY <1>1, <1>3, <1>4, RequestsInit DEF CompanyInv

LEMMA FeedInit ==
  ASSUME Web!Init, s1 = Web!FeedPage(CHOOSE f \in Filters : TRUE)
  PROVE  FeedInv
  <1>1. PICK f \in Filters : f = CHOOSE g \in Filters : TRUE
    BY PageAssumption
  <1>2. /\ DOMAIN s1 = FeedFields /\ s1.name = "feed" /\ s1.filter = f /\ s1.shown = f
        /\ s1.first = 0 /\ s1.mores = {} /\ s1.cards = <<>> /\ s1.offset = 0
    BY <1>1 DEF Web!FeedPage, FeedFields, Web!NoCall
  <1>3. s7.feed = [g \in Filters |-> [k \in 1..FeedSize |-> <<g, k>>]]
    BY DEF Web!Init
  <1>4. ASSUME NEW g \in Filters
        PROVE  FeedRight(s7.feed[g], g) /\ Whole(g, s7.feed[g], <<>>)
    <2>1. PICK q : q = [k \in 1..FeedSize |-> <<g, k>>]
      OBVIOUS
    <2>2. \A k \in 1..FeedSize : <<g, k>> \in Announcements(g)
      BY PageAssumption DEF Announcements
    <2>3. q \in Seq(Announcements(g)) /\ Len(q) = FeedSize
      BY <2>1, <2>2, PageAssumption
    <2>4. Distinct(q)
      BY <2>1, <2>3 DEF Distinct
    <2>5. Whole(g, q, <<>>)
      BY <2>1, <2>3, ContainsIs DEF Whole
    <2> QED
      BY <1>3, <2>1, <2>3, <2>4, <2>5 DEF FeedRight
  <1>5. FeedsRight
    BY <1>3, <1>4 DEF FeedsRight
  <1>6. ShownRight
    BY <1>2, RequestsInit, EmptyRight DEF ShownRight
  <1>7. RequestsRight /\ \A c \in DOMAIN s4 : FeedCall(c)
    BY RequestsInit
  <1>8. s1.filter \in Filters /\ s1.shown = s1.filter /\ s1.offset \in Nat
    <2>1. s1.filter = f /\ s1.shown = f /\ s1.offset = 0
      BY <1>2
    <2>2. f \in Filters /\ 0 \in Nat
      OBVIOUS
    <2> QED
      BY <2>1, <2>2
  <1> QED
    BY <1>2, <1>5, <1>6, <1>7, <1>8 DEF FeedInv

LEMMA SettingsInit ==
  ASSUME Web!Init, s1 = Web!SettingsPage
  PROVE  SettingsInv
  <1>1. /\ DOMAIN s1 = SettingsFields /\ s1.name = "settings" /\ s1.saved = <<>>
        /\ s1.loading = 0 /\ s1.saving = 0 /\ s1.resending = 0
    BY DEF Web!SettingsPage, SettingsFields, Web!NoCall
  <1> QED
    BY <1>1, RequestsInit DEF SettingsInv

LEMMA SignInInit ==
  ASSUME Web!Init, s1 = Web!SignInPage
  PROVE  SignInInv
  <1>1. DOMAIN s1 = SignInFields /\ s1.name = "sign_in"
    BY DEF Web!SignInPage, SignInFields
  <1>2. s3 => s7.profile
    BY DEF Web!Init
  <1> QED
    BY <1>1, <1>2, RequestsInit DEF SignInInv

WebsiteInv == CompanyInv \/ FeedInv \/ SettingsInv \/ SignInInv

LEMMA WebsiteInit ==
  ASSUME Web!Init
  PROVE  WebsiteInv
  <1>1. \/ \E s \in Symbols : s1 = Web!CompanyPage(s)
        \/ s1 = Web!FeedPage(CHOOSE f \in Filters : TRUE)
        \/ s1 = Web!SettingsPage \/ s1 = Web!SignInPage
    BY DEF Web!Init
  <1> QED
    BY <1>1, CompanyInit, FeedInit, SettingsInit, SignInInit DEF WebsiteInv

LEMMA WebsiteStep ==
  ASSUME WebsiteInv, Web!Next \/ UNCHANGED <<s1, s2, s3, s4, s5, s6, s7>>
  PROVE  WebsiteInv'
  <1>1. CASE Web!Next
    BY <1>1, CompanyStep, FeedStep, SettingsStep, SignInStep DEF WebsiteInv
  <1>2. CASE UNCHANGED <<s1, s2, s3, s4, s5, s6, s7>>
    <2>1. CompanyInv => CompanyInv'
      BY <1>2 DEF CompanyInv, RequestsRight
    <2> QED
      BY <1>2, <2>1, FeedStays, SettingsStays, SignInStayed DEF WebsiteInv
  <1> QED
    BY <1>1, <1>2

LEMMA WebsitePromises ==
  ASSUME WebsiteInv
  PROVE  Web!CompanyShown /\ Web!FeedWhole /\ Web!SettingsShown /\ Web!HintEarned
  <1>1. CompanyInv => s1.name = "company" /\ Web!CompanyShown
    BY CompanyPromise DEF CompanyInv
  <1>2. FeedInv => s1.name = "feed" /\ Web!FeedWhole
    BY FeedPromise DEF FeedInv
  <1>3. SettingsInv => s1.name = "settings" /\ Web!SettingsShown
    BY SettingsPromise DEF SettingsInv
  <1>4. SignInInv => s1.name = "sign_in" /\ Web!HintEarned
    BY SignInPromise DEF SignInInv
  <1>5. /\ s1.name # "company" => Web!CompanyShown
        /\ s1.name # "feed" => Web!FeedWhole
        /\ s1.name # "settings" => Web!SettingsShown
        /\ s1.name # "sign_in" => Web!HintEarned
    BY DEF Web!CompanyShown, Web!FeedWhole, Web!SettingsShown, Web!HintEarned
  <1> QED
    BY <1>1, <1>2, <1>3, <1>4, <1>5 DEF WebsiteInv

-----------------------------------------------------------------------------
(* Accounts: the theorems about them, with the slots for their state. The       *)
(* module is the same one, and so is every step of it.                          *)
AccP == INSTANCE AccountsProofs WITH
  auth <- s1, emails <- s2, investors <- s3, sessions <- s4, watchlists <- s5, entries <- s6,
  profiles <- s7, made <- s8, req <- s9

LEMMA AskSteps ==
  ASSUME NEW r, NEW op, Acc!Ask(r, op)
  PROVE  AccP!Ask(r, op)
  BY DEF Acc!Ask, AccP!Ask, Acc!Signed, AccP!Signed,
         Acc!NoRequest, AccP!NoRequest, Acc!Nobody, AccP!Nobody, Acc!None, AccP!None,
         Acc!Step, AccP!Step, Acc!Reads, AccP!Reads, Acc!data, AccP!data, Acc!Who, AccP!Who

LEMMA SignInSteps ==
  ASSUME NEW r
  PROVE  /\ Acc!GetUser(r) => AccP!GetUser(r)
         /\ Acc!CognitoInvestor(r) => AccP!CognitoInvestor(r)
         /\ Acc!SessionInvestor(r) => AccP!SessionInvestor(r)
         /\ Acc!Permit(r) => AccP!Permit(r)
  <1>1. Acc!GetUser(r) => AccP!GetUser(r)
    BY DEF Acc!GetUser, AccP!GetUser, Acc!Step, AccP!Step, Acc!Refuse, AccP!Refuse,
           Acc!NoRequest, AccP!NoRequest, Acc!Nobody, AccP!Nobody, Acc!None, AccP!None,
           Acc!Reads, AccP!Reads, Acc!data, AccP!data, Acc!AtStep, AccP!AtStep
  <1>2. Acc!CognitoInvestor(r) => AccP!CognitoInvestor(r)
    BY DEF Acc!CognitoInvestor, AccP!CognitoInvestor, Acc!Signed, AccP!Signed,
           Acc!Managing, AccP!Managing, Acc!BySubject, AccP!BySubject, Acc!Step, AccP!Step,
           Acc!Refuse, AccP!Refuse, Acc!NoRequest, AccP!NoRequest, Acc!Nobody, AccP!Nobody,
           Acc!None, AccP!None, Acc!Reads, AccP!Reads, Acc!data, AccP!data,
           Acc!UseCognito, AccP!UseCognito
  <1>3. Acc!SessionInvestor(r) => AccP!SessionInvestor(r)
    BY DEF Acc!SessionInvestor, AccP!SessionInvestor, Acc!Signed, AccP!Signed,
           Acc!Managing, AccP!Managing, Acc!Without, AccP!Without, Acc!Step, AccP!Step,
           Acc!Refuse, AccP!Refuse, Acc!NoRequest, AccP!NoRequest, Acc!Nobody, AccP!Nobody,
           Acc!None, AccP!None, Acc!UseCognito, AccP!UseCognito
  <1>4. Acc!Permit(r) => AccP!Permit(r)
    BY DEF Acc!Permit, AccP!Permit, Acc!Managing, AccP!Managing, Acc!Step, AccP!Step,
           Acc!Refuse, AccP!Refuse, Acc!NoRequest, AccP!NoRequest, Acc!Nobody, AccP!Nobody,
           Acc!None, AccP!None, Acc!Answered, AccP!Answered, Acc!Reads, AccP!Reads,
           Acc!data, AccP!data
  <1> QED
    BY <1>1, <1>2, <1>3, <1>4

LEMMA BootstrapSteps ==
  ASSUME NEW r
  PROVE  /\ Acc!FindSubject(r) => AccP!FindSubject(r)
         /\ Acc!CheckOwner(r) => AccP!CheckOwner(r)
         /\ Acc!Rename(r) => AccP!Rename(r)
         /\ Acc!FindEmail(r) => AccP!FindEmail(r)
         /\ Acc!Link(r) => AccP!Link(r)
         /\ Acc!Insert(r) => AccP!Insert(r)
         /\ Acc!Reread(r) => AccP!Reread(r)
  <1>1. Acc!FindSubject(r) => AccP!FindSubject(r)
    BY DEF Acc!FindSubject, AccP!FindSubject, Acc!BySubject, AccP!BySubject,
           Acc!Step, AccP!Step, Acc!Reads, AccP!Reads, Acc!data, AccP!data,
           Acc!AtStep, AccP!AtStep
  <1>2. Acc!CheckOwner(r) => AccP!CheckOwner(r)
    BY DEF Acc!CheckOwner, AccP!CheckOwner, Acc!ByEmail, AccP!ByEmail, Acc!Step, AccP!Step,
           Acc!Refuse, AccP!Refuse, Acc!NoRequest, AccP!NoRequest, Acc!Nobody, AccP!Nobody,
           Acc!None, AccP!None, Acc!Answered, AccP!Answered, Acc!Reads, AccP!Reads,
           Acc!data, AccP!data, Acc!AtStep, AccP!AtStep
  <1>3. Acc!Rename(r) => AccP!Rename(r)
    BY DEF Acc!Rename, AccP!Rename, Acc!Refuse, AccP!Refuse, Acc!NoRequest, AccP!NoRequest,
           Acc!Nobody, AccP!Nobody, Acc!None, AccP!None, Acc!Step, AccP!Step,
           Acc!AtStep, AccP!AtStep, Acc!Committed, AccP!Committed, Acc!Unique, AccP!Unique,
           Acc!Answered, AccP!Answered
  <1>4. Acc!FindEmail(r) => AccP!FindEmail(r)
    BY DEF Acc!FindEmail, AccP!FindEmail, Acc!Nobody, AccP!Nobody,
           Acc!ByEmail, AccP!ByEmail, Acc!Step, AccP!Step, Acc!Refuse, AccP!Refuse,
           Acc!NoRequest, AccP!NoRequest, Acc!None, AccP!None, Acc!Reads, AccP!Reads,
           Acc!data, AccP!data, Acc!AtStep, AccP!AtStep
  <1>5. Acc!Link(r) => AccP!Link(r)
    BY DEF Acc!Link, AccP!Link, Acc!Step, AccP!Step, Acc!Refuse, AccP!Refuse,
           Acc!NoRequest, AccP!NoRequest, Acc!Nobody, AccP!Nobody, Acc!None, AccP!None,
           Acc!AtStep, AccP!AtStep, Acc!Committed, AccP!Committed, Acc!Unique, AccP!Unique,
           Acc!Answered, AccP!Answered
  <1>6. Acc!Insert(r) => AccP!Insert(r)
    BY DEF Acc!Insert, AccP!Insert, Acc!Row, AccP!Row, Acc!Step, AccP!Step,
           Acc!Answered, AccP!Answered, Acc!NoRequest, AccP!NoRequest,
           Acc!Nobody, AccP!Nobody, Acc!None, AccP!None, Acc!AtStep, AccP!AtStep,
           Acc!Inserted, AccP!Inserted, Acc!Unique, AccP!Unique, Acc!Extended, AccP!Extended
  <1>7. Acc!Reread(r) => AccP!Reread(r)
    BY DEF Acc!Reread, AccP!Reread, Acc!Refuse, AccP!Refuse, Acc!NoRequest, AccP!NoRequest,
           Acc!Nobody, AccP!Nobody, Acc!None, AccP!None, Acc!Step, AccP!Step,
           Acc!Answered, AccP!Answered, Acc!Reads, AccP!Reads, Acc!data, AccP!data,
           Acc!AtStep, AccP!AtStep, Acc!Concurrent, AccP!Concurrent,
           Acc!BySubject, AccP!BySubject
  <1> QED
    BY <1>1, <1>2, <1>3, <1>4, <1>5, <1>6, <1>7

LEMMA LegacySteps ==
  ASSUME NEW r
  PROVE  /\ Acc!FindAccount(r) => AccP!FindAccount(r)
         /\ Acc!CreateAccount(r) => AccP!CreateAccount(r)
         /\ Acc!CreateSession(r) => AccP!CreateSession(r)
         /\ Acc!SignOut(r) => AccP!SignOut(r)
  <1>1. Acc!FindAccount(r) => AccP!FindAccount(r)
    BY DEF Acc!FindAccount, AccP!FindAccount, Acc!ByEmail, AccP!ByEmail,
           Acc!Step, AccP!Step, Acc!Refuse, AccP!Refuse, Acc!NoRequest, AccP!NoRequest,
           Acc!Nobody, AccP!Nobody, Acc!None, AccP!None, Acc!Reads, AccP!Reads,
           Acc!data, AccP!data
  <1>2. Acc!CreateAccount(r) => AccP!CreateAccount(r)
    BY DEF Acc!CreateAccount, AccP!CreateAccount, Acc!Nobody, AccP!Nobody,
           Acc!Row, AccP!Row, Acc!Step, AccP!Step, Acc!Refuse, AccP!Refuse,
           Acc!NoRequest, AccP!NoRequest, Acc!None, AccP!None, Acc!AtStep, AccP!AtStep,
           Acc!Inserted, AccP!Inserted, Acc!Unique, AccP!Unique, Acc!Extended, AccP!Extended
  <1>3. Acc!CreateSession(r) => AccP!CreateSession(r)
    BY DEF Acc!CreateSession, AccP!CreateSession, Acc!Extended, AccP!Extended,
           Acc!Refuse, AccP!Refuse, Acc!NoRequest, AccP!NoRequest, Acc!Nobody, AccP!Nobody,
           Acc!None, AccP!None, Acc!Step, AccP!Step, Acc!Answered, AccP!Answered
  <1>4. Acc!SignOut(r) => AccP!SignOut(r)
    BY DEF Acc!SignOut, AccP!SignOut, Acc!Without, AccP!Without, Acc!Refuse, AccP!Refuse,
           Acc!NoRequest, AccP!NoRequest, Acc!Nobody, AccP!Nobody, Acc!None, AccP!None,
           Acc!Step, AccP!Step, Acc!Done, AccP!Done, Acc!AtStep, AccP!AtStep
  <1> QED
    BY <1>1, <1>2, <1>3, <1>4

LEMMA ListSteps ==
  ASSUME NEW r
  PROVE  /\ Acc!CreateList(r) => AccP!CreateList(r)
         /\ Acc!CheckList(r) => AccP!CheckList(r)
         /\ Acc!DeleteList(r) => AccP!DeleteList(r)
         /\ Acc!FindEntry(r) => AccP!FindEntry(r)
         /\ Acc!AddTicker(r) => AccP!AddTicker(r)
         /\ Acc!RemoveTicker(r) => AccP!RemoveTicker(r)
  <1>1. Acc!CreateList(r) => AccP!CreateList(r)
    BY DEF Acc!CreateList, AccP!CreateList, Acc!Extended, AccP!Extended,
           Acc!Refuse, AccP!Refuse, Acc!NoRequest, AccP!NoRequest, Acc!Nobody, AccP!Nobody,
           Acc!None, AccP!None, Acc!Step, AccP!Step, Acc!Done, AccP!Done,
           Acc!AtStep, AccP!AtStep
  <1>2. Acc!CheckList(r) => AccP!CheckList(r)
    BY DEF Acc!CheckList, AccP!CheckList, Acc!Step, AccP!Step, Acc!Refuse, AccP!Refuse,
           Acc!NoRequest, AccP!NoRequest, Acc!Nobody, AccP!Nobody, Acc!None, AccP!None,
           Acc!Reads, AccP!Reads, Acc!data, AccP!data, Acc!Owned, AccP!Owned
  <1>3. Acc!DeleteList(r) => AccP!DeleteList(r)
    BY DEF Acc!DeleteList, AccP!DeleteList, Acc!Without, AccP!Without,
           Acc!Refuse, AccP!Refuse, Acc!NoRequest, AccP!NoRequest, Acc!Nobody, AccP!Nobody,
           Acc!None, AccP!None, Acc!Step, AccP!Step, Acc!Done, AccP!Done,
           Acc!AtStep, AccP!AtStep
  <1>4. Acc!FindEntry(r) => AccP!FindEntry(r)
    BY DEF Acc!FindEntry, AccP!FindEntry, Acc!Step, AccP!Step, Acc!Done, AccP!Done,
           Acc!NoRequest, AccP!NoRequest, Acc!Nobody, AccP!Nobody, Acc!None, AccP!None,
           Acc!Reads, AccP!Reads, Acc!data, AccP!data
  <1>5. Acc!AddTicker(r) => AccP!AddTicker(r)
    BY DEF Acc!AddTicker, AccP!AddTicker, Acc!Refuse, AccP!Refuse,
           Acc!NoRequest, AccP!NoRequest, Acc!Nobody, AccP!Nobody, Acc!None, AccP!None,
           Acc!Step, AccP!Step, Acc!Done, AccP!Done, Acc!AtStep, AccP!AtStep
  <1>6. Acc!RemoveTicker(r) => AccP!RemoveTicker(r)
    BY DEF Acc!RemoveTicker, AccP!RemoveTicker, Acc!Refuse, AccP!Refuse,
           Acc!NoRequest, AccP!NoRequest, Acc!Nobody, AccP!Nobody, Acc!None, AccP!None,
           Acc!Step, AccP!Step, Acc!Done, AccP!Done, Acc!AtStep, AccP!AtStep
  <1> QED
    BY <1>1, <1>2, <1>3, <1>4, <1>5, <1>6

LEMMA InvestorSteps ==
  ASSUME NEW r
  PROVE  /\ Acc!CreateInvestor(r) => AccP!CreateInvestor(r)
         /\ Acc!UpdateInvestor(r) => AccP!UpdateInvestor(r)
         /\ Acc!DeleteInvestor(r) => AccP!DeleteInvestor(r)
  <1>1. Acc!CreateInvestor(r) => AccP!CreateInvestor(r)
    BY DEF Acc!CreateInvestor, AccP!CreateInvestor, Acc!Nobody, AccP!Nobody,
           Acc!Row, AccP!Row, Acc!Refuse, AccP!Refuse, Acc!NoRequest, AccP!NoRequest,
           Acc!None, AccP!None, Acc!Step, AccP!Step, Acc!Done, AccP!Done,
           Acc!AtStep, AccP!AtStep, Acc!Inserted, AccP!Inserted, Acc!Unique, AccP!Unique,
           Acc!Extended, AccP!Extended
  <1>2. Acc!UpdateInvestor(r) => AccP!UpdateInvestor(r)
    BY DEF Acc!UpdateInvestor, AccP!UpdateInvestor, Acc!Unique, AccP!Unique,
           Acc!Nobody, AccP!Nobody, Acc!Refuse, AccP!Refuse, Acc!NoRequest, AccP!NoRequest,
           Acc!None, AccP!None, Acc!Step, AccP!Step, Acc!Done, AccP!Done,
           Acc!AtStep, AccP!AtStep
  <1>3. Acc!DeleteInvestor(r) => AccP!DeleteInvestor(r)
    BY DEF Acc!DeleteInvestor, AccP!DeleteInvestor, Acc!Without, AccP!Without,
           Acc!Refuse, AccP!Refuse, Acc!NoRequest, AccP!NoRequest, Acc!Nobody, AccP!Nobody,
           Acc!None, AccP!None, Acc!Step, AccP!Step, Acc!Done, AccP!Done,
           Acc!AtStep, AccP!AtStep
  <1> QED
    BY <1>1, <1>2, <1>3

LEMMA EmailSteps ==
  ASSUME NEW i, Acc!ChangeEmail(i)
  PROVE  AccP!ChangeEmail(i)
  BY DEF Acc!ChangeEmail, AccP!ChangeEmail, Acc!data, AccP!data

LEMMA AccountsInit ==
  ASSUME Acc!Init
  PROVE  AccP!IInv
  <1>1. \A T : Acc!Cardinality(T) = AccP!Cardinality(T)
    BY DEF Acc!Cardinality, AccP!Cardinality
  <1>2. AccP!Init
    BY <1>1 DEF Acc!Init, AccP!Init, Acc!Nobody, AccP!Nobody, Acc!Row, AccP!Row,
                Acc!NoRequest, AccP!NoRequest, Acc!None, AccP!None
  <1>3. AccP!Nobody \notin Identities
    BY NobodyAssumption DEF Acc!Nobody, AccP!Nobody
  <1> QED
    BY <1>2, <1>3, AccP!InitIInv

LEMMA AccountsStep ==
  ASSUME AccP!IInv, Acc!Next
  PROVE  AccP!IInv'
  <1>1. AccP!Next
    <2>1. ASSUME NEW r \in Requests, NEW op \in Acc!Ops, Acc!Ask(r, op)
          PROVE  AccP!Next
      BY <2>1, AskSteps DEF AccP!Next, Acc!Ops, AccP!Ops, Acc!Signed, AccP!Signed,
                            Acc!Managing, AccP!Managing
    <2>2. ASSUME NEW r \in Requests,
                 \/ Acc!GetUser(r) \/ Acc!CognitoInvestor(r) \/ Acc!SessionInvestor(r)
                 \/ Acc!Permit(r)
          PROVE  AccP!Next
      BY <2>2, SignInSteps DEF AccP!Next
    <2>3. ASSUME NEW r \in Requests,
                 \/ Acc!FindSubject(r) \/ Acc!CheckOwner(r) \/ Acc!Rename(r)
                 \/ Acc!FindEmail(r) \/ Acc!Link(r) \/ Acc!Insert(r)
                 \/ Acc!Reread(r)
          PROVE  AccP!Next
      BY <2>3, BootstrapSteps DEF AccP!Next
    <2>4. ASSUME NEW r \in Requests,
                 \/ Acc!FindAccount(r) \/ Acc!CreateAccount(r) \/ Acc!CreateSession(r)
                 \/ Acc!SignOut(r)
          PROVE  AccP!Next
      BY <2>4, LegacySteps DEF AccP!Next
    <2>5. ASSUME NEW r \in Requests,
                 \/ Acc!CreateList(r) \/ Acc!CheckList(r) \/ Acc!DeleteList(r)
                 \/ Acc!FindEntry(r) \/ Acc!AddTicker(r) \/ Acc!RemoveTicker(r)
          PROVE  AccP!Next
      BY <2>5, ListSteps DEF AccP!Next
    <2>6. ASSUME NEW r \in Requests,
                 \/ Acc!CreateInvestor(r) \/ Acc!UpdateInvestor(r) \/ Acc!DeleteInvestor(r)
          PROVE  AccP!Next
      BY <2>6, InvestorSteps DEF AccP!Next
    <2>7. ASSUME NEW i \in Identities, Acc!ChangeEmail(i)
          PROVE  AccP!Next
      BY <2>7, EmailSteps DEF AccP!Next
    <2> QED
      BY <2>1, <2>2, <2>3, <2>4, <2>5, <2>6, <2>7 DEF Acc!Next
  <1>2. AccP!Nobody \notin Identities
    BY NobodyAssumption DEF Acc!Nobody, AccP!Nobody
  <1> QED
    BY <1>1, <1>2, AccP!StepIInv

LEMMA AccountsPromises ==
  ASSUME AccP!IInv
  PROVE  Acc!ProfilesKept /\ Acc!OnlyOwners
  <1>1. ASSUME NEW p \in DOMAIN s3, NEW r \in Acc!AnsweredWith(p)
        PROVE  s3[p].sub = s9[r].who \/ Acc!Relinked(p)
    <2>1. /\ r \in Requests /\ s9[r].op = "bootstrap" /\ s9[r].answer = "profile"
          /\ s9[r].found = p
      BY DEF Acc!AnsweredWith
    <2>2. AccP!Relinked(p) => Acc!Relinked(p)
      BY DEF AccP!Relinked, Acc!Relinked, AccP!AnsweredWith, Acc!AnsweredWith
    <2> QED
      BY <2>1, <2>2 DEF AccP!IInv, AccP!Right, AccP!Bootstraps
  <1>2. Acc!OnlyOwners
    BY DEF AccP!IInv, AccP!Right, AccP!Changes, Acc!OnlyOwners
  <1> QED
    BY <1>1, <1>2 DEF Acc!ProfilesKept

LEMMA AccountsStay ==
  ASSUME AccP!IInv, UNCHANGED <<s1, s2, s3, s4, s5, s6, s7, s8, s9>>
  PROVE  AccP!IInv'
  BY DEF AccP!IInv, AccP!DataTypes, AccP!Rows, AccP!Right,
         AccP!RequestTypes, AccP!RequestsOf, AccP!Answers, AccP!Bootstraps, AccP!Changes,
         AccP!Relinked, AccP!AnsweredWith

-----------------------------------------------------------------------------
(* The watchlist page, in the same way.                                         *)
WatP == INSTANCE WatchlistPageProofs WITH
  state <- s1, dialog <- s2, tasks <- s3, started <- s4, lists <- s5, behind <- s6

LEMMA LoadSteps ==
  ASSUME NEW x
  PROVE  /\ Wat!FetchCurrentInvestor(x) => WatP!FetchCurrentInvestor(x)
         /\ Wat!FetchWatchlistSummary(x) => WatP!FetchWatchlistSummary(x)
         /\ Wat!ShowSummary(x) => WatP!ShowSummary(x)
         /\ Wat!LoadFails(x) => WatP!LoadFails(x)
         /\ Wat!TickersListed(x) => WatP!TickersListed(x)
  <1>1. Wat!FetchCurrentInvestor(x) => WatP!FetchCurrentInvestor(x)
    BY DEF Wat!FetchCurrentInvestor, WatP!FetchCurrentInvestor, Wat!Goes, WatP!Goes,
           Wat!AtStep, WatP!AtStep, Wat!LoadOver, WatP!LoadOver, Wat!Ends, WatP!Ends,
           Wat!Closed, WatP!Closed
  <1>2. Wat!FetchWatchlistSummary(x) => WatP!FetchWatchlistSummary(x)
    BY DEF Wat!FetchWatchlistSummary, WatP!FetchWatchlistSummary, Wat!Oldest, WatP!Oldest,
           Wat!NoList, WatP!NoList, Wat!On, WatP!On, Wat!AtStep, WatP!AtStep
  <1>3. Wat!ShowSummary(x) => WatP!ShowSummary(x)
    BY DEF Wat!ShowSummary, WatP!ShowSummary, Wat!AtStep, WatP!AtStep,
           Wat!LoadOver, WatP!LoadOver, Wat!Ends, WatP!Ends, Wat!Closed, WatP!Closed
  <1>4. Wat!LoadFails(x) => WatP!LoadFails(x)
    BY DEF Wat!LoadFails, WatP!LoadFails, Wat!AtStep, WatP!AtStep,
           Wat!LoadOver, WatP!LoadOver, Wat!Ends, WatP!Ends, Wat!Closed, WatP!Closed
  <1>5. Wat!TickersListed(x) => WatP!TickersListed(x)
    BY DEF Wat!TickersListed, WatP!TickersListed, Wat!Ends, WatP!Ends,
           Wat!AtStep, WatP!AtStep
  <1> QED
    BY <1>1, <1>2, <1>3, <1>4, <1>5

LEMMA AddSteps ==
  ASSUME NEW x
  PROVE  /\ Wat!CreateWatchlist(x) => WatP!CreateWatchlist(x)
         /\ Wat!WatchlistCreated(x) => WatP!WatchlistCreated(x)
         /\ Wat!AddWatchlistTicker(x) => WatP!AddWatchlistTicker(x)
         /\ Wat!TickerAdded(x) => WatP!TickerAdded(x)
         /\ Wat!AddFails(x) => WatP!AddFails(x)
  <1>1. Wat!CreateWatchlist(x) => WatP!CreateWatchlist(x)
    BY DEF Wat!CreateWatchlist, WatP!CreateWatchlist, Wat!AtStep, WatP!AtStep
  <1>2. Wat!WatchlistCreated(x) => WatP!WatchlistCreated(x)
    BY DEF Wat!WatchlistCreated, WatP!WatchlistCreated, Wat!Goes, WatP!Goes,
           Wat!AtStep, WatP!AtStep
  <1>3. Wat!AddWatchlistTicker(x) => WatP!AddWatchlistTicker(x)
    BY DEF Wat!AddWatchlistTicker, WatP!AddWatchlistTicker, Wat!Goes, WatP!Goes,
           Wat!AtStep, WatP!AtStep
  <1>4. Wat!TickerAdded(x) => WatP!TickerAdded(x)
    BY DEF Wat!TickerAdded, WatP!TickerAdded, Wat!AtStep, WatP!AtStep,
           Wat!LoadBegins, WatP!LoadBegins, Wat!Goes, WatP!Goes, Wat!Others, WatP!Others
  <1>5. Wat!AddFails(x) => WatP!AddFails(x)
    BY DEF Wat!AddFails, WatP!AddFails, Wat!Ends, WatP!Ends, Wat!AtStep, WatP!AtStep
  <1> QED
    BY <1>1, <1>2, <1>3, <1>4, <1>5

LEMMA RemoveSteps ==
  ASSUME NEW x
  PROVE  /\ Wat!RemoveWatchlistTicker(x) => WatP!RemoveWatchlistTicker(x)
         /\ Wat!TickerRemoved(x) => WatP!TickerRemoved(x)
         /\ Wat!RemovalFails(x) => WatP!RemovalFails(x)
  <1>1. Wat!RemoveWatchlistTicker(x) => WatP!RemoveWatchlistTicker(x)
    BY DEF Wat!RemoveWatchlistTicker, WatP!RemoveWatchlistTicker, Wat!Goes, WatP!Goes,
           Wat!AtStep, WatP!AtStep
  <1>2. Wat!TickerRemoved(x) => WatP!TickerRemoved(x)
    BY DEF Wat!TickerRemoved, WatP!TickerRemoved, Wat!Ends, WatP!Ends,
           Wat!AtStep, WatP!AtStep
  <1>3. Wat!RemovalFails(x) => WatP!RemovalFails(x)
    BY DEF Wat!RemovalFails, WatP!RemovalFails, Wat!AtStep, WatP!AtStep,
           Wat!LoadBegins, WatP!LoadBegins, Wat!Goes, WatP!Goes, Wat!Others, WatP!Others
  <1> QED
    BY <1>1, <1>2, <1>3

LEMMA CompanySteps ==
  ASSUME NEW x
  PROVE  /\ Wat!AddCompany(x) => WatP!AddCompany(x)
         /\ Wat!RemoveCompany(x) => WatP!RemoveCompany(x)
  <1>1. Wat!AddCompany(x) => WatP!AddCompany(x)
    BY DEF Wat!AddCompany, WatP!AddCompany, Wat!NoList, WatP!NoList, Wat!Task, WatP!Task,
           Wat!Others, WatP!Others, Wat!Begin, WatP!Begin, Wat!Offered, WatP!Offered
  <1>2. Wat!RemoveCompany(x) => WatP!RemoveCompany(x)
    BY DEF Wat!RemoveCompany, WatP!RemoveCompany, Wat!NoList, WatP!NoList,
           Wat!Task, WatP!Task, Wat!Others, WatP!Others, Wat!Begin, WatP!Begin,
           Wat!HasCard, WatP!HasCard
  <1> QED
    BY <1>1, <1>2

LEMMA DialogSteps ==
  /\ Wat!TryAgain => WatP!TryAgain
  /\ Wat!OpenAddCompany => WatP!OpenAddCompany
  /\ Wat!CloseAddCompany => WatP!CloseAddCompany
  <1>1. Wat!TryAgain => WatP!TryAgain
    BY DEF Wat!TryAgain, WatP!TryAgain, Wat!NoList, WatP!NoList, Wat!Task, WatP!Task,
           Wat!Others, WatP!Others, Wat!Begin, WatP!Begin
  <1>2. Wat!OpenAddCompany => WatP!OpenAddCompany
    BY DEF Wat!OpenAddCompany, WatP!OpenAddCompany, Wat!NoList, WatP!NoList,
           Wat!Task, WatP!Task, Wat!Begin, WatP!Begin, Wat!HasAddButton, WatP!HasAddButton
  <1>3. Wat!CloseAddCompany => WatP!CloseAddCompany
    BY DEF Wat!CloseAddCompany, WatP!CloseAddCompany, Wat!Closed, WatP!Closed
  <1> QED
    BY <1>1, <1>2, <1>3

LEMMA WatchlistInit ==
  ASSUME Wat!Init
  PROVE  WatP!IInv
  <1>1. WatP!Init
    BY DEF Wat!Init, WatP!Init, Wat!NoList, WatP!NoList, Wat!Task, WatP!Task
  <1> QED
    BY <1>1, WatP!InitIInv

LEMMA WatchlistStep ==
  ASSUME WatP!IInv, Wat!Next \/ UNCHANGED <<s1, s2, s3, s4, s5, s6>>
  PROVE  WatP!IInv'
  <1>1. Wat!Next => WatP!Next
    BY LoadSteps, AddSteps, RemoveSteps, CompanySteps, DialogSteps DEF Wat!Next, WatP!Next
  <1>2. UNCHANGED <<s1, s2, s3, s4, s5, s6>> => UNCHANGED WatP!vars
    BY DEF WatP!vars
  <1>3. [WatP!Next]_WatP!vars
    BY <1>1, <1>2
  <1> QED
    BY <1>3, WatP!StepIInv

LEMMA WatchlistPromise ==
  ASSUME WatP!IInv
  PROVE  Wat!ListShown
  <1>1. WatP!ListShown
    <2>1. WatP!Others(0) = WatP!Busy
      BY WatP!OthersAre DEF WatP!IInv
    <2> QED
      BY <2>1 DEF WatP!IInv, WatP!Alone, WatP!ListShown, WatP!Fits, WatP!Hidden
  <1> QED
    BY <1>1 DEF Wat!ListShown, WatP!ListShown, Wat!Others, WatP!Others, Wat!Oldest, WatP!Oldest,
                Wat!On, WatP!On, Wat!NoList, WatP!NoList

-----------------------------------------------------------------------------
(* One behaviour runs one part: its invariant is the invariant of that part.    *)
PeopleInv ==
  /\ part = "accounts" => AccP!IInv
  /\ part = "website" => WebsiteInv
  /\ part = "watchlist" => WatP!IInv

LEMMA PeopleStay ==
  ASSUME PeopleInv, UNCHANGED <<part, all>>
  PROVE  PeopleInv'
  <1>1. UNCHANGED <<part, s1, s2, s3, s4, s5, s6, s7, s8, s9>>
    BY DEF all
  <1>2. AccP!IInv => AccP!IInv'
    BY <1>1, AccountsStay
  <1>3. WebsiteInv => WebsiteInv'
    BY <1>1, WebsiteStep
  <1>4. WatP!IInv => WatP!IInv'
    BY <1>1, WatchlistStep
  <1> QED
    BY <1>1, <1>2, <1>3, <1>4 DEF PeopleInv

(* Accounts and the website: for any number of identities, requests, profiles    *)
(* and lists, concurrent first sign-ins leave each identity its own profile and  *)
(* watchlists change only for their owners (crud/investor.py, core/cognito.py);  *)
(* for any number of requests, companies, filters and announcements, and pages   *)
(* of any size, late answers leave each page showing what it asked for           *)
(* (useCompanyResource.js, announcements, settings and sign-in pages); and the   *)
(* watchlist page shows the API's list in the end (watchlist/page.jsx).          *)
THEOREM PeopleAreKept == Spec => []PeopleKept
  <1>1. Init => PeopleInv
    BY AccountsInit, WebsiteInit, WatchlistInit DEF Init, PeopleInv
  <1>2. PeopleInv /\ [Next]_<<part, all>> => PeopleInv'
    <2>1. PeopleInv /\ Next => PeopleInv'
      BY AccountsStep, WebsiteStep, WatchlistStep DEF Next, PeopleInv
    <2> QED
      BY <2>1, PeopleStay
  <1>3. PeopleInv => PeopleKept
    BY AccountsPromises, WebsitePromises, WatchlistPromise DEF PeopleInv, PeopleKept
  <1> QED
    BY <1>1, <1>2, <1>3, PTL DEF Spec
=============================================================================
