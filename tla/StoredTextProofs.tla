-------------------------- MODULE StoredTextProofs --------------------------
(***************************************************************************)
(* What holds of stored posts and stories whatever the sources return and  *)
(* however many collections, workers and copies there are: the types, that *)
(* a run reported as finished had every post taken for analysis, that a    *)
(* queued post still has something that will end it, and that the whole    *)
(* implements what TextLife promises of each text.                         *)
(***************************************************************************)
EXTENDS StoredText, TLAPS

-----------------------------------------------------------------------------
(* Types *)

\* A worker that is not idle has a message, and past its receipt a text's.
WorkersHold ==
  \A w \in Workers :
    /\ workers[w].pc # "idle" => workers[w].msg \in Messages
    /\ workers[w].pc \notin {"idle", "received"} => workers[w].msg.kind = "text"
\* A collector that is past its look-up has a post in hand.
CollectorsHold ==
  \A c \in Collectors :
    collectors[c].pc \in {"inserting", "linking", "sending", "marking"}
      => collectors[c].post \in Posts
TypeInv == TypeOK /\ WorkersHold /\ CollectorsHold

\* A new status leaves the artifacts well-formed and the rest of them alone.
LEMMA StatusSet ==
  ASSUME post \in [Posts -> Row], NEW p \in Posts, NEW s \in PostStatuses,
         SetStatus(p, s)
  PROVE  /\ post' \in [Posts -> Row]
         /\ \A o \in Posts : /\ post'[o].source = post[o].source
                             /\ post'[o].matched = post[o].matched
                             /\ post'[o].status = IF o = p THEN s ELSE post[o].status
BY DEF SetStatus, Row, PostStatuses

\* What a collector writes to itself is its new state, and the others keep theirs.
LEMMA Collects ==
  ASSUME collectors \in [Collectors -> Collector], NEW c \in Collectors,
         NEW q \in Collector, Collect(c, q)
  PROVE  /\ collectors' \in [Collectors -> Collector]
         /\ collectors'[c] = q
         /\ \A o \in Collectors \ {c} : collectors'[o] = collectors[o]
BY DEF Collect

\* The same of a worker.
LEMMA Works ==
  ASSUME workers \in [Workers -> Worker], NEW w \in Workers, NEW q \in Worker,
         Work(w, q)
  PROVE  /\ workers' \in [Workers -> Worker]
         /\ workers'[w] = q
         /\ \A o \in Workers \ {w} : workers'[o] = workers[o]
BY DEF Work

\* An idle collector, and an idle worker, are well-formed.
LEMMA IdleTyped == Idle \in Collector /\ Idle.pc = "idle"
BY DEF Idle, Collector, CollectPcs, Kinds, PostStatuses
LEMMA RestingTyped == Resting \in Worker /\ Resting.pc = "idle"
BY DEF Resting, Worker, WorkPcs, Metadata, NoMetadata

\* Going on keeps a collector well-formed: it is idle, or looks further with the
\* same posts left to do.
LEMMA OnwardIs ==
  ASSUME NEW q \in Collector
  PROVE  /\ Onward(q) \in Collector
         /\ Onward(q).pc \in {"idle", "looking"}
         /\ q.kind = "discussion"
              => /\ Onward(q).pc = "looking" /\ Onward(q).kind = "discussion"
                 /\ Onward(q).left = q.left /\ Onward(q).key = q.key
         /\ Onward(q).pc = "looking" => Onward(q).kind = q.kind
<1>1. Onward(q) = Idle \/ Onward(q) = [q EXCEPT !.pc = "looking", !.post = "none",
                                                !.seen = "absent"]
  BY DEF Onward
<1>2. [q EXCEPT !.pc = "looking", !.post = "none", !.seen = "absent"] \in Collector
  BY DEF Collector, CollectPcs, PostStatuses
<1> QED  BY <1>1, <1>2, IdleTyped DEF Onward, Collector, Idle

\* After an error a discussion run is failing and the others go on.
LEMMA AfterErrorIs ==
  ASSUME NEW q \in Collector
  PROVE  /\ AfterError(q) \in Collector
         /\ AfterError(q).pc \in {"idle", "looking", "failing"}
         /\ q.kind = "discussion" => AfterError(q).pc = "failing"
         /\ AfterError(q).pc = "looking" => /\ AfterError(q).kind = q.kind
                                            /\ q.kind # "discussion"
<1>1. CASE q.kind = "discussion"
  <2>1. AfterError(q) = [q EXCEPT !.pc = "failing"]  BY <1>1 DEF AfterError
  <2>2. [q EXCEPT !.pc = "failing"] \in Collector  BY DEF Collector, CollectPcs
  <2> QED  BY <1>1, <2>1, <2>2 DEF Collector
<1>2. CASE q.kind # "discussion"
  BY <1>2, OnwardIs DEF AfterError
<1> QED  BY <1>1, <1>2

\* The messages of the model are messages.
LEMMA TextTyped == \A p \in Posts : /\ Text(p) \in Messages
                                    /\ Text(p).kind = "text" /\ Text(p).post = p
BY BoundsAreCounts DEF Text, Messages

\* A message put in the queue is one more copy of it.
LEMMA PutIs ==
  ASSUME queue \in [Messages -> Nat], NEW m \in Messages, Put(m)
  PROVE  /\ queue' \in [Messages -> Nat]
         /\ queue'[m] > 0
         /\ \A o \in Messages : queue[o] > 0 => queue'[o] > 0
BY DEF Put

\* A run's new status is one of its statuses.
LEMMA RunSet ==
  ASSUME run \in [Keys -> RunStatuses], NEW k, NEW s \in RunStatuses, SetRun(k, s)
  PROVE  run' \in [Keys -> RunStatuses]
BY DEF SetRun

\* A collector that takes a well-formed state leaves all collectors well-formed.
LEMMA CollectKeeps ==
  ASSUME collectors \in [Collectors -> Collector], CollectorsHold,
         NEW c \in Collectors, NEW q \in Collector, Collect(c, q),
         q.pc \in {"inserting", "linking", "sending", "marking"} => q.post \in Posts
  PROVE  collectors' \in [Collectors -> Collector] /\ CollectorsHold'
BY Collects DEF CollectorsHold

\* And so does a worker.
LEMMA WorkKeeps ==
  ASSUME workers \in [Workers -> Worker], WorkersHold,
         NEW w \in Workers, NEW q \in Worker, Work(w, q),
         q.pc # "idle" => q.msg \in Messages,
         q.pc \notin {"idle", "received"} => q.msg.kind = "text"
  PROVE  workers' \in [Workers -> Worker] /\ WorkersHold'
BY Works DEF WorkersHold

\* A message that is returned is in the queue again, or, if it was a text's, its
\* post is among those given up.
LEMMA ReturnedIs ==
  ASSUME queue \in [Messages -> Nat], gaveUp \subseteq Posts,
         NEW m \in Messages, Returned(m)
  PROVE  /\ queue' \in [Messages -> Nat]
         /\ \A o \in Messages : queue[o] > 0 => queue'[o] > 0
         /\ gaveUp \subseteq gaveUp' /\ gaveUp' \subseteq Posts
         /\ gaveUp' \subseteq gaveUp \cup {m.post}
         /\ m.kind = "text" => queue'[m] > 0 \/ m.post \in gaveUp'
         /\ m.kind # "text" => gaveUp' = gaveUp
         /\ \A o \in Messages : queue'[o] > 0 => queue[o] > 0 \/ o = m
<1>0. m.post \in Posts  BY DEF Messages
<1>1. CASE m.receives < MaxReceives
  BY <1>0, <1>1 DEF Returned, Put
<1>2. CASE ~(m.receives < MaxReceives)
  BY <1>0, <1>2 DEF Returned
<1> QED  BY <1>1, <1>2

\* The first state is well-formed.
LEMMA TypeInit == Init => TypeInv
<1> SUFFICES ASSUME Init PROVE TypeInv  OBVIOUS
<1>1. \A s \in Sources : NoRow(s) \in Row
  BY DEF NoRow, Row, Sources, PostStatuses, Metadata, NoMetadata
<1>2. post \in [Posts -> Row]  BY <1>1 DEF Init
<1>3. collectors \in [Collectors -> Collector] /\ CollectorsHold
  BY IdleTyped DEF Init, CollectorsHold
<1>4. workers \in [Workers -> Worker] /\ WorkersHold
  BY RestingTyped DEF Init, WorkersHold
<1>5. run \in [Keys -> RunStatuses] /\ queue \in [Messages -> Nat]
  BY DEF Init, RunStatuses
<1> QED  BY <1>2, <1>3, <1>4, <1>5 DEF Init, TypeInv, TypeOK

\* An error and a stop are counted.
LEMMA Counted == ASSUME errors \in Nat, stops \in Nat, MaxErrors \in Nat
                 PROVE  (Errs => errors' \in Nat) /\ (Stops => stops' \in Nat)
BY DEF Errs, Stops

\* The steps of a collector before it has a post in hand keep the types.
LEMMA TypeAsks ==
  ASSUME TypeInv, NEW c \in Collectors,
         \/ \E k \in Keys : AskCollection(c, k)
         \/ AskNews(c) \/ AskRequeue(c) \/ StartRun(c)
         \/ \E p \in Posts : LookUp(c, p)
  PROVE  TypeInv'
<1> USE DEF TypeInv, TypeOK
<1>1. CASE \E k \in Keys : AskCollection(c, k)
  <2> PICK k \in Keys : AskCollection(c, k)  BY <1>1
  <2> DEFINE q == [Idle EXCEPT !.pc = "asked", !.kind = "discussion", !.key = k]
  <2>1. q \in Collector /\ q.pc = "asked"
    BY DEF Idle, Collector, CollectPcs, Kinds, PostStatuses
  <2>2. Collect(c, q)  BY DEF AskCollection
  <2> HIDE DEF q
  <2>3. collectors' \in [Collectors -> Collector] /\ CollectorsHold'
    BY <2>1, <2>2, CollectKeeps
  <2>4. run' \in [Keys -> RunStatuses]
    BY RunSet DEF AskCollection, RunStatuses
  <2>5. WorkersHold'  BY DEF AskCollection, WorkersHold
  <2>6. /\ asks' = asks + 1
        /\ UNCHANGED <<post, workers, queue, gaveUp, results, errors, stops>>
    BY DEF AskCollection
  <2>7. asks' \in Nat  BY <2>6
  <2> QED  BY <2>3, <2>4, <2>5, <2>6, <2>7
<1>2. CASE AskNews(c)
  <2> DEFINE q == [Idle EXCEPT !.pc = "looking", !.left = Found("news")]
  <2>1. q \in Collector /\ q.pc = "looking"
    BY DEF Idle, Collector, CollectPcs, Kinds, PostStatuses, Found
  <2>2. Collect(c, q)  BY <1>2 DEF AskNews
  <2> HIDE DEF q
  <2>3. collectors' \in [Collectors -> Collector] /\ CollectorsHold'
    BY <2>1, <2>2, CollectKeeps
  <2>5. WorkersHold'  BY <1>2 DEF AskNews, WorkersHold
  <2> QED  BY <1>2, <2>3, <2>5 DEF AskNews
<1>3. CASE AskRequeue(c)
  <2> PICK p \in Posts :
        Collect(c, [Idle EXCEPT !.pc = "sending", !.kind = "requeue",
                                !.post = p, !.seen = post[p].status])
    BY <1>3 DEF AskRequeue
  <2> DEFINE q == [Idle EXCEPT !.pc = "sending", !.kind = "requeue",
                               !.post = p, !.seen = post[p].status]
  <2>0. post[p].status \in PostStatuses  BY DEF Row
  <2>1. q \in Collector /\ q.pc = "sending" /\ q.post = p
    BY <2>0 DEF Idle, Collector, CollectPcs, Kinds
  <2>2. Collect(c, q)  OBVIOUS
  <2> HIDE DEF q
  <2>3. collectors' \in [Collectors -> Collector] /\ CollectorsHold'
    BY <2>1, <2>2, CollectKeeps
  <2>5. WorkersHold'  BY <1>3 DEF AskRequeue, WorkersHold
  <2>6. /\ asks' = asks + 1
        /\ UNCHANGED <<post, run, workers, queue, gaveUp, results, errors, stops>>
    BY <1>3 DEF AskRequeue
  <2>7. asks' \in Nat  BY <2>6
  <2> QED  BY <2>3, <2>5, <2>6, <2>7
<1>4. CASE StartRun(c)
  <2> PICK b \in BOOLEAN :
        Collect(c, [collectors[c] EXCEPT !.pc = "looking", !.malformed = b,
                                         !.left = Found("discussion")])
    BY <1>4 DEF StartRun
  <2> DEFINE q == [collectors[c] EXCEPT !.pc = "looking", !.malformed = b,
                                        !.left = Found("discussion")]
  <2>0. collectors[c] \in Collector  OBVIOUS
  <2>1. q \in Collector /\ q.pc = "looking"
    BY <2>0 DEF Collector, CollectPcs, Found
  <2>2. Collect(c, q)  OBVIOUS
  <2> HIDE DEF q
  <2>3. collectors' \in [Collectors -> Collector] /\ CollectorsHold'
    BY <2>1, <2>2, CollectKeeps
  <2>4. run' \in [Keys -> RunStatuses]
    BY <1>4, RunSet DEF StartRun, RunStatuses
  <2>5. WorkersHold'  BY <1>4 DEF StartRun, WorkersHold
  <2> QED  BY <1>4, <2>3, <2>4, <2>5 DEF StartRun
<1>5. CASE \E p \in Posts : LookUp(c, p)
  <2> PICK p \in Posts : LookUp(c, p)  BY <1>5
  <2> DEFINE pc == IF post[p].status = "absent" THEN "inserting" ELSE "linking"
             q  == [collectors[c] EXCEPT !.left = @ \ {p}, !.post = p,
                                         !.seen = post[p].status, !.pc = pc]
  <2>0. collectors[c] \in Collector /\ post[p].status \in PostStatuses  BY DEF Row
  <2>1. q \in Collector /\ q.post = p
    BY <2>0 DEF Collector, CollectPcs
  <2>2. Collect(c, q)  BY DEF LookUp
  <2> HIDE DEF q
  <2>3. collectors' \in [Collectors -> Collector] /\ CollectorsHold'
    BY <2>1, <2>2, CollectKeeps
  <2>5. WorkersHold'  BY DEF LookUp, WorkersHold
  <2> QED  BY <2>3, <2>5 DEF LookUp
<1> QED  BY <1>1, <1>2, <1>3, <1>4, <1>5

\* The steps of a collector on the post in hand, and its ends, keep the types.
LEMMA TypeCollects ==
  ASSUME TypeInv, NEW c \in Collectors,
         \/ Insert(c) \/ Link(c) \/ Send(c) \/ Mark(c) \/ CollectError(c)
         \/ CompleteRun(c) \/ FailRun(c) \/ StopCollector(c)
  PROVE  TypeInv'
<1> USE DEF TypeInv, TypeOK
<1> DEFINE q == collectors[c]
<1>0. q \in Collector  OBVIOUS
<1> HIDE DEF q
<1>a. ASSUME NEW s \in CollectPcs PROVE /\ [q EXCEPT !.pc = s] \in Collector
                                        /\ [q EXCEPT !.pc = s].pc = s
                                        /\ [q EXCEPT !.pc = s].post = q.post
  BY <1>0 DEF Collector
<1>b. q.pc \in {"inserting", "linking", "sending", "marking"} => q.post \in Posts
  BY DEF q, CollectorsHold
<1>c. Onward(q) \in Collector /\ Onward(q).pc \in {"idle", "looking"}
  BY <1>0, OnwardIs
<1>d. AfterError(q) \in Collector /\ AfterError(q).pc \in {"idle", "looking", "failing"}
  BY <1>0, AfterErrorIs
<1>1. CASE Insert(c)
  <2>0. q.post \in Posts  BY <1>1, <1>b DEF Insert, CollectorIs, q
  <2>1. CASE post[q.post].status = "absent"
    <3>1. post' \in [Posts -> Row]
      <4>1. PICK b \in BOOLEAN :
              post' = [post EXCEPT ![q.post].status = "pending", ![q.post].matched = b]
        BY <1>1, <2>1 DEF Insert, q
      <4> QED  BY <4>1, <2>0 DEF Row, PostStatuses
    <3> DEFINE r == [q EXCEPT !.pc = "linking", !.seen = "pending"]
    <3>2. r \in Collector /\ r.post = q.post
      BY <1>0 DEF Collector, CollectPcs, PostStatuses
    <3>3. Collect(c, r)  BY <1>1, <2>1 DEF Insert, q
    <3> HIDE DEF r
    <3>4. collectors' \in [Collectors -> Collector] /\ CollectorsHold'
      BY <2>0, <3>2, <3>3, CollectKeeps
    <3> QED  BY <1>1, <3>1, <3>4 DEF Insert, WorkersHold
  <2>2. CASE post[q.post].status # "absent"
    <3>1. Collect(c, AfterError(q)) /\ UNCHANGED post  BY <1>1, <2>2 DEF Insert, q
    <3>2. collectors' \in [Collectors -> Collector] /\ CollectorsHold'
      BY <1>d, <3>1, CollectKeeps
    <3> QED  BY <1>1, <3>1, <3>2 DEF Insert, WorkersHold
  <2> QED  BY <2>1, <2>2
<1>2. CASE Link(c)
  <2>0. q.post \in Posts  BY <1>2, <1>b DEF Link, CollectorIs, q
  <2>1. Collect(c, Onward(q)) \/ Collect(c, [q EXCEPT !.pc = "sending"])
    BY <1>2 DEF Link, q
  <2>2. collectors' \in [Collectors -> Collector] /\ CollectorsHold'
    BY <1>a, <1>c, <2>0, <2>1, CollectKeeps DEF CollectPcs
  <2> QED  BY <1>2, <2>2 DEF Link, WorkersHold
<1>3. CASE Send(c)
  <2>0. q.post \in Posts  BY <1>3, <1>b DEF Send, CollectorIs, q
  <2>1. Collect(c, [q EXCEPT !.pc = "marking"]) /\ Put(Text(q.post))
    BY <1>3 DEF Send, q
  <2>2. collectors' \in [Collectors -> Collector] /\ CollectorsHold'
    BY <1>a, <2>0, <2>1, CollectKeeps DEF CollectPcs
  <2>3. queue' \in [Messages -> Nat]  BY <2>0, <2>1, TextTyped, PutIs
  <2> QED  BY <1>3, <2>2, <2>3 DEF Send, WorkersHold
<1>4. CASE Mark(c)
  <2>0. q.post \in Posts  BY <1>4, <1>b DEF Mark, CollectorIs, q
  <2>1. Collect(c, Onward(q)) /\ MarkedQueued(q.post)  BY <1>4 DEF Mark, q
  <2>2. collectors' \in [Collectors -> Collector] /\ CollectorsHold'
    BY <1>c, <2>1, CollectKeeps
  <2>3. post' \in [Posts -> Row]
    BY <2>0, <2>1, StatusSet DEF MarkedQueued, PostStatuses
  <2> QED  BY <1>4, <2>2, <2>3 DEF Mark, WorkersHold
<1>5. CASE CollectError(c)
  <2>1. Collect(c, AfterError(q))  BY <1>5 DEF CollectError, q
  <2>2. collectors' \in [Collectors -> Collector] /\ CollectorsHold'
    BY <1>d, <2>1, CollectKeeps
  <2>3. queue' \in [Messages -> Nat]
    <3>1. UNCHANGED queue \/ (q.pc = "sending" /\ Put(Text(q.post)))
      BY <1>5 DEF CollectError, q
    <3> QED  BY <1>b, <3>1, TextTyped, PutIs
  <2> QED  BY <1>5, <2>2, <2>3, Counted, BoundsAreCounts DEF CollectError, WorkersHold
<1>6. CASE CompleteRun(c)
  <2>2. collectors' \in [Collectors -> Collector] /\ CollectorsHold'
    BY <1>6, IdleTyped, CollectKeeps DEF CompleteRun
  <2>3. run' \in [Keys -> RunStatuses]  BY <1>6, RunSet DEF CompleteRun, RunStatuses
  <2> QED  BY <1>6, <2>2, <2>3 DEF CompleteRun, WorkersHold
<1>7. CASE FailRun(c)
  <2>2. collectors' \in [Collectors -> Collector] /\ CollectorsHold'
    BY <1>7, IdleTyped, CollectKeeps DEF FailRun
  <2>3. run' \in [Keys -> RunStatuses]  BY <1>7, RunSet DEF FailRun, RunStatuses
  <2> QED  BY <1>7, <2>2, <2>3 DEF FailRun, WorkersHold
<1>8. CASE StopCollector(c)
  <2>2. collectors' \in [Collectors -> Collector] /\ CollectorsHold'
    BY <1>8, IdleTyped, CollectKeeps DEF StopCollector
  <2> QED  BY <1>8, <2>2, Counted, BoundsAreCounts DEF StopCollector, WorkersHold
<1> QED  BY <1>1, <1>2, <1>3, <1>4, <1>5, <1>6, <1>7, <1>8

\* What a worker that is not idle has, and what stands in its artifact's row.
LEMMA Holding ==
  ASSUME TypeInv, NEW w \in Workers, workers[w].pc # "idle"
  PROVE  /\ workers[w] \in Worker /\ workers[w].msg \in Messages
         /\ Of(w) \in Posts /\ post[Of(w)] \in Row
         /\ workers[w].pc # "received" => workers[w].msg.kind = "text"
BY DEF TypeInv, TypeOK, WorkersHold, Of, Worker, Messages

\* A worker that only moves on keeps its message and what it knows.
LEMMA MovesOn ==
  ASSUME NEW q \in Worker, NEW s \in WorkPcs
  PROVE  /\ [q EXCEPT !.pc = s] \in Worker
         /\ [q EXCEPT !.pc = s].pc = s /\ [q EXCEPT !.pc = s].msg = q.msg
         /\ [q EXCEPT !.pc = s].decision = q.decision
BY DEF Worker

\* Returning a message while resting keeps the types.
LEMMA TypeReturns ==
  ASSUME TypeInv, NEW w \in Workers, workers[w].pc # "idle",
         Returned(workers[w].msg), Work(w, Resting),
         UNCHANGED <<run, collectors, results, asks>>,
         post' \in [Posts -> Row], errors' \in Nat, stops' \in Nat
  PROVE  TypeInv'
<1>1. workers[w].msg \in Messages  BY Holding
<1>2. workers' \in [Workers -> Worker] /\ WorkersHold'
  BY RestingTyped, WorkKeeps DEF TypeInv, TypeOK
<1>3. queue' \in [Messages -> Nat] /\ gaveUp' \subseteq Posts
  BY <1>1, ReturnedIs DEF TypeInv, TypeOK
<1> QED  BY <1>2, <1>3 DEF TypeInv, TypeOK, CollectorsHold

\* A worker's first steps on a message keep the types.
LEMMA TypeReads ==
  ASSUME TypeInv, NEW w \in Workers,
         \/ \E m \in Messages : Receive(w, m)
         \/ ReadFacts(w) \/ Start(w) \/ CannotDecide(w) \/ ReadNote(w) \/ WriteNote(w)
  PROVE  TypeInv'
<1> DEFINE q == workers[w]
<1>0. q \in Worker  BY DEF TypeInv, TypeOK
<1>a. ASSUME q.pc # "idle" PROVE /\ q.msg \in Messages /\ q.msg.post \in Posts
                                 /\ q.msg.post = Of(w) /\ post[q.msg.post] \in Row
                                 /\ q.pc # "received" => q.msg.kind = "text"
  BY <1>a, Holding DEF Of
<1> HIDE DEF q
<1>b. ASSUME NEW r \in Worker, Work(w, r), r.msg = q.msg,
             q.pc # "idle", r.pc \notin {"idle", "received"}, q.msg.kind = "text"
      PROVE  workers' \in [Workers -> Worker] /\ WorkersHold'
  BY <1>a, <1>b, WorkKeeps DEF TypeInv, TypeOK
<1>1. CASE \E m \in Messages : Receive(w, m)
  <2> PICK m \in Messages : Receive(w, m)  BY <1>1
  <2> DEFINE n == [m EXCEPT !.receives = @ + 1]
             r == [Resting EXCEPT !.pc = "received", !.msg = n]
  <2>a. /\ m.receives < MaxReceives /\ queue[m] > 0
        /\ queue' = [queue EXCEPT ![m] = @ - 1]
    BY DEF Receive
  <2>b. m.receives \in 0..MaxReceives  BY DEF Messages
  <2>c. m.receives + 1 \in 0..MaxReceives  BY <2>a, <2>b, BoundsAreCounts
  <2>1. n \in Messages  BY <2>c DEF Messages
  <2>2. Work(w, r)  BY DEF Receive
  <2> HIDE DEF n
  <2>3. r \in Worker /\ r.pc = "received" /\ r.msg = n
    BY <2>1 DEF Resting, Worker, WorkPcs, Metadata, NoMetadata
  <2> HIDE DEF r
  <2>4. workers' \in [Workers -> Worker] /\ WorkersHold'
    BY <2>1, <2>2, <2>3, WorkKeeps DEF TypeInv, TypeOK
  <2>d. queue \in [Messages -> Nat]  BY DEF TypeInv, TypeOK
  <2>e. queue[m] - 1 \in Nat  BY <2>a, <2>d
  <2>5. queue' \in [Messages -> Nat]  BY <2>a, <2>d, <2>e
  <2>6. UNCHANGED <<post, run, collectors, gaveUp, results, asks, errors, stops>>
    BY DEF Receive
  <2> QED  BY <2>4, <2>5, <2>6 DEF TypeInv, TypeOK, CollectorsHold
<1>2. CASE ReadFacts(w)
  <2> DEFINE r == [q EXCEPT !.pc = "starting", !.decision = post[Of(w)].meta.decision]
  <2>1. q.pc = "received" /\ q.msg.kind = "text"
    BY <1>2 DEF ReadFacts, WorkerIs, q
  <2>2. Work(w, Resting) \/ Work(w, r)
    BY <1>2 DEF ReadFacts, Privately, q
  <2>3. r \in Worker /\ r.msg = q.msg /\ r.pc = "starting"
    BY <1>0, <1>a, <2>1 DEF Worker, WorkPcs, Row, Metadata
  <2> HIDE DEF r
  <2>4. workers' \in [Workers -> Worker] /\ WorkersHold'
    BY <1>b, <2>1, <2>2, <2>3, RestingTyped, WorkKeeps DEF TypeInv, TypeOK
  <2>6. UNCHANGED <<post, run, collectors, queue, gaveUp, results, asks, errors, stops>>
    BY <1>2 DEF ReadFacts, Privately
  <2> QED  BY <2>4, <2>6 DEF TypeInv, TypeOK, CollectorsHold
<1>3. CASE Start(w)
  <2>1. q.pc = "starting" /\ Of(w) \in Posts  BY <1>3, <1>a DEF Start, WorkerIs, q
  <2>2. PICK d \in Decisions(w) : Work(w, [q EXCEPT !.pc = "storing", !.decision = d])
    BY <1>3 DEF Start, q
  <2>3. d \in {"none", "eligible", "excluded"}
    BY <2>2, <1>0 DEF Decisions, Worker, q
  <2> DEFINE r == [q EXCEPT !.pc = "storing", !.decision = d]
  <2>4. r \in Worker /\ r.msg = q.msg /\ r.pc = "storing"
    BY <1>0, <2>3 DEF Worker, WorkPcs
  <2>5. Work(w, r)  BY <2>2
  <2> HIDE DEF r
  <2>6. workers' \in [Workers -> Worker] /\ WorkersHold'
    BY <1>a, <1>b, <2>1, <2>4, <2>5
  <2>7. post' \in [Posts -> Row]
    BY <1>3, <2>1, StatusSet DEF Start, Started, PostStatuses, TypeInv, TypeOK
  <2>8. UNCHANGED <<run, collectors, queue, gaveUp, results, asks, errors, stops>>
    BY <1>3 DEF Start
  <2> QED  BY <2>6, <2>7, <2>8 DEF TypeInv, TypeOK, CollectorsHold
<1>4. CASE CannotDecide(w)
  <2>1. q.pc = "starting" /\ Of(w) \in Posts  BY <1>4, <1>a DEF CannotDecide, WorkerIs, q
  <2>2. Work(w, [q EXCEPT !.pc = "noting"])  BY <1>4 DEF CannotDecide, q
  <2>6. workers' \in [Workers -> Worker] /\ WorkersHold'
    BY <1>0, <1>a, <1>b, <2>1, <2>2, MovesOn DEF WorkPcs
  <2>7. post' \in [Posts -> Row]
    BY <1>4, <2>1, StatusSet DEF CannotDecide, Started, PostStatuses, TypeInv, TypeOK
  <2>8. UNCHANGED <<run, collectors, queue, gaveUp, results, asks, errors, stops>>
    BY <1>4 DEF CannotDecide
  <2> QED  BY <2>6, <2>7, <2>8 DEF TypeInv, TypeOK, CollectorsHold
<1>5. CASE ReadNote(w)
  <2> DEFINE r == [q EXCEPT !.pc = "writing", !.seen = post[Of(w)].meta]
  <2>1. q.pc = "noting"  BY <1>5 DEF ReadNote, WorkerIs, q
  <2>2. Work(w, r)  BY <1>5 DEF ReadNote, Privately, q
  <2>3. r \in Worker /\ r.msg = q.msg /\ r.pc = "writing"
    BY <1>0, <1>a, <2>1 DEF Worker, WorkPcs, Row
  <2> HIDE DEF r
  <2>4. workers' \in [Workers -> Worker] /\ WorkersHold'
    BY <1>a, <1>b, <2>1, <2>2, <2>3
  <2>6. UNCHANGED <<post, run, collectors, queue, gaveUp, results, asks, errors, stops>>
    BY <1>5 DEF ReadNote, Privately
  <2> QED  BY <2>4, <2>6 DEF TypeInv, TypeOK, CollectorsHold
<1>6. CASE WriteNote(w)
  <2>1. q.pc = "writing" /\ Of(w) \in Posts  BY <1>6, <1>a DEF WriteNote, WorkerIs, q
  <2> DEFINE r == [q EXCEPT !.pc = "raising", !.seen = NoMetadata]
  <2>2. Work(w, r)  BY <1>6 DEF WriteNote, q
  <2>a. r \in Worker /\ r.msg = q.msg /\ r.pc = "raising"
    BY <1>0 DEF Worker, WorkPcs, Metadata, NoMetadata
  <2> HIDE DEF r
  <2>3. workers' \in [Workers -> Worker] /\ WorkersHold'
    BY <1>a, <1>b, <2>1, <2>2, <2>a
  <2>4. q.seen \in Metadata  BY <1>0 DEF Worker
  <2>5. post' \in [Posts -> Row]
    BY <1>6, <2>1, <2>4 DEF WriteNote, Row, TypeInv, TypeOK, q
  <2>6. UNCHANGED <<run, collectors, queue, gaveUp, results, asks, errors, stops>>
    BY <1>6 DEF WriteNote
  <2> QED  BY <2>3, <2>5, <2>6 DEF TypeInv, TypeOK, CollectorsHold
<1> QED  BY <1>1, <1>2, <1>3, <1>4, <1>5, <1>6

\* What an analysis leaves in a row: its decision and, if the model answered,
\* the answer; the rest of the row is as it was.
LEMMA AnalysedIs ==
  ASSUME NEW row \in Row, NEW d \in {"none", "eligible", "excluded"},
         NEW a \in Summaries \cup {"none"}
  PROVE  /\ Analysed(row, d, a) \in Row
         /\ Analysed(row, d, a).status = row.status
         /\ Analysed(row, d, a).source = row.source
         /\ Analysed(row, d, a).matched = row.matched
<1> DEFINE new == IF d = "eligible" THEN a ELSE "none"
           m   == [row.meta EXCEPT !.decision = d,
                                   !.lines = IF new = "none" THEN @ ELSE new]
<1>1. new \in Summaries \cup {"none"}  OBVIOUS
<1>2. m \in Metadata  BY <1>1 DEF Row, Metadata
<1>3. Analysed(row, d, a) = [row EXCEPT !.meta = m,
                                        !.summary = IF new = "none" THEN @ ELSE new]
  BY DEF Analysed, Row, Metadata
<1> HIDE DEF new, m
<1> QED  BY <1>1, <1>2, <1>3 DEF Row

\* The steps that end a worker's message keep the types.
LEMMA TypeEnds ==
  ASSUME TypeInv, NEW w \in Workers,
         Store(w) \/ Close(w) \/ Summarise(w) \/ Raise(w) \/ StopWorker(w)
  PROVE  TypeInv'
<1>0. workers[w].pc # "idle"
  BY DEF Store, Close, Summarise, Raise, StopWorker, WorkerIs
<1>a. /\ workers[w] \in Worker /\ workers[w].msg \in Messages
      /\ Of(w) \in Posts /\ post[Of(w)] \in Row
      /\ workers[w].pc # "received" => workers[w].msg.kind = "text"
  BY <1>0, Holding
<1>b. Work(w, Resting) => workers' \in [Workers -> Worker] /\ WorkersHold'
  BY RestingTyped, WorkKeeps DEF TypeInv, TypeOK
<1>1. CASE Store(w)
  <2>1. workers[w].pc = "storing"  BY <1>1 DEF Store, WorkerIs
  <2> DEFINE r == [workers[w] EXCEPT !.pc = "closing", !.decision = "none"]
  <2>2. Work(w, r)  BY <1>1 DEF Store
  <2>a. r \in Worker /\ r.pc = "closing" /\ r.msg = workers[w].msg
    BY <1>a DEF Worker, WorkPcs
  <2> HIDE DEF r
  <2>3. workers' \in [Workers -> Worker] /\ WorkersHold'
    BY <1>a, <2>1, <2>2, <2>a, WorkKeeps DEF TypeInv, TypeOK
  <2>4. PICK a \in Summaries \cup {"none"} :
          post' = [post EXCEPT ![Of(w)] = Analysed(@, workers[w].decision, a)]
    BY <1>1 DEF Store
  <2>5. workers[w].decision \in {"none", "eligible", "excluded"}  BY <1>a DEF Worker
  <2>6. Analysed(post[Of(w)], workers[w].decision, a) \in Row
    BY <1>a, <2>5, AnalysedIs
  <2>7. post' \in [Posts -> Row]
    BY <1>a, <2>4, <2>6 DEF TypeInv, TypeOK
  <2>8. results' = results \cup {Of(w)}
        /\ UNCHANGED <<run, collectors, queue, gaveUp, asks, errors, stops>>
    BY <1>1 DEF Store
  <2> QED  BY <1>a, <2>3, <2>7, <2>8 DEF TypeInv, TypeOK, CollectorsHold
<1>2. CASE Close(w)
  <2>1. post' \in [Posts -> Row]
    BY <1>2, <1>a, StatusSet DEF Close, PostStatuses, TypeInv, TypeOK
  <2>2. UNCHANGED <<run, collectors, queue, gaveUp, results, asks, errors, stops>>
        /\ Work(w, Resting)
    BY <1>2 DEF Close
  <2> QED  BY <1>b, <2>1, <2>2 DEF TypeInv, TypeOK, CollectorsHold
<1>3. CASE Summarise(w)
  <2>1. PICK a \in Summaries \cup {"none"} :
          post' = IF a = "none" THEN post
                  ELSE [post EXCEPT ![Of(w)].meta.lines = a, ![Of(w)].summary = a]
    BY <1>3 DEF Summarise
  <2>2. post' \in [Posts -> Row]
    <3>1. CASE a = "none"  BY <2>1, <3>1 DEF TypeInv, TypeOK
    <3>2. CASE a # "none"
      <4> DEFINE row == [post[Of(w)] EXCEPT !.meta.lines = a, !.summary = a]
      <4>1. row \in Row  BY <1>a DEF Row, Metadata
      <4>2. post' = [post EXCEPT ![Of(w)] = row]
        BY <2>1, <3>2, <1>a DEF TypeInv, TypeOK
      <4> HIDE DEF row
      <4> QED  BY <4>1, <4>2 DEF TypeInv, TypeOK
    <3> QED  BY <3>1, <3>2
  <2>3. UNCHANGED <<run, collectors, queue, gaveUp, results, asks, errors, stops>>
        /\ Work(w, Resting)
    BY <1>3 DEF Summarise
  <2> QED  BY <1>b, <2>2, <2>3 DEF TypeInv, TypeOK, CollectorsHold
<1>4. CASE Raise(w)
  <2>1. /\ Returned(workers[w].msg) /\ Work(w, Resting)
        /\ UNCHANGED <<run, collectors, results, asks, stops>>
        /\ Errs \/ UNCHANGED errors
    BY <1>4 DEF Raise
  <2>2. post' \in [Posts -> Row]
    BY <1>4, <1>a, StatusSet DEF Raise, Fails, PostStatuses, TypeInv, TypeOK, Of
  <2>3. errors' \in Nat /\ stops' \in Nat
    BY <2>1, Counted, BoundsAreCounts DEF TypeInv, TypeOK
  <2> QED  BY <1>0, <2>1, <2>2, <2>3, TypeReturns
<1>5. CASE StopWorker(w)
  <2>1. /\ Returned(workers[w].msg) /\ Work(w, Resting)
        /\ UNCHANGED <<post, run, collectors, results, asks, errors>> /\ Stops
    BY <1>5 DEF StopWorker
  <2>3. post' \in [Posts -> Row] /\ errors' \in Nat /\ stops' \in Nat
    BY <2>1, Counted, BoundsAreCounts DEF TypeInv, TypeOK
  <2> QED  BY <1>0, <2>1, <2>3, TypeReturns
<1> QED  BY <1>1, <1>2, <1>3, <1>4, <1>5

\* Requests, redrives and the daily sweep keep the types.
LEMMA TypeRest ==
  ASSUME TypeInv,
         \/ \E p \in Posts : RequestSummary(p) \/ Redrive(p) \/ SweepPost(p)
         \/ \E k \in Keys : SweepRun(k)
  PROVE  TypeInv'
<1>1. CASE \E p \in Posts : RequestSummary(p)
  <2> PICK p \in Posts : RequestSummary(p)  BY <1>1
  <2>1. SummaryOf(p) \in Messages  BY BoundsAreCounts DEF SummaryOf, Messages
  <2>2. queue' \in [Messages -> Nat]
    BY <2>1, PutIs DEF RequestSummary, TypeInv, TypeOK
  <2>3. asks' \in Nat  BY DEF RequestSummary, TypeInv, TypeOK
  <2>4. UNCHANGED <<post, run, collectors, workers, gaveUp, results, errors, stops>>
    BY DEF RequestSummary
  <2> QED  BY <2>2, <2>3, <2>4 DEF TypeInv, TypeOK, CollectorsHold, WorkersHold
<1>2. CASE \E p \in Posts : Redrive(p)
  <2> PICK p \in Posts : Redrive(p)  BY <1>2
  <2>2. queue' \in [Messages -> Nat]
    BY TextTyped, PutIs DEF Redrive, TypeInv, TypeOK
  <2>3. asks' \in Nat /\ gaveUp' \subseteq Posts  BY DEF Redrive, TypeInv, TypeOK
  <2>4. UNCHANGED <<post, run, collectors, workers, results, errors, stops>>
    BY DEF Redrive
  <2> QED  BY <2>2, <2>3, <2>4 DEF TypeInv, TypeOK, CollectorsHold, WorkersHold
<1>3. CASE \E p \in Posts : SweepPost(p)
  <2> PICK p \in Posts : SweepPost(p)  BY <1>3
  <2>1. post' \in [Posts -> Row]
    BY StatusSet DEF SweepPost, TypeInv, TypeOK, PostStatuses
  <2>2. UNCHANGED <<run, collectors, workers, queue, gaveUp, results, asks, errors, stops>>
    BY DEF SweepPost
  <2> QED  BY <2>1, <2>2 DEF TypeInv, TypeOK, CollectorsHold, WorkersHold
<1>4. CASE \E k \in Keys : SweepRun(k)
  <2> PICK k \in Keys : SweepRun(k)  BY <1>4
  <2>1. run' \in [Keys -> RunStatuses]
    BY RunSet DEF SweepRun, TypeInv, TypeOK, RunStatuses
  <2>2. UNCHANGED <<post, collectors, workers, queue, gaveUp, results, asks, errors, stops>>
    BY DEF SweepRun
  <2> QED  BY <2>1, <2>2 DEF TypeInv, TypeOK, CollectorsHold, WorkersHold
<1> QED  BY <1>1, <1>2, <1>3, <1>4

\* Every step keeps the types.
LEMMA TypeStep == ASSUME TypeInv, [Next]_vars PROVE TypeInv'
<1>1. CASE Next
  BY <1>1, TypeAsks, TypeCollects, TypeReads, TypeEnds, TypeRest
     DEF Next, CollectorSteps, WorkerSteps
<1>2. CASE UNCHANGED vars
  BY <1>2 DEF vars, TypeInv, TypeOK, WorkersHold, CollectorsHold
<1> QED  BY <1>1, <1>2

\* Whatever is collected, by however many collections and workers, the rows,
\* runs, processes and messages keep their types; a worker that is busy has a
\* message, and a collector past its look-up a post.
THEOREM TextTypes == Spec => []TypeOK
<1>1. Spec => []TypeInv
  BY TypeInit, TypeStep, PTL DEF Spec
<1>2. TypeInv => TypeOK  BY DEF TypeInv
<1> QED  BY <1>1, <1>2, PTL

-----------------------------------------------------------------------------
(* What no step takes back *)

\* It has been stored and taken for analysis.
Taken(p)   == post[p].status \notin {"absent", "pending"}
Present(p) == post[p].status # "absent"
Done(p)    == post[p].status = "completed"

\* A step may move a post's status only this way: its source stays, and what is
\* stored, taken or analysed remains so.
Forward(p) == /\ post'[p].source = post[p].source
              /\ Taken(p) => Taken(p)'
              /\ Present(p) => Present(p)'
              /\ Done(p) => Done(p)'

\* Giving a post a status that is neither absent nor pending takes nothing back
\* if the post is not yet analysed, or this is what it says.
LEMMA SetForward ==
  ASSUME post \in [Posts -> Row], NEW p \in Posts,
         NEW s \in PostStatuses \ {"absent", "pending"}, SetStatus(p, s),
         Done(p) => s = "completed"
  PROVE  \A o \in Posts : Forward(o)
BY StatusSet DEF Forward, Taken, Present, Done

\* Rows that stay, or whose statuses and sources stay, take nothing back.
LEMMA SameForward ==
  ASSUME \A o \in Posts : /\ post'[o].status = post[o].status
                          /\ post'[o].source = post[o].source
  PROVE  \A o \in Posts : Forward(o)
BY DEF Forward, Taken, Present, Done

\* A note written back and a stored answer leave every status and source.
LEMMA SameStatus ==
  ASSUME TypeInv, NEW w \in Workers, WriteNote(w) \/ Store(w) \/ Summarise(w)
  PROVE  \A o \in Posts : /\ post'[o].status = post[o].status
                          /\ post'[o].source = post[o].source
<1>0. workers[w].pc # "idle"  BY DEF WriteNote, Store, Summarise, WorkerIs
<1>a. /\ workers[w] \in Worker /\ Of(w) \in Posts /\ post[Of(w)] \in Row
      /\ post \in [Posts -> Row]
  BY <1>0, Holding DEF TypeInv, TypeOK
<1>1. CASE WriteNote(w)
  <2>1. post' = [post EXCEPT ![Of(w)].meta = workers[w].seen]  BY <1>1 DEF WriteNote
  <2> QED  BY <1>a, <2>1 DEF Row
<1>2. CASE Store(w)
  <2>1. PICK a \in Summaries \cup {"none"} :
          post' = [post EXCEPT ![Of(w)] = Analysed(@, workers[w].decision, a)]
    BY <1>2 DEF Store
  <2>2. workers[w].decision \in {"none", "eligible", "excluded"}  BY <1>a DEF Worker
  <2> QED  BY <1>a, <2>1, <2>2, AnalysedIs
<1>3. CASE Summarise(w)
  <2>1. PICK a \in Summaries \cup {"none"} :
          post' = IF a = "none" THEN post
                  ELSE [post EXCEPT ![Of(w)].meta.lines = a, ![Of(w)].summary = a]
    BY <1>3 DEF Summarise
  <2> QED  BY <1>a, <2>1 DEF Row
<1> QED  BY <1>1, <1>2, <1>3

\* No step of a collector takes anything back: the insert finds the post absent,
\* and the mark leaves alone what is queued or further.
LEMMA CollectorForward ==
  ASSUME TypeInv, NEW c \in Collectors, Insert(c) \/ Mark(c)
  PROVE  \A o \in Posts : Forward(o)
<1>0. collectors[c].post \in Posts /\ post \in [Posts -> Row]
  BY DEF Insert, Mark, CollectorIs, TypeInv, TypeOK, CollectorsHold
<1> DEFINE p == collectors[c].post
<1>1. CASE Insert(c)
  <2>1. CASE UNCHANGED post  BY <2>1, SameForward
  <2>2. CASE ~UNCHANGED post
    <3>1. PICK b \in BOOLEAN :
            /\ post[p].status = "absent"
            /\ post' = [post EXCEPT ![p].status = "pending", ![p].matched = b]
      BY <1>1, <2>2 DEF Insert
    <3>2. \A o \in Posts : /\ post'[o].source = post[o].source
                           /\ o # p => post'[o].status = post[o].status
                           /\ o = p => post'[o].status = "pending"
      BY <1>0, <3>1 DEF Row
    <3> QED  BY <1>0, <3>1, <3>2 DEF Forward, Taken, Present, Done
  <2> QED  BY <2>1, <2>2
<1>2. CASE Mark(c)
  <2>1. MarkedQueued(p)  BY <1>2 DEF Mark
  <2>2. CASE UNCHANGED post  BY <2>2, SameForward
  <2>3. CASE SetStatus(p, "queued") /\ post[p].status \notin QueuedOrDone
    BY <1>0, <2>3, SetForward DEF Done, QueuedOrDone, PostStatuses
  <2> QED  BY <2>1, <2>2, <2>3 DEF MarkedQueued
<1> QED  BY <1>1, <1>2

\* Nor does one of a worker: a start and a failure leave an analysed post alone.
LEMMA WorkerForward ==
  ASSUME TypeInv, NEW w \in Workers,
         Start(w) \/ CannotDecide(w) \/ Close(w) \/ Raise(w)
  PROVE  \A o \in Posts : Forward(o)
<1>0. workers[w].pc # "idle"
  BY DEF Start, CannotDecide, Close, Raise, WorkerIs
<1>a. Of(w) \in Posts /\ Of(w) = workers[w].msg.post /\ post \in [Posts -> Row]
  BY <1>0, Holding DEF TypeInv, TypeOK, Of
<1>1. CASE Start(w) \/ CannotDecide(w)
  <2>1. Started(Of(w))  BY <1>1 DEF Start, CannotDecide
  <2>2. CASE UNCHANGED post  BY <2>2, SameForward
  <2>3. CASE SetStatus(Of(w), "analyzing") /\ ~Done(Of(w))
    BY <1>a, <2>3, SetForward DEF PostStatuses
  <2> QED  BY <2>1, <2>2, <2>3 DEF Started, Done
<1>2. CASE Close(w)
  <2>1. SetStatus(Of(w), "completed")  BY <1>2 DEF Close
  <2> QED  BY <1>a, <2>1, SetForward DEF PostStatuses
<1>3. CASE Raise(w)
  <2>1. \/ UNCHANGED post
        \/ SetStatus(Of(w), "failed") /\ ~Done(Of(w))
    BY <1>3, <1>a DEF Raise, Fails, Done
  <2>2. CASE UNCHANGED post  BY <2>2, SameForward
  <2>3. CASE SetStatus(Of(w), "failed") /\ ~Done(Of(w))
    BY <1>a, <2>3, SetForward DEF PostStatuses
  <2> QED  BY <2>1, <2>2, <2>3
<1> QED  BY <1>1, <1>2, <1>3

\* No step at all does.
LEMMA StepForward == ASSUME TypeInv, [Next]_vars PROVE \A o \in Posts : Forward(o)
<1>1. CASE UNCHANGED post  BY <1>1, SameForward
<1>2. ASSUME NEW p \in Posts, SweepPost(p) PROVE \A o \in Posts : Forward(o)
  BY <1>2, SetForward DEF SweepPost, Done, PostStatuses, TypeInv, TypeOK
<1>3. ASSUME NEW c \in Collectors,
             \/ \E k \in Keys : AskCollection(c, k)
             \/ AskNews(c) \/ AskRequeue(c) \/ StartRun(c) \/ Link(c) \/ Send(c)
             \/ CompleteRun(c) \/ FailRun(c) \/ CollectError(c) \/ StopCollector(c)
             \/ \E p \in Posts : LookUp(c, p)
      PROVE  UNCHANGED post
  BY <1>3 DEF AskCollection, AskNews, AskRequeue, StartRun, Link, Send, CompleteRun,
              FailRun, CollectError, StopCollector, LookUp
<1>4. ASSUME NEW w \in Workers,
             \/ \E m \in Messages : Receive(w, m)
             \/ ReadFacts(w) \/ ReadNote(w) \/ StopWorker(w)
      PROVE  UNCHANGED post
  BY <1>4 DEF Receive, ReadFacts, ReadNote, StopWorker, Privately
<1>5. ASSUME \/ \E p \in Posts : RequestSummary(p) \/ Redrive(p)
             \/ \E k \in Keys : SweepRun(k)
      PROVE  UNCHANGED post
  BY <1>5 DEF RequestSummary, Redrive, SweepRun
<1>6. ASSUME NEW w \in Workers, WriteNote(w) \/ Store(w) \/ Summarise(w)
      PROVE  \A o \in Posts : Forward(o)
  BY <1>6, SameStatus, SameForward
<1>7. CASE UNCHANGED vars  BY <1>1, <1>7 DEF vars
<1>8. CASE Next
  BY <1>1, <1>2, <1>3, <1>4, <1>5, <1>6, <1>8, CollectorForward, WorkerForward
     DEF Next, CollectorSteps, WorkerSteps
<1> QED  BY <1>7, <1>8

-----------------------------------------------------------------------------
(* A finished run had everything taken *)

\* The posts a discussion collection has behind it are taken; the one in hand
\* is stored, and passed over only if it was seen taken.
InHand == {"inserting", "linking", "sending", "marking"}
Walked(q) ==
  \A p \in Found("discussion") :
    p \in q.left \/ Taken(p) \/ (q.pc # "looking" /\ p = q.post)
WalkOf(c) ==
  collectors[c].kind = "discussion" /\ collectors[c].pc \in InHand \cup {"looking"}
    => Walked(collectors[c])
SeenOf(c) ==
  collectors[c].pc = "linking" /\ collectors[c].seen \in QueuedOrDone
    => Taken(collectors[c].post)
WalkHolds == \A c \in Collectors : WalkOf(c) /\ SeenOf(c)
CollectedInv == TypeInv /\ WalkHolds /\ CollectedIsTaken

\* A collector that nobody else touches keeps what is behind it.
LEMMA WalkSame ==
  ASSUME TypeInv, [Next]_vars, NEW d \in Collectors,
         collectors'[d] = collectors[d], WalkOf(d), SeenOf(d)
  PROVE  (WalkOf(d) /\ SeenOf(d))'
<1>1. \A o \in Posts : Forward(o)  BY StepForward
<1>2. Found("discussion")' = Found("discussion")  BY <1>1 DEF Forward, Found
<1>3. collectors[d].pc = "linking" => collectors[d].post \in Posts
  BY DEF TypeInv, CollectorsHold
<1>4. Found("discussion") \subseteq Posts  BY DEF Found
<1>5. WalkOf(d)'  BY <1>1, <1>2, <1>4 DEF WalkOf, Walked, Forward, Taken
<1>6. SeenOf(d)'  BY <1>1, <1>3 DEF SeenOf, Forward, Taken
<1> QED  BY <1>5, <1>6

\* A collector that is idle, failing or only asked has nothing behind it, nor has
\* one that is not collecting posts; none of them is linking.
LEMMA WalkNone ==
  ASSUME NEW d \in Collectors,
         \/ collectors'[d].pc \notin InHand \cup {"looking"}
         \/ collectors'[d].kind # "discussion" /\ collectors'[d].pc # "linking"
  PROVE  (WalkOf(d) /\ SeenOf(d))'
BY DEF WalkOf, SeenOf, InHand

\* Going on is right when the post in hand is taken.
LEMMA WalkOnward ==
  ASSUME TypeInv, [Next]_vars, NEW c \in Collectors, WalkOf(c),
         collectors[c].pc \in InHand,
         collectors'[c] = Onward(collectors[c]),
         collectors[c].kind = "discussion"
           => post'[collectors[c].post].status \notin {"absent", "pending"}
  PROVE  (WalkOf(c) /\ SeenOf(c))'
<1> DEFINE q == collectors[c]
<1>0. q \in Collector /\ q.post \in Posts
  BY DEF TypeInv, TypeOK, CollectorsHold, InHand
<1>1. CASE q.kind # "discussion"
  <2>1. Onward(q).pc \in {"idle", "looking"}
        /\ (Onward(q).pc = "looking" => Onward(q).kind # "discussion")
    BY <1>0, <1>1, OnwardIs
  <2> QED  BY <2>1, WalkNone DEF InHand
<1>2. CASE q.kind = "discussion"
  <2>1. /\ collectors'[c].pc = "looking" /\ collectors'[c].left = q.left
    BY <1>0, <1>2, OnwardIs
  <2>2. \A o \in Posts : Forward(o)  BY StepForward
  <2>3. Found("discussion")' = Found("discussion") /\ Found("discussion") \subseteq Posts
    BY <2>2 DEF Forward, Found
  <2>4. \A p \in Found("discussion") : p \in q.left \/ Taken(p) \/ p = q.post
    BY <1>2 DEF WalkOf, Walked
  <2>5. post'[q.post].status \notin {"absent", "pending"}  BY <1>2
  <2>6. \A p \in Found("discussion") : p \in q.left \/ Taken(p)'
    BY <2>2, <2>3, <2>4, <2>5 DEF Forward, Taken
  <2> HIDE DEF q
  <2>7. WalkOf(c)'  BY <2>1, <2>3, <2>6 DEF WalkOf, Walked
  <2>8. SeenOf(c)'  BY <2>1 DEF SeenOf
  <2> QED  BY <2>7, <2>8
<1> QED  BY <1>1, <1>2

\* Moving on with the same post in hand is right, if it is not linking then.
LEMMA WalkMoved ==
  ASSUME TypeInv, [Next]_vars, NEW c \in Collectors, WalkOf(c),
         collectors[c].pc \in InHand,
         collectors'[c].pc \in InHand,
         \/ collectors'[c].pc # "linking"
         \/ collectors'[c].seen \notin QueuedOrDone,
         collectors'[c].kind = collectors[c].kind,
         collectors'[c].left = collectors[c].left,
         collectors'[c].post = collectors[c].post
  PROVE  (WalkOf(c) /\ SeenOf(c))'
<1>2. \A o \in Posts : Forward(o)  BY StepForward
<1>3. Found("discussion")' = Found("discussion") /\ Found("discussion") \subseteq Posts
  BY <1>2 DEF Forward, Found
<1>4. SeenOf(c)'  BY DEF SeenOf
<1>5. WalkOf(c)'
  BY <1>2, <1>3 DEF WalkOf, Walked, Forward, Taken, InHand
<1> QED  BY <1>4, <1>5

\* Each collector keeps what is behind it through each of its steps.
LEMMA WalkSteps ==
  ASSUME TypeInv, Next, NEW c \in Collectors, WalkOf(c), SeenOf(c),
         \/ \E k \in Keys : AskCollection(c, k)
         \/ AskNews(c) \/ AskRequeue(c)
         \/ CollectorSteps(c) \/ CollectError(c) \/ StopCollector(c)
  PROVE  /\ (WalkOf(c) /\ SeenOf(c))'
         /\ \A d \in Collectors \ {c} : collectors'[d] = collectors[d]
<1> DEFINE q == collectors[c]
<1>0. q \in Collector /\ collectors \in [Collectors -> Collector]
      /\ (q.pc \in InHand => q.post \in Posts) /\ post \in [Posts -> Row]
  BY DEF TypeInv, TypeOK, CollectorsHold, InHand
<1>f. \A o \in Posts : Forward(o)  BY StepForward
<1>x. \A r : Collect(c, r)
        => collectors'[c] = r /\ \A d \in Collectors \ {c} : collectors'[d] = collectors[d]
  BY <1>0 DEF Collect
<1> HIDE DEF q
<1>1. ASSUME NEW k \in Keys, AskCollection(c, k)
      PROVE  /\ collectors'[c].pc = "asked"
             /\ \A d \in Collectors \ {c} : collectors'[d] = collectors[d]
  <2> DEFINE r == [Idle EXCEPT !.pc = "asked", !.kind = "discussion", !.key = k]
  <2>1. Collect(c, r)  BY <1>1 DEF AskCollection
  <2>2. r.pc = "asked"  BY DEF Idle
  <2> HIDE DEF r
  <2> QED  BY <2>1, <2>2, <1>x
<1>2. CASE AskNews(c)
  <2> DEFINE r == [Idle EXCEPT !.pc = "looking", !.left = Found("news")]
  <2>1. Collect(c, r)  BY <1>2 DEF AskNews
  <2>2. r.kind = "news" /\ r.pc = "looking"  BY DEF Idle
  <2> HIDE DEF r
  <2> QED  BY <2>1, <2>2, <1>x, WalkNone
<1>3. CASE AskRequeue(c)
  <2> PICK p \in Posts :
        Collect(c, [Idle EXCEPT !.pc = "sending", !.kind = "requeue",
                                !.post = p, !.seen = post[p].status])
    BY <1>3 DEF AskRequeue
  <2> DEFINE r == [Idle EXCEPT !.pc = "sending", !.kind = "requeue",
                               !.post = p, !.seen = post[p].status]
  <2>1. Collect(c, r)  OBVIOUS
  <2>2. r.kind = "requeue" /\ r.pc = "sending"  BY DEF Idle
  <2> HIDE DEF r
  <2> QED  BY <2>1, <2>2, <1>x, WalkNone
<1>4. CASE StartRun(c)
  <2> PICK b \in BOOLEAN :
        Collect(c, [q EXCEPT !.pc = "looking", !.malformed = b,
                             !.left = Found("discussion")])
    BY <1>4 DEF StartRun, q
  <2> DEFINE r == [q EXCEPT !.pc = "looking", !.malformed = b,
                            !.left = Found("discussion")]
  <2>0. r.pc = "looking" /\ r.left = Found("discussion") /\ Collect(c, r)
    BY <1>0 DEF Collector
  <2> HIDE DEF r
  <2>1. collectors'[c].pc = "looking" /\ collectors'[c].left = Found("discussion")
    BY <2>0, <1>x
  <2>2. Found("discussion")' = Found("discussion")  BY <1>f DEF Forward, Found
  <2>3. WalkOf(c)' /\ SeenOf(c)'  BY <2>1, <2>2 DEF WalkOf, SeenOf, Walked
  <2> QED  BY <2>0, <2>3, <1>x
<1>5. ASSUME NEW p \in Posts, LookUp(c, p)
      PROVE  /\ (WalkOf(c) /\ SeenOf(c))'
             /\ \A d \in Collectors \ {c} : collectors'[d] = collectors[d]
  <2> DEFINE pc == IF post[p].status = "absent" THEN "inserting" ELSE "linking"
             r  == [q EXCEPT !.left = @ \ {p}, !.post = p,
                             !.seen = post[p].status, !.pc = pc]
  <2>1. q.pc = "looking" /\ Collect(c, r) /\ UNCHANGED post
    BY <1>5 DEF LookUp, CollectorIs, q
  <2>2. /\ r.pc \in {"inserting", "linking"} /\ r.post = p /\ r.left = q.left \ {p}
        /\ r.kind = q.kind /\ r.seen = post[p].status
    BY <1>0 DEF Collector
  <2> HIDE DEF r
  <2>3. collectors'[c] = r  BY <2>1, <1>x
  <2>4. Found("discussion")' = Found("discussion")  BY <2>1 DEF Found
  <2>5. \A o \in Posts : Taken(o)' = Taken(o)  BY <2>1 DEF Taken
  <2>6. q.kind = "discussion"
          => \A o \in Found("discussion") : o \in q.left \/ Taken(o)
    BY <2>1 DEF WalkOf, Walked, q
  <2>7. WalkOf(c)'
    BY <2>2, <2>3, <2>4, <2>5, <2>6 DEF WalkOf, Walked, Found
  <2>8. SeenOf(c)'
    BY <2>1, <2>2, <2>3 DEF SeenOf, Taken, QueuedOrDone
  <2> QED  BY <2>1, <2>7, <2>8, <1>x
<1>6. CASE Insert(c)
  <2>1. q.pc = "inserting"  BY <1>6 DEF Insert, CollectorIs, q
  <2>2. CASE Collect(c, [q EXCEPT !.pc = "linking", !.seen = "pending"])
    <3> DEFINE r == [q EXCEPT !.pc = "linking", !.seen = "pending"]
    <3>1. /\ r.pc = "linking" /\ r.seen = "pending" /\ r.kind = q.kind
          /\ r.left = q.left /\ r.post = q.post
      BY <1>0 DEF Collector
    <3>2. collectors'[c] = r  BY <2>2, <1>x
    <3> HIDE DEF r
    <3> QED  BY <1>x, <2>1, <2>2, <3>1, <3>2, WalkMoved DEF InHand, QueuedOrDone, q
  <2>3. CASE Collect(c, AfterError(q))
    <3>1. collectors'[c] = AfterError(q)  BY <2>3, <1>x
    <3> QED  BY <1>0, <1>x, <2>3, <3>1, AfterErrorIs, WalkNone DEF InHand
  <2> QED  BY <1>6, <2>2, <2>3 DEF Insert, q
<1>7. CASE Link(c)
  <2>1. q.pc = "linking" /\ UNCHANGED post  BY <1>7 DEF Link, CollectorIs, q
  <2>2. CASE Collect(c, [q EXCEPT !.pc = "sending"])
    <3> DEFINE r == [q EXCEPT !.pc = "sending"]
    <3>1. /\ r.pc = "sending" /\ r.kind = q.kind
          /\ r.left = q.left /\ r.post = q.post
      BY <1>0 DEF Collector
    <3>2. collectors'[c] = r  BY <2>2, <1>x
    <3> HIDE DEF r
    <3> QED  BY <1>x, <2>1, <2>2, <3>1, <3>2, WalkMoved DEF InHand, q
  <2>3. CASE Collect(c, Onward(q)) /\ (\/ post[q.post].status \in QueuedOrDone
                                       \/ q.seen \in QueuedOrDone)
    <3>1. Taken(q.post)
      BY <2>1, <2>3 DEF SeenOf, Taken, QueuedOrDone, q
    <3>2. post'[q.post].status \notin {"absent", "pending"}
      BY <2>1, <3>1 DEF Taken
    <3>3. collectors'[c] = Onward(q)  BY <2>3, <1>x
    <3> QED  BY <1>x, <2>1, <2>3, <3>2, <3>3, WalkOnward DEF InHand, q
  <2> QED  BY <1>7, <2>2, <2>3 DEF Link, q
<1>8. CASE Send(c)
  <2> DEFINE r == [q EXCEPT !.pc = "marking"]
  <2>1. q.pc = "sending" /\ Collect(c, r)  BY <1>8 DEF Send, CollectorIs, q
  <2>2. /\ r.pc = "marking" /\ r.kind = q.kind
        /\ r.left = q.left /\ r.post = q.post
    BY <1>0 DEF Collector
  <2> HIDE DEF r
  <2>3. collectors'[c] = r  BY <2>1, <1>x
  <2> QED  BY <1>x, <2>1, <2>2, <2>3, WalkMoved DEF InHand, q
<1>9. CASE Mark(c)
  <2>1. q.pc = "marking" /\ Collect(c, Onward(q)) /\ MarkedQueued(q.post)
    BY <1>9 DEF Mark, CollectorIs, q
  <2>2. q.post \in Posts  BY <1>0, <2>1 DEF InHand
  <2>3. post'[q.post].status \in QueuedOrDone
    BY <1>0, <2>1, <2>2, StatusSet DEF MarkedQueued, QueuedOrDone, PostStatuses
  <2>4. collectors'[c] = Onward(q)  BY <2>1, <1>x
  <2>5. post'[q.post].status \notin {"absent", "pending"}  BY <2>3 DEF QueuedOrDone
  <2> QED  BY <1>x, <2>1, <2>4, <2>5, WalkOnward DEF InHand, q
<1>10. CASE CollectError(c)
  <2>1. Collect(c, AfterError(q))  BY <1>10 DEF CollectError, q
  <2>2. collectors'[c] = AfterError(q)  BY <2>1, <1>x
  <2> QED  BY <1>0, <1>x, <2>1, <2>2, AfterErrorIs, WalkNone DEF InHand
<1>11. CASE CompleteRun(c) \/ FailRun(c) \/ StopCollector(c)
  <2>1. Collect(c, Idle)  BY <1>11 DEF CompleteRun, FailRun, StopCollector
  <2> QED  BY <1>x, <2>1, IdleTyped, WalkNone DEF InHand
<1>12. CASE \E k \in Keys : AskCollection(c, k)
  BY <1>1, <1>12, WalkNone DEF InHand
<1> QED  BY <1>2, <1>3, <1>4, <1>5, <1>6, <1>7, <1>8, <1>9, <1>10, <1>11, <1>12
         DEF CollectorSteps

\* No other step touches a collector.
LEMMA OthersCollect ==
  ASSUME \/ \E w \in Workers : \/ \E m \in Messages : Receive(w, m)
                               \/ WorkerSteps(w) \/ Raise(w)
                               \/ StopWorker(w)
         \/ \E p \in Posts : RequestSummary(p) \/ Redrive(p) \/ SweepPost(p)
         \/ \E k \in Keys : SweepRun(k)
         \/ UNCHANGED vars
  PROVE  UNCHANGED collectors
BY DEF Receive, WorkerSteps, ReadFacts, Start, ReadNote, WriteNote, Store, Close,
       Summarise, CannotDecide, Raise, StopWorker, RequestSummary, Redrive,
       SweepPost, SweepRun, Privately, vars

\* Only the end of a collection that has nothing left finishes a run.
LEMMA RunsFinish ==
  ASSUME TypeInv, [Next]_vars, NEW k \in Keys, run'[k] \in Finished
  PROVE  \/ run[k] \in Finished
         \/ \E c \in Collectors : CompleteRun(c)
<1>0. run \in [Keys -> RunStatuses]  BY DEF TypeInv, TypeOK
<1>s. ASSUME NEW s, SetRun(s, "queued") \/ SetRun(s, "running") \/ SetRun(s, "failed")
      PROVE  run[k] \in Finished
  BY <1>0, <1>s DEF SetRun, Finished
<1>1. ASSUME NEW c \in Collectors, NEW j \in Keys, AskCollection(c, j)
      PROVE  UNCHANGED run \/ SetRun(j, "queued")
  BY <1>1 DEF AskCollection
<1>2. ASSUME NEW c \in Collectors, StartRun(c)
      PROVE  UNCHANGED run \/ SetRun(collectors[c].key, "running")
  BY <1>2 DEF StartRun
<1>3. ASSUME NEW c \in Collectors, FailRun(c)
      PROVE  SetRun(collectors[c].key, "failed")
  BY <1>3 DEF FailRun
<1>4. ASSUME NEW j \in Keys, SweepRun(j) PROVE SetRun(j, "failed")
  BY <1>4 DEF SweepRun
<1>5. ASSUME NEW c \in Collectors,
             \/ AskNews(c) \/ AskRequeue(c) \/ Insert(c) \/ Link(c) \/ Send(c)
             \/ Mark(c) \/ CollectError(c) \/ StopCollector(c)
             \/ \E p \in Posts : LookUp(c, p)
      PROVE  UNCHANGED run
  BY <1>5 DEF AskNews, AskRequeue, Insert, Link, Send, Mark, CollectError,
              StopCollector, LookUp
<1>6. ASSUME \/ \E w \in Workers : \/ \E m \in Messages : Receive(w, m)
                                   \/ WorkerSteps(w) \/ Raise(w)
                                   \/ StopWorker(w)
             \/ \E p \in Posts : RequestSummary(p) \/ Redrive(p) \/ SweepPost(p)
             \/ UNCHANGED vars
      PROVE  UNCHANGED run
  BY <1>6 DEF Receive, WorkerSteps, ReadFacts, Start, ReadNote, WriteNote, Store,
              Close, Summarise, CannotDecide, Raise, StopWorker, RequestSummary,
              Redrive, SweepPost, Privately, vars
<1>7. CASE UNCHANGED run  BY <1>7
<1>8. CASE ~UNCHANGED run
  <2>1. Next  BY <1>6, <1>8
  <2>2. CASE \E c \in Collectors : \/ \E j \in Keys : AskCollection(c, j)
                                   \/ AskNews(c) \/ AskRequeue(c)
                                   \/ CollectorSteps(c) \/ CollectError(c)
                                   \/ StopCollector(c)
    BY <1>s, <1>1, <1>2, <1>3, <1>5, <1>8, <2>2 DEF CollectorSteps
  <2>3. CASE \E j \in Keys : SweepRun(j)
    BY <1>s, <1>4, <2>3
  <2> QED  BY <1>6, <1>8, <2>1, <2>2, <2>3 DEF Next
<1> QED  BY <1>7, <1>8

\* Every step keeps what the collectors have behind them and the finished runs
\* right: a run is finished by a collection with nothing left to take.
LEMMA CollectedStep == ASSUME CollectedInv, [Next]_vars PROVE CollectedInv'
<1> USE DEF CollectedInv
<1>1. TypeInv'  BY TypeStep
<1>2. \A o \in Posts : Forward(o)  BY StepForward
<1>3. WalkHolds'
  <2>1. CASE UNCHANGED collectors  BY <2>1, WalkSame DEF WalkHolds
  <2>2. CASE Next /\ ~UNCHANGED collectors
    <3>1. PICK c \in Collectors :
            \/ \E k \in Keys : AskCollection(c, k)
            \/ AskNews(c) \/ AskRequeue(c)
            \/ CollectorSteps(c) \/ CollectError(c) \/ StopCollector(c)
      BY <2>2, OthersCollect DEF Next
    <3>2. /\ (WalkOf(c) /\ SeenOf(c))'
          /\ \A d \in Collectors \ {c} : collectors'[d] = collectors[d]
      BY <2>2, <3>1, WalkSteps DEF WalkHolds
    <3>3. \A d \in Collectors \ {c} : (WalkOf(d) /\ SeenOf(d))'
      BY <3>2, WalkSame DEF WalkHolds
    <3> QED  BY <3>2, <3>3 DEF WalkHolds
  <2>3. CASE UNCHANGED vars  BY <2>1, <2>3 DEF vars
  <2> QED  BY <2>1, <2>2, <2>3
<1>4. CollectedIsTaken'
  <2> SUFFICES ASSUME NEW k \in Keys, run'[k] \in Finished,
                      NEW p \in Found("discussion")'
               PROVE  (post'[p].status \notin {"absent", "pending"})
    BY DEF CollectedIsTaken
  <2>1. p \in Posts /\ p \in Found("discussion")  BY <1>2 DEF Forward, Found
  <2>2. CASE run[k] \in Finished
    BY <1>2, <2>1, <2>2 DEF CollectedIsTaken, Forward, Taken
  <2>3. CASE \E c \in Collectors : CompleteRun(c)
    <3> PICK c \in Collectors : CompleteRun(c)  BY <2>3
    <3>1. /\ collectors[c].pc = "looking" /\ collectors[c].left = {}
          /\ collectors[c].kind = "discussion" /\ UNCHANGED post
      BY DEF CompleteRun, CollectorIs
    <3>2. Taken(p)  BY <2>1, <3>1 DEF WalkHolds, WalkOf, Walked
    <3> QED  BY <3>1, <3>2 DEF Taken
  <2> QED  BY <2>2, <2>3, RunsFinish
<1> QED  BY <1>1, <1>3, <1>4

\* A collection run reported completed or partial has stored every well-formed
\* post of its sources and had each taken for analysis - by itself or by another
\* collection beside it - whatever stops, fails or is repeated.
THEOREM FinishedRunsTookAll == Spec => []CollectedIsTaken
<1>1. Init => CollectedInv
  <2> SUFFICES ASSUME Init PROVE CollectedInv  OBVIOUS
  <2>1. WalkHolds  BY IdleTyped DEF Init, WalkHolds, WalkOf, SeenOf, InHand
  <2>2. CollectedIsTaken  BY DEF Init, CollectedIsTaken, Finished
  <2> QED  BY <2>1, <2>2, TypeInit DEF CollectedInv
<1>2. Spec => []CollectedInv
  BY <1>1, CollectedStep, PTL DEF Spec
<1>3. CollectedInv => CollectedIsTaken  BY DEF CollectedInv
<1> QED  BY <1>2, <1>3, PTL

-----------------------------------------------------------------------------
(* A queued post has something that will end it *)

\* A message of the post's text is in the queue, in hand or given up.
Carried(p) ==
  \/ p \in gaveUp
  \/ \E m \in Messages : m.kind = "text" /\ m.post = p /\ queue[m] > 0
  \/ \E w \in Workers : /\ workers[w].pc # "idle"
                        /\ workers[w].msg.kind = "text" /\ Of(w) = p

\* Between the send and the mark the message is already on its way, and may even
\* have brought the analysis to its end.
SentHolds ==
  \A c \in Collectors :
    collectors[c].pc = "marking"
      => Carried(collectors[c].post) \/ Done(collectors[c].post)
QueuedHolds == \A p \in Posts : post[p].status = "queued" => Carried(p)
QueuedInv == TypeInv /\ SentHolds /\ QueuedHolds

\* The steps that put a message in the queue, and the others that leave it alone.
LEMMA QueueSame ==
  ASSUME \/ \E c \in Collectors :
              \/ \E k \in Keys : AskCollection(c, k)
              \/ AskNews(c) \/ AskRequeue(c) \/ StopCollector(c)
              \/ StartRun(c) \/ Insert(c) \/ Link(c) \/ Mark(c)
              \/ CompleteRun(c) \/ FailRun(c) \/ \E p \in Posts : LookUp(c, p)
         \/ \E w \in Workers : WorkerSteps(w) /\ ~Raise(w)
         \/ \E w \in Workers : CannotDecide(w)
         \/ \E p \in Posts : SweepPost(p)
         \/ \E k \in Keys : SweepRun(k)
         \/ UNCHANGED vars
  PROVE  UNCHANGED <<queue, gaveUp>>
BY DEF AskCollection, AskNews, AskRequeue, StopCollector, StartRun, Insert, Link, Mark,
       CompleteRun, FailRun, LookUp, WorkerSteps, ReadFacts, Start, ReadNote, WriteNote,
       Store, Close, Summarise, CannotDecide, SweepPost, SweepRun, Privately, vars

\* A copy in the queue leaves it only when it is received, and what was given up
\* only when it is redriven: it is then in the queue.
LEMMA QueueKept ==
  ASSUME TypeInv, [Next]_vars
  PROVE  /\ \A m \in Messages : queue[m] > 0
              => queue'[m] > 0 \/ \E w \in Workers : Receive(w, m)
         /\ \A p \in gaveUp : p \in gaveUp' \/ queue'[Text(p)] > 0
<1>0. /\ queue \in [Messages -> Nat] /\ gaveUp \subseteq Posts
      /\ \A p \in Posts : Text(p) \in Messages
  BY TextTyped DEF TypeInv, TypeOK
<1>1. CASE UNCHANGED <<queue, gaveUp>>  BY <1>1
<1>2. ASSUME NEW c \in Collectors, Send(c) \/ CollectError(c)
      PROVE  UNCHANGED gaveUp /\ \A m \in Messages : queue[m] > 0 => queue'[m] > 0
  <2>0. collectors[c].pc = "sending" => collectors[c].post \in Posts
    BY DEF TypeInv, CollectorsHold
  <2>1. /\ UNCHANGED gaveUp
        /\ \/ UNCHANGED queue
           \/ collectors[c].pc = "sending" /\ Put(Text(collectors[c].post))
    BY <1>2 DEF Send, CollectError, CollectorIs
  <2>2. CASE UNCHANGED queue  BY <2>1, <2>2
  <2>3. CASE collectors[c].pc = "sending" /\ Put(Text(collectors[c].post))
    BY <1>0, <2>0, <2>1, <2>3, PutIs
  <2> QED  BY <2>1, <2>2, <2>3
<1>3. ASSUME NEW w \in Workers, Raise(w) \/ StopWorker(w)
      PROVE  /\ gaveUp \subseteq gaveUp'
             /\ \A m \in Messages : queue[m] > 0 => queue'[m] > 0
  <2>1. workers[w].pc # "idle" /\ Returned(workers[w].msg)
    BY <1>3 DEF Raise, StopWorker, WorkerIs
  <2> QED  BY <1>0, <2>1, Holding, ReturnedIs
<1>4. ASSUME NEW w \in Workers, NEW m \in Messages, Receive(w, m)
      PROVE  /\ UNCHANGED gaveUp
             /\ \A o \in Messages \ {m} : queue'[o] = queue[o]
  BY <1>0, <1>4 DEF Receive
<1>5. ASSUME NEW p \in Posts, RequestSummary(p)
      PROVE  UNCHANGED gaveUp /\ \A m \in Messages : queue[m] > 0 => queue'[m] > 0
  <2>1. SummaryOf(p) \in Messages  BY BoundsAreCounts DEF SummaryOf, Messages
  <2> QED  BY <1>0, <1>5, <2>1, PutIs DEF RequestSummary
<1>6. ASSUME NEW p \in Posts, Redrive(p)
      PROVE  /\ gaveUp' = gaveUp \ {p} /\ queue'[Text(p)] > 0
             /\ \A m \in Messages : queue[m] > 0 => queue'[m] > 0
  BY <1>0, <1>6, PutIs DEF Redrive
<1>7. CASE UNCHANGED vars  BY <1>1, <1>7, QueueSame
<1>8. CASE \E c \in Collectors : \/ \E k \in Keys : AskCollection(c, k)
                                 \/ AskNews(c) \/ AskRequeue(c)
                                 \/ CollectorSteps(c) \/ CollectError(c)
                                 \/ StopCollector(c)
  BY <1>1, <1>2, <1>8, QueueSame DEF CollectorSteps
<1>9. CASE \E w \in Workers : \/ \E m \in Messages : Receive(w, m)
                              \/ WorkerSteps(w) \/ Raise(w)
                              \/ StopWorker(w)
  <2> PICK w \in Workers : \/ \E m \in Messages : Receive(w, m)
                           \/ WorkerSteps(w) \/ Raise(w)
                           \/ StopWorker(w)
    BY <1>9
  <2>1. CASE \E m \in Messages : Receive(w, m)  BY <1>4, <2>1
  <2>2. CASE Raise(w) \/ StopWorker(w)  BY <1>3, <2>2
  <2>3. CASE WorkerSteps(w) /\ ~Raise(w)  BY <1>1, <2>3, QueueSame
  <2>4. CASE CannotDecide(w)  BY <1>1, <2>4, QueueSame
  <2> QED  BY <2>1, <2>2, <2>3, <2>4
<1>10. CASE \E p \in Posts : RequestSummary(p) \/ Redrive(p) \/ SweepPost(p)
  BY <1>1, <1>5, <1>6, <1>10, QueueSame
<1>11. CASE \E k \in Keys : SweepRun(k)  BY <1>1, <1>11, QueueSame
<1> QED  BY <1>7, <1>8, <1>9, <1>10, <1>11 DEF Next

\* A worker on a text goes on with it, ends it with the post analysed, or its
\* message is returned.
LEMMA WorkerEnds ==
  ASSUME TypeInv, [Next]_vars, NEW w \in Workers,
         workers[w].pc # "idle", workers[w].msg.kind = "text"
  PROVE  \/ workers'[w].pc # "idle" /\ workers'[w].msg = workers[w].msg
         \/ Done(workers[w].msg.post) /\ UNCHANGED post
         \/ SetStatus(workers[w].msg.post, "completed")
         \/ Returned(workers[w].msg)
<1>0. /\ workers \in [Workers -> Worker] /\ workers[w] \in Worker
      /\ Of(w) = workers[w].msg.post
  BY DEF TypeInv, TypeOK, Of
<1>x. \A v \in Workers : \A r : Work(v, r)
        => workers'[v] = r /\ (v # w => workers'[w] = workers[w])
  BY <1>0 DEF Work
<1>s. ASSUME NEW v \in Workers, NEW r, Work(v, r), v # w
      PROVE  workers'[w].pc # "idle" /\ workers'[w].msg = workers[w].msg
  BY <1>x, <1>s
<1>1. CASE UNCHANGED workers  BY <1>1
<1>2. ASSUME NEW v \in Workers, NEW m \in Messages, Receive(v, m)
      PROVE  workers'[w].pc # "idle" /\ workers'[w].msg = workers[w].msg
  <2>1. v # w  BY <1>2 DEF Receive, WorkerIs
  <2>2. \E r : Work(v, r)  BY <1>2 DEF Receive
  <2> QED  BY <1>s, <2>1, <2>2
<1>3. ASSUME NEW v \in Workers, v # w,
             WorkerSteps(v) \/ Raise(v) \/ StopWorker(v)
      PROVE  workers'[w].pc # "idle" /\ workers'[w].msg = workers[w].msg
  <2>1. \E r : Work(v, r)
    BY <1>3 DEF WorkerSteps, ReadFacts, Start, ReadNote, WriteNote, Store, Close,
                Summarise, CannotDecide, Raise, StopWorker, Privately
  <2> QED  BY <1>3, <1>s, <2>1
<1>4. ASSUME WorkerSteps(w) \/ Raise(w) \/ StopWorker(w)
      PROVE  \/ workers'[w].pc # "idle" /\ workers'[w].msg = workers[w].msg
             \/ Done(workers[w].msg.post) /\ UNCHANGED post
             \/ SetStatus(workers[w].msg.post, "completed")
             \/ Returned(workers[w].msg)
  <2> DEFINE q == workers[w]
  <2>m. ASSUME NEW s \in WorkPcs \ {"idle"}, Work(w, [q EXCEPT !.pc = s])
        PROVE  workers'[w].pc # "idle" /\ workers'[w].msg = q.msg
    <3> DEFINE r == [q EXCEPT !.pc = s]
    <3>1. r.pc = s /\ r.msg = q.msg  BY <1>0, MovesOn
    <3>2. Work(w, r)  BY <2>m
    <3> HIDE DEF r
    <3>3. workers'[w] = r  BY <1>x, <3>2
    <3> QED  BY <3>1, <3>3
  <2>1. CASE ReadFacts(w)
    <3>1. CASE Done(Of(w))
      BY <1>0, <2>1, <3>1 DEF ReadFacts, Privately
    <3>2. CASE ~Done(Of(w))
      <4> DEFINE r == [q EXCEPT !.pc = "starting", !.decision = post[Of(w)].meta.decision]
      <4>1. Work(w, r)  BY <2>1, <3>2 DEF ReadFacts, Privately, Done
      <4>2. r.pc = "starting" /\ r.msg = q.msg  BY <1>0 DEF Worker
      <4> HIDE DEF r, q
      <4>3. workers'[w].pc = "starting" /\ workers'[w].msg = q.msg
        BY <1>x, <4>1, <4>2
      <4> QED  BY <4>3 DEF q
    <3> QED  BY <3>1, <3>2
  <2>2. CASE Start(w)
    <3> PICK d \in Decisions(w) : Work(w, [q EXCEPT !.pc = "storing", !.decision = d])
      BY <2>2 DEF Start
    <3> DEFINE r == [q EXCEPT !.pc = "storing", !.decision = d]
    <3>1. Work(w, r)  OBVIOUS
    <3>2. r.pc = "storing" /\ r.msg = q.msg  BY <1>0 DEF Worker
    <3> HIDE DEF r, q
    <3>3. workers'[w].pc = "storing" /\ workers'[w].msg = q.msg
      BY <1>x, <3>1, <3>2
    <3> QED  BY <3>3 DEF q
  <2>3. CASE ReadNote(w)
    <3> DEFINE r == [q EXCEPT !.pc = "writing", !.seen = post[Of(w)].meta]
    <3>1. Work(w, r)  BY <2>3 DEF ReadNote, Privately
    <3>2. r.pc = "writing" /\ r.msg = q.msg  BY <1>0 DEF Worker
    <3> HIDE DEF r, q
    <3>3. workers'[w].pc = "writing" /\ workers'[w].msg = q.msg
      BY <1>x, <3>1, <3>2
    <3> QED  BY <3>3 DEF q
  <2>4. CASE CannotDecide(w)
    BY <2>4, <2>m DEF CannotDecide, WorkPcs
  <2>5. CASE WriteNote(w)
    <3> DEFINE r == [q EXCEPT !.pc = "raising", !.seen = NoMetadata]
    <3>1. Work(w, r)  BY <2>5 DEF WriteNote
    <3>2. r.pc = "raising" /\ r.msg = q.msg  BY <1>0 DEF Worker
    <3> HIDE DEF r, q
    <3>3. workers'[w].pc = "raising" /\ workers'[w].msg = q.msg
      BY <1>x, <3>1, <3>2
    <3> QED  BY <3>3 DEF q
  <2>6. CASE Store(w)
    <3> DEFINE r == [q EXCEPT !.pc = "closing", !.decision = "none"]
    <3>1. Work(w, r)  BY <2>6 DEF Store
    <3>2. r.pc = "closing" /\ r.msg = q.msg  BY <1>0 DEF Worker
    <3> HIDE DEF r, q
    <3>3. workers'[w].pc = "closing" /\ workers'[w].msg = q.msg
      BY <1>x, <3>1, <3>2
    <3> QED  BY <3>3 DEF q
  <2>7. CASE Close(w)  BY <1>0, <2>7 DEF Close
  <2>8. CASE Raise(w) \/ StopWorker(w)  BY <2>8 DEF Raise, StopWorker
  <2>9. ~Summarise(w)  BY DEF Summarise
  <2> QED  BY <1>4, <2>1, <2>2, <2>3, <2>4, <2>5, <2>6, <2>7, <2>8, <2>9
           DEF WorkerSteps
<1>5. ASSUME \/ \E c \in Collectors :
                  \/ \E k \in Keys : AskCollection(c, k)
                  \/ AskNews(c) \/ AskRequeue(c)
                  \/ CollectorSteps(c) \/ CollectError(c) \/ StopCollector(c)
             \/ \E p \in Posts : RequestSummary(p) \/ Redrive(p) \/ SweepPost(p)
             \/ \E k \in Keys : SweepRun(k)
             \/ UNCHANGED vars
      PROVE  UNCHANGED workers
  BY <1>5 DEF AskCollection, AskNews, AskRequeue, CollectorSteps, StartRun, Insert, Link,
              Send, Mark, CompleteRun, FailRun, LookUp, CollectError, StopCollector,
              RequestSummary, Redrive, SweepPost, SweepRun, vars
<1>6. CASE \E v \in Workers : \/ \E m \in Messages : Receive(v, m)
                              \/ WorkerSteps(v) \/ Raise(v)
                              \/ StopWorker(v)
  <2> PICK v \in Workers : \/ \E m \in Messages : Receive(v, m)
                           \/ WorkerSteps(v) \/ Raise(v)
                           \/ StopWorker(v)
    BY <1>6
  <2>1. CASE v = w  BY <1>2, <1>4, <2>1
  <2>2. CASE v # w  BY <1>2, <1>3, <2>2
  <2> QED  BY <2>1, <2>2
<1> QED  BY <1>1, <1>5, <1>6 DEF Next

\* A post's message stays on its way until the post is analysed.
LEMMA CarriedKept ==
  ASSUME TypeInv, [Next]_vars, NEW p \in Posts, Carried(p)
  PROVE  Carried(p)' \/ Done(p)'
<1>0. \A o \in Posts : Text(o) \in Messages /\ Text(o).kind = "text" /\ Text(o).post = o
  BY TextTyped
<1>1. CASE p \in gaveUp  BY <1>0, <1>1, QueueKept DEF Carried
<1>2. CASE \E m \in Messages : m.kind = "text" /\ m.post = p /\ queue[m] > 0
  <2> PICK m \in Messages : m.kind = "text" /\ m.post = p /\ queue[m] > 0  BY <1>2
  <2>1. CASE queue'[m] > 0  BY <2>1 DEF Carried
  <2>2. CASE \E w \in Workers : Receive(w, m)
    <3> PICK w \in Workers : Receive(w, m)  BY <2>2
    <3> DEFINE n == [m EXCEPT !.receives = @ + 1]
               r == [Resting EXCEPT !.pc = "received", !.msg = n]
    <3>1. Work(w, r)  BY DEF Receive
    <3>2. n.kind = "text" /\ n.post = p  BY DEF Messages
    <3> HIDE DEF n
    <3>3. r.pc = "received" /\ r.msg = n  BY DEF Resting
    <3> HIDE DEF r
    <3>4. workers'[w].pc = "received" /\ workers'[w].msg = n
      BY <3>1, <3>3 DEF Work, TypeInv, TypeOK
    <3> QED  BY <3>2, <3>4 DEF Carried, Of
  <2> QED  BY <2>1, <2>2, QueueKept
<1>3. CASE \E w \in Workers : /\ workers[w].pc # "idle"
                              /\ workers[w].msg.kind = "text" /\ Of(w) = p
  <2> PICK w \in Workers : /\ workers[w].pc # "idle"
                           /\ workers[w].msg.kind = "text" /\ Of(w) = p
    BY <1>3
  <2>0. workers[w].msg \in Messages /\ workers[w].msg.post = p
    BY Holding DEF Of
  <2>1. CASE workers'[w].pc # "idle" /\ workers'[w].msg = workers[w].msg
    BY <2>0, <2>1 DEF Carried, Of
  <2>2. CASE Done(p) /\ UNCHANGED post  BY <2>2 DEF Done
  <2>3. CASE SetStatus(p, "completed")
    BY <2>3, StatusSet DEF Done, TypeInv, TypeOK, PostStatuses
  <2>4. CASE Returned(workers[w].msg)
    <3>1. queue'[workers[w].msg] > 0 \/ p \in gaveUp'
      BY <2>0, <2>4, ReturnedIs DEF TypeInv, TypeOK
    <3> QED  BY <2>0, <3>1 DEF Carried
  <2> QED  BY <2>0, <2>1, <2>2, <2>3, <2>4, WorkerEnds
<1> QED  BY <1>1, <1>2, <1>3 DEF Carried

\* A collector comes to link, send or mark with the post it had in hand, or with one
\* it has just found stored or inserted; and to the mark only by sending.
LEMMA HandFrom ==
  ASSUME TypeInv, [Next]_vars, NEW c \in Collectors,
         collectors'[c].pc \in {"linking", "sending", "marking"}
  PROVE  \/ collectors'[c] = collectors[c]
         \/ /\ collectors[c].pc \in {"linking", "sending"}
            /\ collectors'[c].post = collectors[c].post
            /\ collectors'[c].pc = "marking" => Send(c)
         \/ /\ collectors'[c].pc # "marking"
            /\ post'[collectors'[c].post].status # "absent"
<1>0. /\ collectors \in [Collectors -> Collector] /\ collectors[c] \in Collector
      /\ collectors[c].pc \in InHand => collectors[c].post \in Posts
      /\ post \in [Posts -> Row]
  BY DEF TypeInv, TypeOK, CollectorsHold, InHand
<1>x. \A v \in Collectors : \A r : Collect(v, r)
        => collectors'[v] = r /\ (v # c => collectors'[c] = collectors[c])
  BY <1>0 DEF Collect
<1> DEFINE q == collectors[c]
           Step(v) == \/ \E k \in Keys : AskCollection(v, k)
                      \/ AskNews(v) \/ AskRequeue(v)
                      \/ CollectorSteps(v) \/ CollectError(v) \/ StopCollector(v)
<1>n. ASSUME NEW r, Collect(c, r)
      PROVE  r.pc \in {"linking", "sending", "marking"} /\ collectors'[c] = r
  BY <1>x, <1>n
<1>1. ASSUME NEW v \in Collectors, v # c, Step(v) PROVE collectors'[c] = collectors[c]
  <2>1. \E r : Collect(v, r)
    BY <1>1 DEF AskCollection, AskNews, AskRequeue, CollectorSteps, StartRun, Insert, Link,
                Send, Mark, CompleteRun, FailRun, LookUp, CollectError, StopCollector
  <2> QED  BY <1>1, <1>x, <2>1
<1>2. ASSUME NEW k \in Keys, AskCollection(c, k) PROVE FALSE
  <2> DEFINE r == [Idle EXCEPT !.pc = "asked", !.kind = "discussion", !.key = k]
  <2>1. Collect(c, r)  BY <1>2 DEF AskCollection
  <2>2. r.pc = "asked"  BY DEF Idle
  <2> HIDE DEF r
  <2> QED  BY <1>n, <2>1, <2>2
<1>3. ~AskNews(c)
  <2> SUFFICES ASSUME AskNews(c) PROVE FALSE  OBVIOUS
  <2> DEFINE r == [Idle EXCEPT !.pc = "looking", !.left = Found("news")]
  <2>1. Collect(c, r)  BY DEF AskNews
  <2>2. r.pc = "looking"  BY DEF Idle
  <2> HIDE DEF r
  <2> QED  BY <1>n, <2>1, <2>2
<1>4. CASE AskRequeue(c)
  <2> PICK p \in Posts :
        /\ post[p].status \in {"pending", "failed"}
        /\ Collect(c, [Idle EXCEPT !.pc = "sending", !.kind = "requeue",
                                   !.post = p, !.seen = post[p].status])
    BY <1>4 DEF AskRequeue
  <2> DEFINE r == [Idle EXCEPT !.pc = "sending", !.kind = "requeue",
                               !.post = p, !.seen = post[p].status]
  <2>1. Collect(c, r)  OBVIOUS
  <2>2. r.post = p /\ r.pc = "sending"  BY DEF Idle
  <2> HIDE DEF r
  <2>3. UNCHANGED post  BY <1>4 DEF AskRequeue
  <2> QED  BY <1>n, <2>1, <2>2, <2>3
<1>5. ~StartRun(c)
  <2> SUFFICES ASSUME StartRun(c) PROVE FALSE  OBVIOUS
  <2> PICK b \in BOOLEAN :
        Collect(c, [q EXCEPT !.pc = "looking", !.malformed = b,
                             !.left = Found("discussion")])
    BY DEF StartRun
  <2> DEFINE r == [q EXCEPT !.pc = "looking", !.malformed = b,
                            !.left = Found("discussion")]
  <2>1. Collect(c, r)  OBVIOUS
  <2>2. r.pc = "looking"  BY <1>0 DEF Collector
  <2> HIDE DEF r
  <2> QED  BY <1>n, <2>1, <2>2
<1>6. ASSUME NEW p \in Posts, LookUp(c, p)
      PROVE  /\ collectors'[c].pc # "marking"
             /\ post'[collectors'[c].post].status # "absent"
  <2> DEFINE pc == IF post[p].status = "absent" THEN "inserting" ELSE "linking"
             r  == [q EXCEPT !.left = @ \ {p}, !.post = p,
                             !.seen = post[p].status, !.pc = pc]
  <2>1. Collect(c, r) /\ UNCHANGED post  BY <1>6 DEF LookUp
  <2>2. r.pc = pc /\ r.post = p  BY <1>0 DEF Collector
  <2> HIDE DEF r
  <2> QED  BY <1>n, <2>1, <2>2
<1>7. CASE Insert(c)
  <2> DEFINE r == [q EXCEPT !.pc = "linking", !.seen = "pending"]
  <2>0. q.post \in Posts  BY <1>0, <1>7 DEF Insert, CollectorIs, InHand
  <2>1. ~Collect(c, AfterError(q))  BY <1>0, <1>n, AfterErrorIs
  <2>2. PICK b \in BOOLEAN :
          post' = [post EXCEPT ![q.post].status = "pending", ![q.post].matched = b]
    BY <1>7, <2>1 DEF Insert
  <2>3. Collect(c, r)  BY <1>7, <2>1 DEF Insert
  <2>4. r.post = q.post /\ r.pc = "linking"  BY <1>0 DEF Collector
  <2>5. post'[q.post].status = "pending"  BY <1>0, <2>0, <2>2 DEF Row
  <2> HIDE DEF r, q
  <2> QED  BY <1>n, <2>3, <2>4, <2>5
<1>8. CASE Link(c)
  <2> DEFINE r == [q EXCEPT !.pc = "sending"]
  <2>1. Collect(c, r) \/ Collect(c, Onward(q))  BY <1>8 DEF Link
  <2>2. r.post = q.post /\ r.pc = "sending"  BY <1>0 DEF Collector
  <2>3. Onward(q).pc \notin {"linking", "sending", "marking"}  BY <1>0, OnwardIs
  <2>4. q.pc = "linking"  BY <1>8 DEF Link, CollectorIs
  <2> HIDE DEF r, q
  <2> QED  BY <1>n, <2>1, <2>2, <2>3, <2>4 DEF q
<1>9. CASE Send(c)
  <2> DEFINE r == [q EXCEPT !.pc = "marking"]
  <2>1. Collect(c, r) /\ q.pc = "sending"  BY <1>9 DEF Send, CollectorIs
  <2>2. r.post = q.post  BY <1>0 DEF Collector
  <2> HIDE DEF r
  <2> QED  BY <1>9, <1>n, <2>1, <2>2
<1>10. ~Mark(c) /\ ~CollectError(c)
  BY <1>0, <1>n, OnwardIs, AfterErrorIs DEF Mark, CollectError
<1>11. ~CompleteRun(c) /\ ~FailRun(c) /\ ~StopCollector(c)
  BY <1>n, IdleTyped DEF CompleteRun, FailRun, StopCollector
<1>13. CASE \E v \in Collectors : Step(v)
  <2> PICK v \in Collectors : Step(v)  BY <1>13
  <2>1. CASE v # c  BY <1>1, <2>1
  <2>2. CASE v = c
    BY <1>2, <1>3, <1>4, <1>5, <1>6, <1>7, <1>8, <1>9, <1>10, <1>11, <2>2
       DEF CollectorSteps
  <2> QED  BY <2>1, <2>2
<1>14. CASE UNCHANGED collectors  BY <1>14
<1> QED  BY <1>13, <1>14, OthersCollect DEF Next

\* A post becomes queued only by a mark.
LEMMA QueuedFrom ==
  ASSUME TypeInv, [Next]_vars, NEW p \in Posts, post'[p].status = "queued"
  PROVE  \/ post[p].status = "queued"
         \/ \E c \in Collectors : /\ collectors[c].pc = "marking"
                                  /\ collectors[c].post = p /\ ~Done(p)
<1>0. post \in [Posts -> Row]  BY DEF TypeInv, TypeOK
<1>1. CASE UNCHANGED post  BY <1>1
<1>2. ASSUME NEW s \in PostStatuses \ {"queued"}, NEW o \in Posts, SetStatus(o, s)
      PROVE  post[p].status = "queued"
  BY <1>0, <1>2, StatusSet
<1>3. ASSUME NEW c \in Collectors, Insert(c) PROVE post[p].status = "queued"
  <2>0. collectors[c].post \in Posts
    BY <1>3 DEF Insert, CollectorIs, TypeInv, CollectorsHold
  <2>1. CASE UNCHANGED post  BY <2>1
  <2>2. CASE ~UNCHANGED post
    <3>1. PICK b \in BOOLEAN :
            post' = [post EXCEPT ![collectors[c].post].status = "pending",
                                 ![collectors[c].post].matched = b]
      BY <1>3, <2>2 DEF Insert
    <3> QED  BY <1>0, <2>0, <3>1 DEF Row
  <2> QED  BY <2>1, <2>2
<1>4. ASSUME NEW c \in Collectors, Mark(c), post[p].status # "queued"
      PROVE  /\ collectors[c].pc = "marking" /\ collectors[c].post = p /\ ~Done(p)
  <2>0. collectors[c].post \in Posts /\ collectors[c].pc = "marking"
    BY <1>4 DEF Mark, CollectorIs, TypeInv, CollectorsHold
  <2>1. MarkedQueued(collectors[c].post)  BY <1>4 DEF Mark
  <2>2. CASE UNCHANGED post  BY <1>4, <2>2
  <2>3. CASE /\ SetStatus(collectors[c].post, "queued")
             /\ post[collectors[c].post].status \notin QueuedOrDone
    BY <1>0, <1>4, <2>0, <2>3, StatusSet DEF Done, QueuedOrDone, PostStatuses
  <2> QED  BY <2>1, <2>2, <2>3 DEF MarkedQueued
<1>5. ASSUME NEW w \in Workers, Start(w) \/ CannotDecide(w) \/ Close(w) \/ Raise(w)
      PROVE  post[p].status = "queued"
  <2>0. Of(w) \in Posts /\ Of(w) = workers[w].msg.post
    BY <1>5, Holding DEF Start, CannotDecide, Close, Raise, WorkerIs, Of
  <2>1. \/ UNCHANGED post \/ SetStatus(Of(w), "analyzing")
        \/ SetStatus(Of(w), "completed") \/ SetStatus(Of(w), "failed")
    BY <1>5, <2>0 DEF Start, CannotDecide, Started, Close, Raise
  <2> QED  BY <1>1, <1>2, <2>0, <2>1 DEF PostStatuses
<1>6. ASSUME NEW w \in Workers, WriteNote(w) \/ Store(w) \/ Summarise(w)
      PROVE  post[p].status = "queued"
  BY <1>6, SameStatus
<1>7. ASSUME NEW o \in Posts, SweepPost(o) PROVE post[p].status = "queued"
  BY <1>2, <1>7 DEF SweepPost, PostStatuses
<1>8. ASSUME NEW c \in Collectors,
             \/ \E k \in Keys : AskCollection(c, k)
             \/ AskNews(c) \/ AskRequeue(c) \/ StartRun(c) \/ Link(c) \/ Send(c)
             \/ CompleteRun(c) \/ FailRun(c) \/ CollectError(c) \/ StopCollector(c)
             \/ \E o \in Posts : LookUp(c, o)
      PROVE  UNCHANGED post
  BY <1>8 DEF AskCollection, AskNews, AskRequeue, StartRun, Link, Send, CompleteRun,
              FailRun, CollectError, StopCollector, LookUp
<1>9. ASSUME NEW w \in Workers,
             \/ \E m \in Messages : Receive(w, m)
             \/ ReadFacts(w) \/ ReadNote(w) \/ StopWorker(w)
      PROVE  UNCHANGED post
  BY <1>9 DEF Receive, ReadFacts, ReadNote, StopWorker, Privately
<1>10. ASSUME \/ \E o \in Posts : RequestSummary(o) \/ Redrive(o)
              \/ \E k \in Keys : SweepRun(k)
              \/ UNCHANGED vars
       PROVE  UNCHANGED post
  BY <1>10 DEF RequestSummary, Redrive, SweepRun, vars
<1> QED
  BY <1>1, <1>3, <1>4, <1>5, <1>6, <1>7, <1>8, <1>9, <1>10
     DEF Next, CollectorSteps, WorkerSteps

\* Every step keeps the queued posts carried: the send puts the message in the
\* queue before the mark, and the mark leaves an analysed post alone.
LEMMA QueuedStep == ASSUME QueuedInv, [Next]_vars PROVE QueuedInv'
<1> USE DEF QueuedInv
<1>1. TypeInv'  BY TypeStep
<1>2. \A o \in Posts : Forward(o)  BY StepForward
<1>3. SentHolds'
  <2> SUFFICES ASSUME NEW c \in Collectors, collectors'[c].pc = "marking",
                      NEW p, p = collectors'[c].post
               PROVE  Carried(p)' \/ Done(p)'
    BY DEF SentHolds, Carried, Done
  <2>0. p \in Posts  BY <1>1 DEF TypeInv, CollectorsHold
  <2>1. CASE collectors'[c] = collectors[c]
    <3>1. Carried(p) \/ Done(p)  BY <2>1 DEF SentHolds
    <3> QED  BY <1>2, <2>0, <3>1, CarriedKept DEF Forward
  <2>2. CASE Send(c) /\ collectors'[c].post = collectors[c].post
    <3>1. Put(Text(p)) /\ Text(p) \in Messages /\ queue \in [Messages -> Nat]
      BY <2>0, <2>2, TextTyped DEF Send, TypeInv, TypeOK
    <3>2. queue'[Text(p)] > 0  BY <3>1, PutIs
    <3> QED  BY <2>0, <3>1, <3>2, TextTyped DEF Carried
  <2> QED  BY <2>1, <2>2, HandFrom
<1>4. QueuedHolds'
  <2> SUFFICES ASSUME NEW p \in Posts, post'[p].status = "queued"
               PROVE  Carried(p)'
    BY DEF QueuedHolds
  <2>1. ~Done(p)'  BY DEF Done
  <2>2. Carried(p)
    <3>1. CASE post[p].status = "queued"  BY <3>1 DEF QueuedHolds
    <3>2. CASE \E c \in Collectors : /\ collectors[c].pc = "marking"
                                     /\ collectors[c].post = p /\ ~Done(p)
      BY <3>2 DEF SentHolds
    <3> QED  BY <3>1, <3>2, QueuedFrom
  <2> QED  BY <2>1, <2>2, CarriedKept
<1> QED  BY <1>1, <1>3, <1>4

\* A post that is queued for analysis has a message in the queue, a worker on it,
\* or its message in the dead-letter queue: no step, stop, error or late mark
\* leaves it waiting for nothing.
THEOREM QueuedIsCarried == Spec => []QueuedHasMessage
<1>1. Init => QueuedInv
  <2> SUFFICES ASSUME Init PROVE QueuedInv  OBVIOUS
  <2>1. SentHolds  BY IdleTyped DEF Init, SentHolds
  <2>2. QueuedHolds  BY DEF Init, QueuedHolds, NoRow
  <2> QED  BY <2>1, <2>2, TypeInit DEF QueuedInv
<1>2. Spec => []QueuedInv
  BY <1>1, QueuedStep, PTL DEF Spec
<1>3. QueuedInv => QueuedHasMessage
  BY DEF QueuedInv, QueuedHolds, QueuedHasMessage, Carried, WorkerIs
<1> QED  BY <1>2, <1>3, PTL

-----------------------------------------------------------------------------
(* The promise of one text *)

\* Only stored posts have messages, and a post that is about to be closed has a
\* result.
StoredHolds ==
  /\ \A c \in Collectors : collectors[c].pc \in {"linking", "sending", "marking"}
                             => Present(collectors[c].post)
  /\ \A m \in Messages : m.kind = "text" /\ queue[m] > 0 => Present(m.post)
  /\ \A p \in gaveUp : Present(p)
  /\ \A w \in Workers : workers[w].pc # "idle" /\ workers[w].msg.kind = "text"
                          => Present(Of(w))
ResultHolds == \A w \in Workers : workers[w].pc = "closing" => Of(w) \in results
LifeInv == TypeInv /\ StoredHolds /\ ResultHolds

\* Where a text's message in the queue, or a post given up, comes from.
LEMMA QueueFrom ==
  ASSUME TypeInv, [Next]_vars
  PROVE  /\ \A m \in Messages : m.kind = "text" /\ queue'[m] > 0 =>
              \/ queue[m] > 0
              \/ \E c \in Collectors : collectors[c].pc = "sending"
                                       /\ m.post = collectors[c].post
              \/ \E w \in Workers : workers[w].pc # "idle" /\ m = workers[w].msg
              \/ m.post \in gaveUp
         /\ \A p \in gaveUp' :
              \/ p \in gaveUp
              \/ \E w \in Workers : /\ workers[w].pc # "idle"
                                    /\ workers[w].msg.kind = "text" /\ Of(w) = p
<1>0. /\ queue \in [Messages -> Nat] /\ gaveUp \subseteq Posts
      /\ \A p \in Posts : Text(p) \in Messages /\ Text(p).post = p
  BY TextTyped DEF TypeInv, TypeOK
<1>p. ASSUME NEW n \in Messages, Put(n)
      PROVE  \A m \in Messages : queue'[m] > 0 => queue[m] > 0 \/ m = n
  BY <1>0, <1>p DEF Put
<1>1. CASE UNCHANGED <<queue, gaveUp>>  BY <1>1
<1>2. ASSUME NEW c \in Collectors, Send(c) \/ CollectError(c)
      PROVE  /\ UNCHANGED gaveUp
             /\ \A m \in Messages : queue'[m] > 0 =>
                  \/ queue[m] > 0
                  \/ collectors[c].pc = "sending" /\ m.post = collectors[c].post
  <2>0. collectors[c].pc = "sending" => collectors[c].post \in Posts
    BY DEF TypeInv, CollectorsHold
  <2>1. /\ UNCHANGED gaveUp
        /\ \/ UNCHANGED queue
           \/ collectors[c].pc = "sending" /\ Put(Text(collectors[c].post))
    BY <1>2 DEF Send, CollectError, CollectorIs
  <2>2. CASE UNCHANGED queue  BY <2>1, <2>2
  <2>3. CASE collectors[c].pc = "sending" /\ Put(Text(collectors[c].post))
    BY <1>0, <1>p, <2>0, <2>1, <2>3
  <2> QED  BY <2>1, <2>2, <2>3
<1>3. ASSUME NEW w \in Workers, Raise(w) \/ StopWorker(w)
      PROVE  /\ workers[w].pc # "idle"
             /\ \A m \in Messages : queue'[m] > 0 => queue[m] > 0 \/ m = workers[w].msg
             /\ \A p \in gaveUp' : \/ p \in gaveUp
                                   \/ workers[w].msg.kind = "text" /\ Of(w) = p
  <2>1. workers[w].pc # "idle" /\ Returned(workers[w].msg)
    BY <1>3 DEF Raise, StopWorker, WorkerIs
  <2>2. workers[w].msg \in Messages  BY <2>1, Holding
  <2> QED  BY <1>0, <2>1, <2>2, ReturnedIs DEF Of
<1>4. ASSUME NEW w \in Workers, NEW m \in Messages, Receive(w, m)
      PROVE  /\ UNCHANGED gaveUp
             /\ \A o \in Messages : queue'[o] > 0 => queue[o] > 0
  <2>1. queue' = [queue EXCEPT ![m] = @ - 1] /\ UNCHANGED gaveUp /\ queue[m] > 0
    BY <1>4 DEF Receive
  <2> QED  BY <1>0, <2>1
<1>5. ASSUME NEW p \in Posts, RequestSummary(p)
      PROVE  /\ UNCHANGED gaveUp
             /\ \A m \in Messages : m.kind = "text" /\ queue'[m] > 0 => queue[m] > 0
  <2>1. SummaryOf(p) \in Messages /\ SummaryOf(p).kind = "summary"
    BY BoundsAreCounts DEF SummaryOf, Messages
  <2>2. Put(SummaryOf(p)) /\ UNCHANGED gaveUp  BY <1>5 DEF RequestSummary
  <2> QED  BY <1>p, <2>1, <2>2
<1>6. ASSUME NEW p \in Posts, Redrive(p)
      PROVE  /\ gaveUp' \subseteq gaveUp /\ p \in gaveUp
             /\ \A m \in Messages : queue'[m] > 0 => queue[m] > 0 \/ m.post = p
  <2>1. Put(Text(p)) /\ gaveUp' = gaveUp \ {p} /\ p \in gaveUp  BY <1>6 DEF Redrive
  <2> QED  BY <1>0, <1>p, <2>1
<1>7. CASE UNCHANGED vars  BY <1>1, <1>7, QueueSame
<1>8. CASE \E c \in Collectors : \/ \E k \in Keys : AskCollection(c, k)
                                 \/ AskNews(c) \/ AskRequeue(c)
                                 \/ CollectorSteps(c) \/ CollectError(c)
                                 \/ StopCollector(c)
  BY <1>1, <1>2, <1>8, QueueSame DEF CollectorSteps
<1>9. CASE \E w \in Workers : \/ \E m \in Messages : Receive(w, m)
                              \/ WorkerSteps(w) \/ Raise(w)
                              \/ StopWorker(w)
  <2> PICK w \in Workers : \/ \E m \in Messages : Receive(w, m)
                           \/ WorkerSteps(w) \/ Raise(w)
                           \/ StopWorker(w)
    BY <1>9
  <2>1. CASE \E m \in Messages : Receive(w, m)  BY <1>4, <2>1
  <2>2. CASE Raise(w) \/ StopWorker(w)  BY <1>3, <2>2
  <2>3. CASE WorkerSteps(w) /\ ~Raise(w)  BY <1>1, <2>3, QueueSame
  <2>4. CASE CannotDecide(w)  BY <1>1, <2>4, QueueSame
  <2> QED  BY <2>1, <2>2, <2>3, <2>4
<1>10. CASE \E p \in Posts : RequestSummary(p) \/ Redrive(p) \/ SweepPost(p)
  BY <1>1, <1>5, <1>6, <1>10, QueueSame
<1>11. CASE \E k \in Keys : SweepRun(k)  BY <1>1, <1>11, QueueSame
<1> QED  BY <1>7, <1>8, <1>9, <1>10, <1>11 DEF Next

\* Where a worker's message comes from, and how a worker comes to the end of an
\* analysis: only by storing its result.
LEMMA WorkerFrom ==
  ASSUME TypeInv, [Next]_vars, NEW w \in Workers, workers'[w].pc # "idle"
  PROVE  /\ \/ workers[w].pc # "idle" /\ workers'[w].msg = workers[w].msg
            \/ \E m \in Messages : /\ queue[m] > 0 /\ workers'[w].msg.kind = m.kind
                                   /\ workers'[w].msg.post = m.post
                                   /\ workers'[w].pc = "received"
         /\ workers'[w].pc = "closing" => \/ workers[w].pc = "closing"
                                          \/ Store(w)
<1>0. workers \in [Workers -> Worker] /\ workers[w] \in Worker
  BY DEF TypeInv, TypeOK
<1>x. \A v \in Workers : \A r : Work(v, r)
        => workers'[v] = r /\ (v # w => workers'[w] = workers[w])
  BY <1>0 DEF Work
<1> DEFINE q == workers[w]
           Step(v) == \/ \E m \in Messages : Receive(v, m)
                      \/ WorkerSteps(v) \/ Raise(v)
                      \/ StopWorker(v)
<1>r. ~Work(w, Resting)  BY <1>x, RestingTyped
<1>s. ASSUME workers'[w] = workers[w]
      PROVE  q.pc # "idle" /\ workers'[w].msg = q.msg
             /\ (workers'[w].pc = "closing" => q.pc = "closing")
  BY <1>s
<1>1. ASSUME NEW v \in Workers, v # w, Step(v) PROVE workers'[w] = workers[w]
  <2>1. \E r : Work(v, r)
    BY <1>1 DEF Receive, WorkerSteps, ReadFacts, Start, ReadNote, WriteNote, Store, Close,
                Summarise, CannotDecide, Raise, StopWorker, Privately
  <2> QED  BY <1>1, <1>x, <2>1
<1>2. ASSUME NEW m \in Messages, Receive(w, m)
      PROVE  /\ queue[m] > 0 /\ workers'[w].msg.kind = m.kind
             /\ workers'[w].msg.post = m.post /\ workers'[w].pc = "received"
  <2> DEFINE n == [m EXCEPT !.receives = @ + 1]
             r == [Resting EXCEPT !.pc = "received", !.msg = n]
  <2>1. Work(w, r) /\ queue[m] > 0  BY <1>2 DEF Receive
  <2>2. n.kind = m.kind /\ n.post = m.post  BY DEF Messages
  <2> HIDE DEF n
  <2>3. r.pc = "received" /\ r.msg = n  BY DEF Resting
  <2> HIDE DEF r
  <2>4. workers'[w] = r  BY <1>x, <2>1
  <2> QED  BY <2>1, <2>2, <2>3, <2>4
<1>m. ASSUME NEW s \in WorkPcs, Work(w, [q EXCEPT !.pc = s])
      PROVE  workers'[w].pc = s /\ workers'[w].msg = q.msg
  <2> DEFINE r == [q EXCEPT !.pc = s]
  <2>1. r.pc = s /\ r.msg = q.msg  BY <1>0, MovesOn
  <2>2. Work(w, r)  BY <1>m
  <2> HIDE DEF r
  <2>3. workers'[w] = r  BY <1>x, <2>2
  <2> QED  BY <2>1, <2>3
<1>3. ASSUME WorkerSteps(w), ~Raise(w)
      PROVE  /\ q.pc # "idle" /\ workers'[w].msg = q.msg
             /\ workers'[w].pc = "closing" => Store(w)
  <2>1. CASE ReadFacts(w)
    <3> DEFINE r == [q EXCEPT !.pc = "starting", !.decision = post[Of(w)].meta.decision]
    <3>1. Work(w, r) /\ q.pc = "received"
      BY <1>r, <2>1 DEF ReadFacts, Privately, WorkerIs
    <3>2. r.pc = "starting" /\ r.msg = q.msg  BY <1>0 DEF Worker
    <3> HIDE DEF r, q
    <3>3. workers'[w] = r  BY <1>x, <3>1
    <3> QED  BY <3>1, <3>2, <3>3
  <2>2. CASE Start(w)
    <3> PICK d \in Decisions(w) : Work(w, [q EXCEPT !.pc = "storing", !.decision = d])
      BY <2>2 DEF Start
    <3> DEFINE r == [q EXCEPT !.pc = "storing", !.decision = d]
    <3>1. Work(w, r) /\ q.pc = "starting"  BY <2>2 DEF Start, WorkerIs
    <3>2. r.pc = "storing" /\ r.msg = q.msg  BY <1>0 DEF Worker
    <3> HIDE DEF r, q
    <3>3. workers'[w] = r  BY <1>x, <3>1
    <3> QED  BY <3>1, <3>2, <3>3
  <2>3. CASE ReadNote(w)
    <3> DEFINE r == [q EXCEPT !.pc = "writing", !.seen = post[Of(w)].meta]
    <3>1. Work(w, r) /\ q.pc = "noting"  BY <2>3 DEF ReadNote, Privately, WorkerIs
    <3>2. r.pc = "writing" /\ r.msg = q.msg  BY <1>0 DEF Worker
    <3> HIDE DEF r, q
    <3>3. workers'[w] = r  BY <1>x, <3>1
    <3> QED  BY <3>1, <3>2, <3>3
  <2>4. CASE CannotDecide(w)
    BY <2>4, <1>m DEF CannotDecide, WorkPcs, WorkerIs
  <2>5. CASE WriteNote(w)
    <3> DEFINE r == [q EXCEPT !.pc = "raising", !.seen = NoMetadata]
    <3>1. Work(w, r) /\ q.pc = "writing"  BY <2>5 DEF WriteNote, WorkerIs
    <3>2. r.pc = "raising" /\ r.msg = q.msg  BY <1>0 DEF Worker
    <3> HIDE DEF r, q
    <3>3. workers'[w] = r  BY <1>x, <3>1
    <3> QED  BY <3>1, <3>2, <3>3
  <2>6. CASE Store(w)
    <3> DEFINE r == [q EXCEPT !.pc = "closing", !.decision = "none"]
    <3>1. Work(w, r) /\ q.pc = "storing"  BY <2>6 DEF Store, WorkerIs
    <3>2. r.pc = "closing" /\ r.msg = q.msg  BY <1>0 DEF Worker
    <3> HIDE DEF r, q
    <3>3. workers'[w] = r  BY <1>x, <3>1
    <3> QED  BY <2>6, <3>1, <3>2, <3>3
  <2>7. ~Close(w) /\ ~Summarise(w)  BY <1>r DEF Close, Summarise
  <2> QED  BY <1>3, <2>1, <2>2, <2>3, <2>4, <2>5, <2>6, <2>7 DEF WorkerSteps
<1>4. ~Raise(w) /\ ~StopWorker(w)  BY <1>r DEF Raise, StopWorker
<1>5. ASSUME \/ \E c \in Collectors :
                  \/ \E k \in Keys : AskCollection(c, k)
                  \/ AskNews(c) \/ AskRequeue(c)
                  \/ CollectorSteps(c) \/ CollectError(c) \/ StopCollector(c)
             \/ \E p \in Posts : RequestSummary(p) \/ Redrive(p) \/ SweepPost(p)
             \/ \E k \in Keys : SweepRun(k)
             \/ UNCHANGED vars
      PROVE  UNCHANGED workers
  BY <1>5 DEF AskCollection, AskNews, AskRequeue, CollectorSteps, StartRun, Insert, Link,
              Send, Mark, CompleteRun, FailRun, LookUp, CollectError, StopCollector,
              RequestSummary, Redrive, SweepPost, SweepRun, vars
<1>6. CASE \E v \in Workers : Step(v)
  <2> PICK v \in Workers : Step(v)  BY <1>6
  <2>1. CASE v # w  BY <1>s, <1>1, <2>1
  <2>2. CASE v = w /\ \E m \in Messages : Receive(w, m)  BY <1>2, <2>2
  <2>3. CASE v = w /\ ~\E m \in Messages : Receive(w, m)  BY <1>3, <1>4, <2>3
  <2> QED  BY <2>1, <2>2, <2>3
<1>7. CASE UNCHANGED workers  BY <1>s, <1>7
<1> QED  BY <1>5, <1>6, <1>7 DEF Next

\* Every step keeps messages to stored posts, and the closing ones to posts with a
\* result.
LEMMA LifeStep == ASSUME LifeInv, [Next]_vars PROVE LifeInv'
<1> USE DEF LifeInv
<1>1. TypeInv'  BY TypeStep
<1>2. \A o \in Posts : Forward(o)  BY StepForward
<1>m. \A m \in Messages : m.post \in Posts  BY DEF Messages
<1>3. StoredHolds'
  <2>1. ASSUME NEW c \in Collectors,
               collectors'[c].pc \in {"linking", "sending", "marking"}
        PROVE  post'[collectors'[c].post].status # "absent"
    <3>1. collectors[c].pc \in {"linking", "sending", "marking"}
            => collectors[c].post \in Posts /\ Present(collectors[c].post)
      BY DEF StoredHolds, TypeInv, CollectorsHold
    <3>2. collectors[c].pc \in {"linking", "sending", "marking"}
            => post'[collectors[c].post].status # "absent"
      BY <1>2, <3>1 DEF Forward, Present
    <3> QED  BY <2>1, <3>2, HandFrom
  <2>2. ASSUME NEW w \in Workers, workers[w].pc # "idle", workers[w].msg.kind = "text"
        PROVE  workers[w].msg.post \in Posts /\ Present(workers[w].msg.post)
    BY <2>2, Holding DEF StoredHolds, Of
  <2>3. ASSUME NEW m \in Messages, m.kind = "text", queue'[m] > 0
        PROVE  post'[m.post].status # "absent"
    <3>1. Present(m.post)
      <4>1. CASE queue[m] > 0  BY <2>3, <4>1 DEF StoredHolds
      <4>2. CASE m.post \in gaveUp  BY <4>2 DEF StoredHolds
      <4>3. CASE \E c \in Collectors : collectors[c].pc = "sending"
                                       /\ m.post = collectors[c].post
        BY <4>3 DEF StoredHolds
      <4>4. CASE \E w \in Workers : workers[w].pc # "idle" /\ m = workers[w].msg
        BY <2>2, <2>3, <4>4
      <4> QED  BY <2>3, <4>1, <4>2, <4>3, <4>4, QueueFrom
    <3> QED  BY <1>2, <1>m, <3>1 DEF Forward, Present
  <2>4. ASSUME NEW p \in gaveUp' PROVE post'[p].status # "absent"
    <3>1. p \in Posts /\ Present(p)
      BY <1>1, <2>2, QueueFrom DEF StoredHolds, TypeInv, TypeOK, Of
    <3> QED  BY <1>2, <3>1 DEF Forward, Present
  <2>5. ASSUME NEW w \in Workers, workers'[w].pc # "idle", workers'[w].msg.kind = "text"
        PROVE  post'[workers'[w].msg.post].status # "absent"
    <3>1. CASE workers[w].pc # "idle" /\ workers'[w].msg = workers[w].msg
      BY <1>2, <2>2, <2>5, <3>1 DEF Forward, Present
    <3>2. CASE \E m \in Messages : /\ queue[m] > 0 /\ workers'[w].msg.kind = m.kind
                                   /\ workers'[w].msg.post = m.post
      BY <1>2, <1>m, <2>5, <3>2 DEF StoredHolds, Forward, Present
    <3> QED  BY <2>5, <3>1, <3>2, WorkerFrom
  <2> QED  BY <2>1, <2>3, <2>4, <2>5 DEF StoredHolds, Present, Of
<1>4. ResultHolds'
  <2> SUFFICES ASSUME NEW w \in Workers, workers'[w].pc = "closing"
               PROVE  workers'[w].msg.post \in results'
    BY DEF ResultHolds, Of
  <2>1. results \subseteq results'
    BY DEF Next, AskCollection, AskNews, AskRequeue, CollectorSteps, StartRun, Insert, Link,
           Send, Mark, CompleteRun, FailRun, LookUp, CollectError, StopCollector, Receive,
           WorkerSteps, ReadFacts, Start, ReadNote, WriteNote, Store, Close, Summarise,
           CannotDecide, Raise, StopWorker, RequestSummary, Redrive, SweepPost, SweepRun,
           Privately, vars
  <2>2. workers[w].pc # "idle" /\ workers'[w].msg = workers[w].msg
    BY WorkerFrom
  <2>3. CASE workers[w].pc = "closing"
    BY <2>1, <2>2, <2>3 DEF ResultHolds, Of
  <2>4. CASE Store(w)  BY <2>2, <2>4 DEF Store, Of
  <2> QED  BY <2>3, <2>4, WorkerFrom
<1> QED  BY <1>1, <1>3, <1>4

\* The stages of the posts, and what a status means among them.
stages == [p \in Posts |-> Stage(p)]
StageOf(s) == CASE s = "absent"    -> "unseen"
                [] s = "failed"    -> "failed"
                [] s = "completed" -> "analysed"
                [] OTHER           -> "kept"

\* A step that moves one post's status moves its stage, and one that moves none
\* moves no stage.
LEMMA StagesMove ==
  ASSUME post \in [Posts -> Row], NEW p \in Posts, NEW s \in PostStatuses,
         \A o \in Posts : post'[o].status = IF o = p THEN s ELSE post[o].status
  PROVE  stages' = [stages EXCEPT ![p] = StageOf(s)]
BY DEF stages, Stage, StageOf
LEMMA StagesStay ==
  ASSUME \A o \in Posts : post'[o].status = post[o].status
  PROVE  stages' = stages
BY DEF stages, Stage

\* A move from one of the stages a post may be in, or none if it is there already.
LEMMA StageMove ==
  ASSUME post \in [Posts -> Row], NEW p \in Posts,
         NEW s \in PostStatuses, SetStatus(p, s), UNCHANGED results,
         \/ s \in {"queued", "analyzing"} /\ post[p].status \notin {"absent", "completed"}
         \/ s = "failed" /\ post[p].status \notin {"absent", "completed"}
         \/ s = "completed" /\ post[p].status # "absent" /\ p \in results
  PROVE  Life!Next \/ UNCHANGED <<stages, results>>
<1>0. post[p].status \in PostStatuses  BY DEF Row
<1>1. stages' = [stages EXCEPT ![p] = StageOf(s)]
  BY StatusSet, StagesMove
<1>2. stages[p] = StageOf(post[p].status)  BY DEF stages, Stage, StageOf
<1>3. CASE StageOf(s) = stages[p]
  <2>1. stages' = stages  BY <1>1, <1>3 DEF stages
  <2> QED  BY <2>1
<1>4. CASE StageOf(s) # stages[p]
  <2>1. CASE s \in {"queued", "analyzing"}
    <3>1. StageOf(s) = "kept" /\ stages[p] = "failed"
      BY <1>0, <1>2, <1>4, <2>1 DEF StageOf, PostStatuses
    <3>2. Life!Moves(p, {"failed"}, "kept")
      BY <1>1, <3>1 DEF Life!Moves, stages
    <3> QED  BY <3>2 DEF Life!Next
  <2>2. CASE s = "failed"
    <3>1. StageOf(s) = "failed" /\ stages[p] = "kept"
      BY <1>0, <1>2, <1>4, <2>2 DEF StageOf, PostStatuses
    <3>2. Life!Moves(p, {"kept"}, "failed")
      BY <1>1, <3>1 DEF Life!Moves, stages
    <3> QED  BY <3>2 DEF Life!Next
  <2>3. CASE s = "completed"
    <3>1. StageOf(s) = "analysed" /\ stages[p] \in {"kept", "failed"} /\ p \in results
      BY <1>0, <1>2, <1>4, <2>3 DEF StageOf, PostStatuses
    <3>2. Life!Moves(p, {"kept", "failed"}, "analysed")
      BY <1>1, <3>1 DEF Life!Moves, stages
    <3> QED  BY <3>1, <3>2 DEF Life!Next
  <2> QED  BY <2>1, <2>2, <2>3
<1> QED  BY <1>3, <1>4

\* Every step of the collectors, workers and sweeps is one step of the promise or
\* none.
LEMMA StepKept ==
  ASSUME LifeInv, [Next]_vars
  PROVE  Life!Next \/ UNCHANGED <<stages, results>>
<1> DEFINE Goal == Life!Next \/ UNCHANGED <<stages, results>>
<1>0. post \in [Posts -> Row]  BY DEF LifeInv, TypeInv, TypeOK
<1>1. ASSUME UNCHANGED <<post, results>> PROVE Goal
  BY <1>1, StagesStay
<1>2. ASSUME NEW c \in Collectors, Insert(c) PROVE Goal
  <2> DEFINE p == collectors[c].post
  <2>0. p \in Posts /\ UNCHANGED results
    BY <1>2 DEF Insert, CollectorIs, LifeInv, TypeInv, CollectorsHold
  <2>1. CASE UNCHANGED post  BY <1>1, <2>0, <2>1
  <2>2. CASE ~UNCHANGED post
    <3>1. PICK b \in BOOLEAN :
            /\ post[p].status = "absent"
            /\ post' = [post EXCEPT ![p].status = "pending", ![p].matched = b]
      BY <1>2, <2>2 DEF Insert
    <3>2. \A o \in Posts : post'[o].status = IF o = p THEN "pending" ELSE post[o].status
      BY <1>0, <2>0, <3>1 DEF Row
    <3>3. stages' = [stages EXCEPT ![p] = "kept"]
      BY <1>0, <2>0, <3>2, StagesMove DEF StageOf, PostStatuses
    <3>4. stages[p] = "unseen"  BY <2>0, <3>1 DEF stages, Stage
    <3>5. Life!Moves(p, {"unseen"}, "kept")
      BY <2>0, <3>3, <3>4 DEF Life!Moves, stages
    <3> QED  BY <2>0, <3>5 DEF Life!Next
  <2> QED  BY <2>1, <2>2
<1>3. ASSUME NEW c \in Collectors, Mark(c) PROVE Goal
  <2> DEFINE p == collectors[c].post
  <2>0. p \in Posts /\ UNCHANGED results /\ Present(p)
    BY <1>3 DEF Mark, CollectorIs, LifeInv, TypeInv, CollectorsHold, StoredHolds
  <2>1. \/ UNCHANGED post
        \/ SetStatus(p, "queued") /\ post[p].status \notin QueuedOrDone
    BY <1>3 DEF Mark, MarkedQueued
  <2> QED  BY <1>0, <1>1, <2>0, <2>1, StageMove DEF Present, QueuedOrDone, PostStatuses
<1>4. ASSUME NEW w \in Workers, Start(w) \/ CannotDecide(w) \/ Close(w) \/ Raise(w)
      PROVE  Goal
  <2>0. workers[w].pc # "idle" /\ UNCHANGED results
    BY <1>4 DEF Start, CannotDecide, Close, Raise, WorkerIs
  <2>1. /\ Of(w) \in Posts /\ Of(w) = workers[w].msg.post
        /\ workers[w].msg.kind = "text" => Present(Of(w))
        /\ workers[w].pc # "received" => workers[w].msg.kind = "text"
    BY <2>0, Holding DEF LifeInv, StoredHolds, Of
  <2>2. CASE Start(w) \/ CannotDecide(w)
    <3>1. workers[w].pc = "starting" /\ Started(Of(w))
      BY <2>2 DEF Start, CannotDecide, WorkerIs
    <3>2. \/ UNCHANGED post
          \/ SetStatus(Of(w), "analyzing") /\ ~Done(Of(w))
      BY <3>1 DEF Started, Done
    <3> QED  BY <1>0, <1>1, <2>0, <2>1, <3>1, <3>2, StageMove
             DEF Present, Done, PostStatuses
  <2>3. CASE Close(w)
    <3>1. workers[w].pc = "closing" /\ SetStatus(Of(w), "completed")
      BY <2>3 DEF Close, WorkerIs
    <3>2. Of(w) \in results  BY <3>1 DEF LifeInv, ResultHolds
    <3> QED  BY <1>0, <2>0, <2>1, <3>1, <3>2, StageMove DEF Present, PostStatuses
  <2>4. CASE Raise(w)
    <3>1. \/ UNCHANGED post
          \/ /\ SetStatus(Of(w), "failed") /\ ~Done(Of(w))
             /\ workers[w].msg.kind = "text"
      BY <2>1, <2>4 DEF Raise, Fails, Done
    <3> QED  BY <1>0, <1>1, <2>0, <2>1, <3>1, StageMove DEF Present, Done, PostStatuses
  <2> QED  BY <1>4, <2>2, <2>3, <2>4
<1>5. ASSUME NEW w \in Workers, WriteNote(w) \/ Summarise(w) PROVE Goal
  <2>1. UNCHANGED results  BY <1>5 DEF WriteNote, Summarise
  <2>2. stages' = stages  BY <1>5, SameStatus, StagesStay DEF LifeInv
  <2> QED  BY <2>1, <2>2
<1>6. ASSUME NEW w \in Workers, Store(w) PROVE Goal
  <2>0. workers[w].pc = "storing"  BY <1>6 DEF Store, WorkerIs
  <2>1. Of(w) \in Posts /\ Present(Of(w))
    BY <2>0, Holding DEF LifeInv, StoredHolds
  <2>2. stages' = stages  BY <1>6, SameStatus, StagesStay DEF LifeInv
  <2>3. stages[Of(w)] # "unseen"  BY <2>1 DEF stages, Stage, Present
  <2>4. Life!StoreResult(Of(w))
    BY <1>6, <2>2, <2>3 DEF Life!StoreResult, Store, stages
  <2> QED  BY <2>1, <2>4 DEF Life!Next
<1>7. ASSUME NEW p \in Posts, SweepPost(p) PROVE Goal
  BY <1>0, <1>7, StageMove DEF SweepPost, PostStatuses
<1>8. ASSUME NEW c \in Collectors,
             \/ \E k \in Keys : AskCollection(c, k)
             \/ AskNews(c) \/ AskRequeue(c) \/ StartRun(c) \/ Link(c) \/ Send(c)
             \/ CompleteRun(c) \/ FailRun(c) \/ CollectError(c) \/ StopCollector(c)
             \/ \E o \in Posts : LookUp(c, o)
      PROVE  UNCHANGED <<post, results>>
  BY <1>8 DEF AskCollection, AskNews, AskRequeue, StartRun, Link, Send, CompleteRun,
              FailRun, CollectError, StopCollector, LookUp
<1>9. ASSUME NEW w \in Workers,
             \/ \E m \in Messages : Receive(w, m)
             \/ ReadFacts(w) \/ ReadNote(w) \/ StopWorker(w)
      PROVE  UNCHANGED <<post, results>>
  BY <1>9 DEF Receive, ReadFacts, ReadNote, StopWorker, Privately
<1>10. ASSUME \/ \E o \in Posts : RequestSummary(o) \/ Redrive(o)
              \/ \E k \in Keys : SweepRun(k)
              \/ UNCHANGED vars
       PROVE  UNCHANGED <<post, results>>
  BY <1>10 DEF RequestSummary, Redrive, SweepRun, vars
<1> HIDE DEF Goal
<1>11. Goal
  BY <1>1, <1>2, <1>3, <1>4, <1>5, <1>6, <1>7, <1>8, <1>9, <1>10
     DEF Next, CollectorSteps, WorkerSteps
<1> QED  BY <1>11 DEF Goal

\* Collectors, queue, workers and sweeps together implement the promise of TextLife:
\* a text is kept once, its analysis fails and is tried again, and it counts as
\* analysed only once a result is stored, and then for good.
THEOREM TextIsKept == Spec => TextKept
<1>1. Init => Life!Init
  <2> SUFFICES ASSUME Init PROVE Life!Init  OBVIOUS
  <2>1. \A p \in Posts : Stage(p) = "unseen"  BY DEF Init, Stage, NoRow
  <2> QED  BY <2>1 DEF Init, Life!Init
<1>2. Init => LifeInv
  <2> SUFFICES ASSUME Init PROVE LifeInv  OBVIOUS
  <2>1. StoredHolds
    BY IdleTyped, RestingTyped DEF Init, StoredHolds
  <2>2. ResultHolds  BY RestingTyped DEF Init, ResultHolds
  <2> QED  BY <2>1, <2>2, TypeInit DEF LifeInv
<1>3. Spec => []LifeInv  BY <1>2, LifeStep, PTL DEF Spec
<1>4. LifeInv /\ [Next]_vars => [Life!Next]_<<stages, results>>
  BY StepKept
<1>5. Spec => [][Life!Next]_<<stages, results>>
  BY <1>3, <1>4, PTL DEF Spec
<1> QED  BY <1>1, <1>5, PTL DEF Spec, TextKept, Life!Spec, stages
=============================================================================
