----------------------------- MODULE WachuneedProofs -----------------------------
(* Theorems about WachuneedRequests, for any listings, buyers, times, length, bounds   *)
(* and number of threads: which two requests must cross to break what the checks       *)
(* promise.                                                                            *)
EXTENDS WachuneedRequests, SequenceTheorems, TLAPS

AllStates == {"draft", "live", "reserved", "closed"}
Offers == [of : Listings, by : Buyers, at : Times \cup {NoTime}, state : RequestStates]
Asks == [op : {"ask"}, of : Listings, by : Buyers, at : Times \cup {NoTime}, saw : AllStates,
         checked : BOOLEAN]
AnswerJobs == [op : {"answer"}, of : Listings, id : Nat, to : Answers, saw : AllStates]
CancelJobs == [op : {"cancel"}, of : Listings, id : Nat]
MoveJobs == [op : {"move"}, of : Listings, to : {"live", "reserved", "closed"}]
Jobs == {Idle} \cup Asks \cup AnswerJobs \cup CancelJobs \cup MoveJobs

Typed ==
  /\ mode \in [Listings -> Modes]
  /\ listing \in [Listings -> AllStates]
  /\ requests \in Seq(Offers)
  /\ thread \in [Threads -> Jobs]
  /\ crossed \in [Listings -> SUBSET Clashes]

\* What a job has loaded or checked is still so, or another has crossed it.
AskUpToDate(j) ==
  j.checked =>
    /\ ~Bookable(j.of) => ~AskedBefore(j.of, j.by) \/ Crossed(j.of, {"ask"})
    /\ mode[j.of] = "booked" =>
         Free(j.of, j.at) \/ Crossed(j.of, {"ask"}) \/ Crossed(j.of, {"answer"})

AnswerUpToDate(j) ==
  /\ j.id \in Ids /\ requests[j.id].of = j.of
  /\ requests[j.id].state = "pending" \/ Crossed(j.of, {"answer"})
  /\ j.saw = "live" => listing[j.of] \in {"live", "reserved"} \/ Crossed(j.of, {"answer", "move"})

CancelUpToDate(j) ==
  /\ j.id \in Ids /\ requests[j.id].of = j.of
  /\ requests[j.id].state \in {"accepted", "cancelled"} \/ Crossed(j.of, {"answer"})

MoveUpToDate(j) ==
  \/ Place(j.to) > Place(listing[j.of])
  \/ Crossed(j.of, {"move"}) \/ Crossed(j.of, {"answer", "move"})

UpToDate(j) ==
  /\ j.op = "ask" => AskUpToDate(j)
  /\ j.op = "answer" => AnswerUpToDate(j)
  /\ j.op = "cancel" => CancelUpToDate(j)
  /\ j.op = "move" => MoveUpToDate(j)

ThreadsUpToDate == \A t \in Threads : UpToDate(thread[t])

\* Two jobs under way that may get in each other's way are known to have crossed.
AllMet ==
  \A t, u \in Threads :
    t # u /\ Meet(thread[t], thread[u]) /\ {thread[t].op, thread[u].op} \in Clashes
      => Crossed(thread[t].of, {thread[t].op, thread[u].op})

RequestsInv == Typed /\ ThreadsUpToDate /\ AllMet /\ OneWaiting /\ TimesHeldOnce

--------------------------------------------------------------------------------
(* Lemmas about states, times and jobs. *)

LEMMA Places ==
  /\ Place("draft") = 1 /\ Place("live") = 2 /\ Place("reserved") = 3 /\ Place("closed") = 4
BY DEF Place, ListingStates

LEMMA OverlapBothWays == \A x, y \in Times \cup {NoTime} : Overlap(x, y) <=> Overlap(y, x)
BY TimesAssumption DEF Overlap, NoTime

\* The kinds of job are told apart by op.
LEMMA JobKinds ==
  ASSUME NEW j \in Jobs
  PROVE  /\ j.op = "ask" => j \in Asks
         /\ j.op = "answer" => j \in AnswerJobs
         /\ j.op = "cancel" => j \in CancelJobs
         /\ j.op = "move" => j \in MoveJobs
         /\ j.op # "idle" => j # Idle /\ j.of \in Listings
         /\ j = Idle => j.op = "idle"
BY DEF Jobs, Idle, Asks, AnswerJobs, CancelJobs, MoveJobs

LEMMA InitRequests == Init => RequestsInv
<1> SUFFICES ASSUME Init PROVE RequestsInv
  OBVIOUS
<1>1. Typed
  BY DEF Init, Typed, AllStates, Jobs
<1>2. ThreadsUpToDate
  BY DEF Init, ThreadsUpToDate, UpToDate, Idle
<1>3. AllMet
  BY DEF Init, AllMet, Meet
<1>4. OneWaiting /\ TimesHeldOnce
  BY DEF Init, OneWaiting, WaitsOnce, TimesHeldOnce, HeldOnce, Ids
<1> QED
  BY <1>1, <1>2, <1>3, <1>4 DEF RequestsInv

\* Who is up to date stays so while nothing but what has crossed changes.
LEMMA StillUpToDate ==
  ASSUME NEW j, UpToDate(j), UNCHANGED <<mode, listing, requests>>,
         \A l, ops : Crossed(l, ops) => Crossed(l, ops)'
  PROVE  UpToDate(j)'
BY DEF UpToDate, AskUpToDate, AnswerUpToDate, CancelUpToDate, MoveUpToDate, Bookable,
       AskedBefore, Free, Ids

\* What two crossing requests have broken may stay broken.
LEMMA StillKept ==
  ASSUME OneWaiting, TimesHeldOnce, UNCHANGED <<mode, requests>>,
         \A l, ops : Crossed(l, ops) => Crossed(l, ops)'
  PROVE  OneWaiting' /\ TimesHeldOnce'
<1>1. OneWaiting'
  BY DEF OneWaiting, WaitsOnce, Bookable, Ids
<1>2. TimesHeldOnce'
  BY DEF TimesHeldOnce, HeldOnce, Ids
<1> QED
  BY <1>1, <1>2

\* A job that starts up to date keeps the invariant: what it crosses is remembered.
LEMMA StartKeeps ==
  ASSUME RequestsInv, NEW t \in Threads, NEW j \in Jobs, j.op # "idle", Starts(t, j),
         UpToDate(j), UNCHANGED <<mode, listing, requests>>
  PROVE  RequestsInv'
<1> DEFINE met == {ops \in Clashes :
                     \E u \in Threads : Meet(j, thread[u]) /\ ops = {j.op, thread[u].op}}
<1>0. Typed /\ j # Idle /\ j.of \in Listings
  BY JobKinds DEF RequestsInv
<1>1. crossed' = [crossed EXCEPT ![j.of] = crossed[j.of] \cup met]
  BY DEF Starts
<1>2. \A l, ops : Crossed(l, ops) => Crossed(l, ops)'
  <2> SUFFICES ASSUME NEW l, NEW ops, ops \in crossed[l] PROVE ops \in crossed'[l]
    BY DEF Crossed
  <2> QED
    BY <1>0, <1>1 DEF Typed
<1>3. thread' = [thread EXCEPT ![t] = j]
  BY DEF Starts, Does
<1>4. Typed'
  <2>1. met \in SUBSET Clashes
    OBVIOUS
  <2>2. crossed' \in [Listings -> SUBSET Clashes]
    BY <1>0, <1>1, <2>1 DEF Typed
  <2> QED
    BY <1>0, <1>3, <2>2 DEF Typed
<1>5. ThreadsUpToDate'
  <2> SUFFICES ASSUME NEW u \in Threads PROVE UpToDate(thread[u])'
    BY DEF ThreadsUpToDate
  <2>1. CASE u = t
    <3>1. thread'[u] = j
      BY <1>0, <1>3, <2>1 DEF Typed
    <3>2. UpToDate(j)'
      BY <1>2, StillUpToDate
    <3> QED
      BY <3>1, <3>2 DEF UpToDate, AskUpToDate, AnswerUpToDate, CancelUpToDate, MoveUpToDate
  <2>2. CASE u # t
    <3> DEFINE k == thread[u]
    <3>1. thread'[u] = k
      BY <1>0, <1>3, <2>2 DEF Typed
    <3>2. UpToDate(k)
      BY DEF RequestsInv, ThreadsUpToDate
    <3> HIDE DEF k
    <3>3. k' = k => UpToDate(k)'
      BY <1>2, <3>2, StillUpToDate
    <3> QED
      BY <3>1, <3>2, <1>2, StillUpToDate
         DEF k, UpToDate, AskUpToDate, AnswerUpToDate, CancelUpToDate, MoveUpToDate,
             Bookable, AskedBefore, Free, Ids
  <2> QED
    BY <2>1, <2>2
<1>6. AllMet'
  <2> SUFFICES ASSUME NEW u \in Threads, NEW v \in Threads, u # v,
                      Meet(thread'[u], thread'[v]), {thread'[u].op, thread'[v].op} \in Clashes
               PROVE  {thread'[u].op, thread'[v].op} \in crossed'[thread'[u].of]
    BY DEF AllMet, Meet, Crossed
  <2>1. \A w \in Threads : thread'[w] = IF w = t THEN j ELSE thread[w]
    BY <1>0, <1>3 DEF Typed
  <2>2. CASE u # t /\ v # t
    <3>1. Crossed(thread[u].of, {thread[u].op, thread[v].op})
      BY <2>1, <2>2 DEF RequestsInv, AllMet
    <3> QED
      BY <1>2, <2>1, <2>2, <3>1 DEF Crossed
  <2>3. CASE u = t /\ v # t
    <3>1. {j.op, thread[v].op} \in met
      BY <2>1, <2>3
    <3> QED
      BY <1>0, <1>1, <2>1, <2>3, <3>1 DEF Crossed, Typed
  <2>4. CASE u # t /\ v = t
    <3>1. Meet(j, thread[u]) /\ thread[u].of = j.of
      BY <2>1, <2>4 DEF Meet
    <3>2. {thread[u].op, j.op} = {j.op, thread[u].op}
      OBVIOUS
    <3>3. {j.op, thread[u].op} \in met
      BY <2>1, <2>4, <3>1, <3>2
    <3> QED
      BY <1>0, <1>1, <2>1, <2>4, <3>1, <3>2, <3>3 DEF Crossed, Typed
  <2> QED
    BY <2>2, <2>3, <2>4
<1>7. OneWaiting' /\ TimesHeldOnce'
  BY <1>2, StillKept DEF RequestsInv
<1> QED
  BY <1>4, <1>5, <1>6, <1>7 DEF RequestsInv

LEMMA LoadKeeps ==
  ASSUME RequestsInv, NEW t \in Threads, Load(t), UNCHANGED mode
  PROVE  RequestsInv'
<1> USE DEF RequestsInv
<1>1. ASSUME NEW b \in Buyers, NEW l \in Listings, LoadAsk(t, b, l)
      PROVE  RequestsInv'
  <2>1. PICK at \in IF Bookable(l) THEN Times ELSE {NoTime} :
          Starts(t, [op |-> "ask", of |-> l, by |-> b, at |-> at, saw |-> listing[l],
                     checked |-> FALSE])
    BY <1>1 DEF LoadAsk
  <2> DEFINE j == [op |-> "ask", of |-> l, by |-> b, at |-> at, saw |-> listing[l],
                   checked |-> FALSE]
  <2>2. j \in Asks /\ j.checked = FALSE /\ j.op = "ask"
    BY DEF Asks, Typed
  <2>3. UpToDate(j)
    BY <2>2 DEF UpToDate, AskUpToDate
  <2>4. UNCHANGED <<listing, requests>>
    BY <1>1 DEF LoadAsk
  <2> QED
    BY <2>1, <2>2, <2>3, <2>4, StartKeeps DEF Jobs
<1>2. ASSUME NEW i \in Ids, LoadCancel(t, i)
      PROVE  RequestsInv'
  <2> DEFINE j == [op |-> "cancel", of |-> requests[i].of, id |-> i]
  <2>1. requests[i] \in Offers
    BY DEF Typed, Ids
  <2>2. j \in CancelJobs /\ j.id = i /\ j.op = "cancel" /\ j.of = requests[i].of
    BY <2>1 DEF CancelJobs, Offers, Ids
  <2>3. UpToDate(j)
    BY <1>2, <2>2 DEF LoadCancel, Cancellable, UpToDate, CancelUpToDate
  <2> QED
    BY <1>2, <2>2, <2>3, StartKeeps DEF LoadCancel, Jobs
<1>3. ASSUME NEW i \in Ids, NEW answer \in Answers, LoadAnswer(t, i, answer)
      PROVE  RequestsInv'
  <2> DEFINE l == requests[i].of
             j == [op |-> "answer", of |-> l, id |-> i, to |-> answer, saw |-> listing[l]]
  <2>1. requests[i] \in Offers
    BY DEF Typed, Ids
  <2>2. listing[l] \in AllStates /\ l \in Listings
    BY <2>1 DEF Typed, Offers
  <2>3. /\ j \in AnswerJobs /\ j.id = i /\ j.of = l /\ j.saw = listing[l] /\ j.op = "answer"
    BY <2>2 DEF AnswerJobs, Ids
  <2>4. UpToDate(j)
    BY <1>3, <2>3 DEF LoadAnswer, Answerable, UpToDate, AnswerUpToDate
  <2>5. Starts(t, j) /\ UNCHANGED <<listing, requests>>
    BY <1>3 DEF LoadAnswer
  <2> QED
    BY <2>3, <2>4, <2>5, StartKeeps DEF Jobs
<1>4. ASSUME NEW l \in Listings, NEW s \in {"live", "reserved", "closed"}, LoadMove(t, l, s)
      PROVE  RequestsInv'
  <2> DEFINE j == [op |-> "move", of |-> l, to |-> s]
  <2>1. j \in MoveJobs /\ j.of = l /\ j.to = s /\ j.op = "move"
    BY DEF MoveJobs
  <2>2. UpToDate(j)
    BY <1>4, <2>1 DEF LoadMove, UpToDate, MoveUpToDate
  <2> QED
    BY <1>4, <2>1, <2>2, StartKeeps DEF LoadMove, Jobs
<1> QED
  BY <1>1, <1>2, <1>3, <1>4 DEF Load

--------------------------------------------------------------------------------
(* Writing. *)

\* A job that ends leaves the others as they are, and meets nobody.
LEMMA EndKeeps ==
  ASSUME Typed, AllMet, NEW t \in Threads, Ends(t)
  PROVE  /\ thread' \in [Threads -> Jobs] /\ crossed' = crossed /\ AllMet'
         /\ thread'[t] = Idle /\ \A u \in Threads \ {t} : thread'[u] = thread[u]
<1>1. /\ thread' \in [Threads -> Jobs] /\ crossed' = crossed
      /\ thread'[t] = Idle /\ \A u \in Threads \ {t} : thread'[u] = thread[u]
  BY DEF Ends, Does, Typed, Jobs
<1>2. AllMet'
  <2> SUFFICES ASSUME NEW u \in Threads, NEW v \in Threads, u # v,
                      Meet(thread'[u], thread'[v]), {thread'[u].op, thread'[v].op} \in Clashes
               PROVE  {thread'[u].op, thread'[v].op} \in crossed'[thread'[u].of]
    BY DEF AllMet, Meet, Crossed
  <2>1. u # t /\ v # t
    BY <1>1 DEF Meet
  <2>2. thread'[u] = thread[u] /\ thread'[v] = thread[v]
    BY <1>1, <2>1
  <2>3. Crossed(thread[u].of, {thread[u].op, thread[v].op})
    BY <2>2 DEF AllMet
  <2> QED
    BY <1>1, <2>2, <2>3 DEF Crossed
<1> QED
  BY <1>1, <1>2

\* Two jobs on one listing have crossed.
LEMMA TheyMet ==
  ASSUME RequestsInv, NEW t \in Threads, NEW u \in Threads, t # u,
         thread[t].op # "idle", thread[u].op # "idle", thread[t].of = thread[u].of,
         thread[t].op = "answer" /\ thread[u].op = "answer" => thread[t].id = thread[u].id,
         {thread[t].op, thread[u].op} \in Clashes
  PROVE  Crossed(thread[t].of, {thread[t].op, thread[u].op})
<1>1. thread[t] # Idle /\ thread[u] # Idle
  BY JobKinds DEF RequestsInv, Typed
<1>2. Meet(thread[t], thread[u])
  BY <1>1 DEF Meet
<1> QED
  BY <1>2 DEF RequestsInv, AllMet

\* A request that alone changed its state, to one answered or called off, holds no more
\* than it did, or its listing has been crossed by two answers.
LEMMA StateChangeKeeps ==
  ASSUME RequestsInv, NEW i \in Ids, NEW s \in RequestStates \ {"pending"},
         requests' = [requests EXCEPT ![i].state = s], UNCHANGED <<mode, crossed>>,
         s = "accepted" => requests[i].state = "pending" \/ Crossed(requests[i].of, {"answer"})
  PROVE  /\ requests' \in Seq(Offers) /\ Ids' = Ids
         /\ \A k \in Ids : /\ requests'[k].of = requests[k].of /\ requests'[k].by = requests[k].by
                           /\ requests'[k].at = requests[k].at
                           /\ requests'[k].state = IF k = i THEN s ELSE requests[k].state
         /\ OneWaiting' /\ TimesHeldOnce'
<1>1. i \in 1..Len(requests) /\ requests \in Seq(Offers)
  BY DEF RequestsInv, Typed, Ids
<1>2. requests' \in Seq(Offers) /\ Ids' = Ids
  <2> DEFINE r == [requests[i] EXCEPT !.state = s]
  <2>0. requests[i] \in Offers
    BY <1>1
  <2>1. r \in Offers
    BY <2>0 DEF Offers
  <2>2. requests' = [requests EXCEPT ![i] = r]
    OBVIOUS
  <2> HIDE DEF r
  <2> QED
    BY <1>1, <2>1, <2>2, ExceptSeq DEF Ids
<1>3. \A k \in Ids : /\ requests'[k].of = requests[k].of /\ requests'[k].by = requests[k].by
                     /\ requests'[k].at = requests[k].at
                     /\ requests'[k].state = IF k = i THEN s ELSE requests[k].state
  BY <1>1 DEF Ids, Offers
<1>4. OneWaiting'
  <2> SUFFICES ASSUME NEW l \in Listings, ~Bookable(l), ~Crossed(l, {"ask"})
               PROVE  WaitsOnce(l)'
    BY DEF OneWaiting, Bookable, Crossed
  <2>1. WaitsOnce(l)
    BY DEF RequestsInv, OneWaiting
  <2> QED
    BY <1>2, <1>3, <2>1 DEF WaitsOnce
<1>5. TimesHeldOnce'
  <2> SUFFICES ASSUME NEW l \in Listings, mode[l] = "booked",
                      ~Crossed(l, {"ask"}), ~Crossed(l, {"answer"})
               PROVE  HeldOnce(l)'
    BY DEF TimesHeldOnce, Crossed
  <2>1. HeldOnce(l)
    BY DEF RequestsInv, TimesHeldOnce
  <2>2. \A k \in Ids : requests'[k].of = l /\ requests'[k].state \in {"pending", "accepted"} =>
                         requests[k].of = l /\ requests[k].state \in {"pending", "accepted"}
    BY <1>3
  <2> QED
    BY <1>2, <1>3, <2>1, <2>2 DEF HeldOnce
<1> QED
  BY <1>2, <1>3, <1>4, <1>5

\* A checked job adds a request that the checks allow, unless its listing has been crossed.
LEMMA InsertKeeps ==
  ASSUME RequestsInv, NEW t \in Threads, InsertAsk(t), UNCHANGED mode
  PROVE  RequestsInv'
<1> DEFINE j == thread[t]
           r == [of |-> j.of, by |-> j.by, at |-> j.at, state |-> "pending"]
           n == Len(requests)
<1>1. j \in Asks /\ j.op = "ask" /\ AskUpToDate(j) /\ j.checked
  BY JobKinds DEF InsertAsk, RequestsInv, Typed, ThreadsUpToDate, UpToDate
<1>2. r \in Offers /\ r.of = j.of /\ r.by = j.by /\ r.at = j.at /\ r.state = "pending"
  BY <1>1 DEF Asks, Offers, RequestStates
<1>3. requests \in Seq(Offers) /\ n \in Nat
  BY DEF RequestsInv, Typed
<1>4. requests' = Append(requests, r)
  BY DEF InsertAsk
<1> HIDE DEF r, n
<1>5. /\ requests' \in Seq(Offers)
      /\ Ids = 1..n /\ Ids' = 1..(n + 1)
      /\ \A i \in Ids : requests'[i] = requests[i]
      /\ requests'[n + 1] = r
      /\ \A i \in Ids' : requests'[i] \in Offers /\ (i \in Ids \/ i = n + 1)
  BY <1>2, <1>3, <1>4, AppendProperties DEF Ids, n
<1>6. /\ thread' \in [Threads -> Jobs] /\ crossed' = crossed /\ AllMet' /\ listing' = listing
      /\ thread'[t] = Idle /\ \A u \in Threads \ {t} : thread'[u] = thread[u]
  BY EndKeeps DEF InsertAsk, RequestsInv
<1>7. Typed'
  BY <1>5, <1>6 DEF RequestsInv, Typed
<1>8. ThreadsUpToDate'
  <2> SUFFICES ASSUME NEW u \in Threads PROVE UpToDate(thread[u])'
    BY DEF ThreadsUpToDate
  <2>1. CASE u = t
    BY <1>6, <2>1 DEF UpToDate, Idle
  <2>2. CASE u # t
    <3> DEFINE k == thread[u]
    <3>1. thread'[u] = k /\ UpToDate(k) /\ k \in Jobs
      BY <1>6, <2>2 DEF RequestsInv, ThreadsUpToDate, Typed
    <3>2. k.op = "ask" => AskUpToDate(k)'
      <4> SUFFICES ASSUME k.op = "ask", k.checked, ~Crossed(k.of, {"ask"}) PROVE AskUpToDate(k)'
        BY <1>6, <3>1 DEF AskUpToDate, Crossed, k
      <4>1. k.of # j.of
        <5> SUFFICES ASSUME k.of = j.of PROVE FALSE
          OBVIOUS
        <5>1. {thread[u].op, thread[t].op} = {"ask"}
          BY <1>1
        <5>2. {"ask"} \in Clashes
          BY DEF Clashes
        <5>3. Crossed(k.of, {"ask"})
          BY <1>1, <2>2, <5>1, <5>2, TheyMet
        <5> QED
          BY <5>3
      <4>2. AskUpToDate(k)
        BY <3>1 DEF UpToDate
      <4>3. AskedBefore(k.of, k.by)' => AskedBefore(k.of, k.by)
        BY <1>2, <1>5, <3>1, <4>1 DEF AskedBefore
      <4>4. mode[k.of] = "booked" /\ Free(k.of, k.at) => Free(k.of, k.at)'
        BY <1>2, <1>5, <3>1, <4>1 DEF Free
      <4> QED
        BY <1>6, <3>1, <4>2, <4>3, <4>4 DEF AskUpToDate, Bookable, Crossed
    <3>3. k.op = "answer" => AnswerUpToDate(k)'
      <4> SUFFICES ASSUME k.op = "answer" PROVE AnswerUpToDate(k)'
        OBVIOUS
      <4>1. AnswerUpToDate(k)
        BY <3>1 DEF UpToDate
      <4>2. k.id \in Ids /\ k.id \in Ids' /\ requests'[k.id] = requests[k.id]
        BY <1>3, <1>5, <4>1 DEF AnswerUpToDate
      <4> QED
        BY <1>6, <3>1, <4>1, <4>2 DEF AnswerUpToDate, Crossed
    <3>4. k.op = "cancel" => CancelUpToDate(k)'
      <4> SUFFICES ASSUME k.op = "cancel" PROVE CancelUpToDate(k)'
        OBVIOUS
      <4>1. CancelUpToDate(k)
        BY <3>1 DEF UpToDate
      <4>2. k.id \in Ids /\ k.id \in Ids' /\ requests'[k.id] = requests[k.id]
        BY <1>3, <1>5, <4>1 DEF CancelUpToDate
      <4> QED
        BY <1>6, <3>1, <4>1, <4>2 DEF CancelUpToDate, Crossed
    <3>5. k.op = "move" => MoveUpToDate(k)'
      BY <1>6, <3>1 DEF UpToDate, MoveUpToDate, Crossed
    <3> QED
      BY <3>1, <3>2, <3>3, <3>4, <3>5 DEF UpToDate
  <2> QED
    BY <2>1, <2>2
<1>9. OneWaiting'
  <2> SUFFICES ASSUME NEW l \in Listings, ~Bookable(l), ~Crossed(l, {"ask"}),
                      NEW i \in Ids', NEW k \in Ids', i # k,
                      requests'[i].state = "pending", requests'[k].state = "pending",
                      requests'[i].of = l, requests'[k].of = l, requests'[i].by = requests'[k].by
               PROVE  FALSE
    BY <1>6 DEF OneWaiting, WaitsOnce, Bookable, Crossed
  <2>1. CASE i \in Ids /\ k \in Ids
    BY <1>5, <2>1 DEF RequestsInv, OneWaiting, WaitsOnce
  <2>2. CASE i = n + 1 /\ k \in Ids
    BY <1>1, <1>2, <1>5, <2>2 DEF AskUpToDate, AskedBefore
  <2>3. CASE k = n + 1 /\ i \in Ids
    BY <1>1, <1>2, <1>5, <2>3 DEF AskUpToDate, AskedBefore
  <2> QED
    BY <1>3, <1>5, <2>1, <2>2, <2>3
<1>10. TimesHeldOnce'
  <2> SUFFICES ASSUME NEW l \in Listings, mode[l] = "booked", ~Crossed(l, {"ask"}),
                      ~Crossed(l, {"answer"}), NEW i \in Ids', NEW k \in Ids', i # k,
                      requests'[i].of = l, requests'[k].of = l,
                      requests'[i].state \in HELD_STATES, requests'[k].state \in HELD_STATES,
                      Overlap(requests'[i].at, requests'[k].at)
               PROVE  FALSE
    BY <1>6 DEF TimesHeldOnce, HeldOnce, HELD_STATES, Crossed
  <2>0. \A m \in Ids' : requests'[m].at \in Times \cup {NoTime}
    BY <1>5 DEF Offers
  <2>1. CASE i \in Ids /\ k \in Ids
    BY <1>5, <2>1 DEF RequestsInv, TimesHeldOnce, HeldOnce, HELD_STATES
  <2>2. CASE i = n + 1 /\ k \in Ids
    BY <1>1, <1>2, <1>5, <2>2 DEF AskUpToDate, Free
  <2>3. CASE k = n + 1 /\ i \in Ids
    BY <1>1, <1>2, <1>5, <2>0, <2>3, OverlapBothWays DEF AskUpToDate, Free
  <2> QED
    BY <1>3, <1>5, <2>1, <2>2, <2>3
<1> QED
  BY <1>6, <1>7, <1>8, <1>9, <1>10 DEF RequestsInv

\* An answer or a calling off is written: the other jobs stay up to date, or have crossed it.
LEMMA StateWriteKeeps ==
  ASSUME RequestsInv, NEW t \in Threads, Ends(t), UNCHANGED mode,
         thread[t].op \in {"answer", "cancel"}, NEW s \in RequestStates \ {"pending"},
         requests' = [requests EXCEPT ![thread[t].id].state = s],
         thread[t].op = "cancel" => s = "cancelled",
         \/ listing' = listing
         \/ thread[t].op = "answer" /\ listing' = [listing EXCEPT ![thread[t].of] = "reserved"]
  PROVE  RequestsInv'
<1> DEFINE j == thread[t]
           i == thread[t].id
<1>1. /\ i \in Ids /\ requests[i].of = j.of /\ j.of \in Listings
      /\ j.op = "answer" => requests[i].state = "pending" \/ Crossed(j.of, {"answer"})
      /\ j.op = "cancel" =>
           requests[i].state \in {"accepted", "cancelled"} \/ Crossed(j.of, {"answer"})
  BY JobKinds DEF RequestsInv, Typed, ThreadsUpToDate, UpToDate, AnswerUpToDate, CancelUpToDate
<1>2. s = "accepted" => requests[i].state = "pending" \/ Crossed(requests[i].of, {"answer"})
  BY <1>1
<1>3. /\ thread' \in [Threads -> Jobs] /\ crossed' = crossed /\ AllMet'
      /\ thread'[t] = Idle /\ \A u \in Threads \ {t} : thread'[u] = thread[u]
  BY EndKeeps DEF RequestsInv
<1>4. /\ requests' \in Seq(Offers) /\ Ids' = Ids
      /\ \A k \in Ids : /\ requests'[k].of = requests[k].of /\ requests'[k].by = requests[k].by
                        /\ requests'[k].at = requests[k].at
                        /\ requests'[k].state = IF k = i THEN s ELSE requests[k].state
      /\ OneWaiting' /\ TimesHeldOnce'
  <2>1. requests' = [requests EXCEPT ![i].state = s]
    OBVIOUS
  <2> HIDE DEF i
  <2> QED
    BY <1>1, <1>2, <1>3, <2>1, StateChangeKeeps
<1>5. \A l \in Listings : \/ listing'[l] = listing[l]
                          \/ j.op = "answer" /\ l = j.of /\ listing'[l] = "reserved"
  BY <1>1 DEF RequestsInv, Typed
<1>6. Typed'
  <2>1. listing' \in [Listings -> AllStates]
    BY <1>1 DEF RequestsInv, Typed, AllStates
  <2> QED
    BY <1>3, <1>4, <2>1 DEF RequestsInv, Typed
<1>7. ThreadsUpToDate'
  <2> SUFFICES ASSUME NEW u \in Threads PROVE UpToDate(thread[u])'
    BY DEF ThreadsUpToDate
  <2>1. CASE u = t
    BY <1>3, <2>1 DEF UpToDate, Idle
  <2>2. CASE u # t
    <3> DEFINE k == thread[u]
    <3>1. thread'[u] = k /\ UpToDate(k) /\ k \in Jobs /\ (k.op # "idle" => k.of \in Listings)
      BY <1>3, <2>2, JobKinds DEF RequestsInv, ThreadsUpToDate, Typed
    <3>2. k.op = "ask" => AskUpToDate(k)'
      <4> SUFFICES ASSUME k.op = "ask" PROVE AskUpToDate(k)'
        OBVIOUS
      <4>1. AskUpToDate(k)
        BY <3>1 DEF UpToDate
      <4>2. AskedBefore(k.of, k.by)' => AskedBefore(k.of, k.by)
        BY <1>4, <3>1 DEF AskedBefore
      <4>3. mode[k.of] = "booked" /\ Free(k.of, k.at) =>
              Free(k.of, k.at)' \/ Crossed(k.of, {"answer"})
        BY <1>1, <1>2, <1>4, <3>1 DEF Free, HELD_STATES
      <4> QED
        BY <1>3, <3>1, <4>1, <4>2, <4>3 DEF AskUpToDate, Bookable, Crossed
    <3>3. k.op = "answer" => AnswerUpToDate(k)'
      <4> SUFFICES ASSUME k.op = "answer" PROVE AnswerUpToDate(k)'
        OBVIOUS
      <4>1. AnswerUpToDate(k)
        BY <3>1 DEF UpToDate
      <4>2. k.id = i => Crossed(k.of, {"answer"})
        <5> SUFFICES ASSUME k.id = i PROVE Crossed(k.of, {"answer"})
          OBVIOUS
        <5>1. k.of = j.of
          BY <1>1, <4>1 DEF AnswerUpToDate
        <5>2. CASE j.op = "answer"
          <6>1. {thread[t].op, thread[u].op} = {"answer"} /\ {"answer"} \in Clashes
            BY <5>2 DEF Clashes
          <6> QED
            BY <2>2, <5>1, <5>2, <6>1, TheyMet
        <5>3. CASE j.op = "cancel"
          BY <1>1, <4>1, <5>1, <5>3 DEF AnswerUpToDate
        <5> QED
          BY <5>2, <5>3
      <4>3. requests'[k.id].of = k.of /\ k.id \in Ids'
        BY <1>4, <4>1 DEF AnswerUpToDate
      <4>4. requests'[k.id].state = "pending" \/ Crossed(k.of, {"answer"})
        BY <1>4, <4>1, <4>2 DEF AnswerUpToDate
      <4>5. k.saw = "live" =>
              listing'[k.of] \in {"live", "reserved"} \/ Crossed(k.of, {"answer", "move"})
        BY <1>5, <3>1, <4>1 DEF AnswerUpToDate
      <4> QED
        BY <1>3, <3>1, <4>3, <4>4, <4>5 DEF AnswerUpToDate, Crossed
    <3>4. k.op = "cancel" => CancelUpToDate(k)'
      <4> SUFFICES ASSUME k.op = "cancel" PROVE CancelUpToDate(k)'
        OBVIOUS
      <4>1. CancelUpToDate(k)
        BY <3>1 DEF UpToDate
      <4>2. k.id = i => s = "cancelled" \/ Crossed(k.of, {"answer"})
        BY <1>1, <4>1 DEF CancelUpToDate
      <4>3. requests'[k.id].of = k.of /\ k.id \in Ids'
        BY <1>4, <4>1 DEF CancelUpToDate
      <4>4. requests'[k.id].state \in {"accepted", "cancelled"} \/ Crossed(k.of, {"answer"})
        BY <1>4, <4>1, <4>2 DEF CancelUpToDate
      <4> QED
        BY <1>3, <3>1, <4>3, <4>4 DEF CancelUpToDate, Crossed
    <3>5. k.op = "move" => MoveUpToDate(k)'
      <4> SUFFICES ASSUME k.op = "move" PROVE MoveUpToDate(k)'
        OBVIOUS
      <4>1. MoveUpToDate(k)
        BY <3>1 DEF UpToDate
      <4>2. listing'[k.of] = listing[k.of] \/ Crossed(k.of, {"answer", "move"})
        <5> SUFFICES ASSUME j.op = "answer", k.of = j.of PROVE Crossed(k.of, {"answer", "move"})
          BY <1>5, <3>1
        <5>1. {thread[t].op, thread[u].op} = {"answer", "move"} /\ {"answer", "move"} \in Clashes
          BY DEF Clashes
        <5> QED
          BY <2>2, <5>1, TheyMet
      <4> QED
        BY <1>3, <3>1, <4>1, <4>2 DEF MoveUpToDate, Crossed
    <3> QED
      BY <3>1, <3>2, <3>3, <3>4, <3>5 DEF UpToDate
  <2> QED
    BY <2>1, <2>2
<1> QED
  BY <1>3, <1>4, <1>6, <1>7 DEF RequestsInv

\* The listing is moved on: the other jobs stay up to date, or have crossed it.
LEMMA MoveKeeps ==
  ASSUME RequestsInv, NEW t \in Threads, WriteMove(t), UNCHANGED mode
  PROVE  RequestsInv'
<1> DEFINE j == thread[t]
<1>1. j.op = "move" /\ j \in MoveJobs /\ j.of \in Listings
  BY JobKinds DEF WriteMove, RequestsInv, Typed, MoveJobs
<1>2. /\ thread' \in [Threads -> Jobs] /\ crossed' = crossed /\ AllMet' /\ requests' = requests
      /\ thread'[t] = Idle /\ \A u \in Threads \ {t} : thread'[u] = thread[u]
  BY EndKeeps DEF WriteMove, RequestsInv
<1>3. \A l \in Listings : l # j.of => listing'[l] = listing[l]
  BY <1>1 DEF WriteMove, RequestsInv, Typed
<1>4. Typed'
  <2>1. listing' \in [Listings -> AllStates]
    BY <1>1 DEF WriteMove, MoveJobs, RequestsInv, Typed, AllStates
  <2> QED
    BY <1>2, <2>1 DEF RequestsInv, Typed
<1>5. ThreadsUpToDate'
  <2> SUFFICES ASSUME NEW u \in Threads PROVE UpToDate(thread[u])'
    BY DEF ThreadsUpToDate
  <2>1. CASE u = t
    BY <1>2, <2>1 DEF UpToDate, Idle
  <2>2. CASE u # t
    <3> DEFINE k == thread[u]
    <3>1. thread'[u] = k /\ UpToDate(k) /\ k \in Jobs /\ (k.op # "idle" => k.of \in Listings)
      BY <1>2, <2>2, JobKinds DEF RequestsInv, ThreadsUpToDate, Typed
    <3>2. k.op \in {"answer", "move"} /\ k.of = j.of => Crossed(k.of, {k.op, "move"})
      <4> SUFFICES ASSUME k.op \in {"answer", "move"}, k.of = j.of
                   PROVE  Crossed(k.of, {k.op, "move"})
        OBVIOUS
      <4>1. {k.op, "move"} \in Clashes
        BY DEF Clashes
      <4>2. {thread[u].op, thread[t].op} = {k.op, "move"}
        BY <1>1
      <4> QED
        BY <1>1, <2>2, <4>1, <4>2, TheyMet
    <3>3. k.op = "ask" => AskUpToDate(k)'
      BY <1>2, <3>1
         DEF UpToDate, AskUpToDate, AskedBefore, Free, Ids, Bookable, Crossed
    <3>4. k.op = "answer" => AnswerUpToDate(k)'
      <4> SUFFICES ASSUME k.op = "answer" PROVE AnswerUpToDate(k)'
        OBVIOUS
      <4>1. AnswerUpToDate(k)
        BY <3>1 DEF UpToDate
      <4>2. listing'[k.of] = listing[k.of] \/ Crossed(k.of, {"answer", "move"})
        BY <1>3, <3>1, <3>2
      <4> QED
        BY <1>2, <3>1, <4>1, <4>2 DEF AnswerUpToDate, Ids, Crossed
    <3>5. k.op = "cancel" => CancelUpToDate(k)'
      BY <1>2, <3>1 DEF UpToDate, CancelUpToDate, Ids, Crossed
    <3>6. k.op = "move" => MoveUpToDate(k)'
      <4> SUFFICES ASSUME k.op = "move" PROVE MoveUpToDate(k)'
        OBVIOUS
      <4>1. MoveUpToDate(k)
        BY <3>1 DEF UpToDate
      <4>2. {k.op, "move"} = {"move"}
        OBVIOUS
      <4>3. listing'[k.of] = listing[k.of] \/ Crossed(k.of, {"move"})
        BY <1>3, <3>1, <3>2, <4>2
      <4> QED
        BY <1>2, <3>1, <4>1, <4>3 DEF MoveUpToDate, Crossed
    <3> QED
      BY <3>1, <3>3, <3>4, <3>5, <3>6 DEF UpToDate
  <2> QED
    BY <2>1, <2>2
<1>6. OneWaiting' /\ TimesHeldOnce'
  BY <1>2, StillKept DEF RequestsInv, Crossed
<1> QED
  BY <1>2, <1>4, <1>5, <1>6 DEF RequestsInv

\* A check that passes: what it found is so.
LEMMA CheckKeeps ==
  ASSUME RequestsInv, NEW t \in Threads, CheckAsk(t), UNCHANGED mode
  PROVE  RequestsInv'
<1> DEFINE j == thread[t]
           new == [j EXCEPT !.checked = TRUE]
<1>1. j \in Asks /\ UNCHANGED <<mode, listing, requests, crossed>>
  BY JobKinds DEF CheckAsk, Ends, RequestsInv, Typed
<1>2. /\ new \in Asks /\ new.op = "ask" /\ j.op = "ask"
      /\ new.of = j.of /\ new.at = j.at /\ new.by = j.by
  BY <1>1 DEF Asks
<1>3. CASE Ends(t)
  <2>1. Typed' /\ AllMet'
    BY <1>1, <1>3, EndKeeps DEF RequestsInv, Typed
  <2>2. ThreadsUpToDate'
    <3> SUFFICES ASSUME NEW u \in Threads PROVE UpToDate(thread[u])'
      BY DEF ThreadsUpToDate
    <3>1. CASE u = t
      BY <1>3, <3>1, EndKeeps DEF RequestsInv, UpToDate, Idle
    <3>2. CASE u # t
      <4>1. thread'[u] = thread[u] /\ UpToDate(thread[u])
        BY <1>3, <3>2, EndKeeps DEF RequestsInv, ThreadsUpToDate
      <4> QED
        BY <1>1, <4>1 DEF UpToDate, AskUpToDate, AnswerUpToDate, CancelUpToDate, MoveUpToDate,
                          Bookable, AskedBefore, Free, Ids, Crossed
    <3> QED
      BY <3>1, <3>2
  <2> QED
    BY <1>1, <2>1, <2>2, StillKept DEF RequestsInv, Crossed
<1>4. CASE MayAsk(j) /\ Does(t, new)
  <2>1. thread' = [thread EXCEPT ![t] = new] /\ new \in Jobs
    BY <1>2, <1>4 DEF Does, Jobs
  <2> HIDE DEF new
  <2>2. \A u \in Threads : thread'[u] = IF u = t THEN new ELSE thread[u]
    BY <2>1 DEF RequestsInv, Typed
  <2>3. Typed'
    BY <1>1, <2>1 DEF RequestsInv, Typed
  <2>4. ThreadsUpToDate'
    <3> SUFFICES ASSUME NEW u \in Threads PROVE UpToDate(thread[u])'
      BY DEF ThreadsUpToDate
    <3>1. CASE u = t
      <4>1. AskUpToDate(new)
        BY <1>2, <1>4 DEF AskUpToDate, MayAsk, Bookable
      <4> QED
        BY <1>1, <1>2, <2>2, <3>1, <4>1 DEF UpToDate, AskUpToDate, Bookable, AskedBefore, Free,
                                            Ids, Crossed
    <3>2. CASE u # t
      <4>1. thread'[u] = thread[u] /\ UpToDate(thread[u])
        BY <2>2, <3>2 DEF RequestsInv, ThreadsUpToDate
      <4> QED
        BY <1>1, <4>1 DEF UpToDate, AskUpToDate, AnswerUpToDate, CancelUpToDate, MoveUpToDate,
                          Bookable, AskedBefore, Free, Ids, Crossed
    <3> QED
      BY <3>1, <3>2
  <2>5. AllMet'
    <3> SUFFICES ASSUME NEW u \in Threads, NEW v \in Threads, u # v,
                        Meet(thread'[u], thread'[v]), {thread'[u].op, thread'[v].op} \in Clashes
                 PROVE  {thread'[u].op, thread'[v].op} \in crossed'[thread'[u].of]
      BY DEF AllMet, Meet, Crossed
    <3>1. \A w \in Threads : thread'[w].op = thread[w].op
      BY <1>2, <2>2
    <3>2. \A w \in Threads : thread'[w].op # "ask" => thread'[w] = thread[w]
      BY <1>2, <2>2
    <3>3. \A w \in Threads : thread'[w].op # "idle" =>
            thread'[w].of = thread[w].of /\ thread[w].op # "idle"
      BY <1>2, <2>2
    <3>4. thread'[u].op # "idle" /\ thread'[v].op # "idle"
      BY <2>3, JobKinds DEF Meet, Clashes, Typed, Jobs, Idle, Asks, AnswerJobs, CancelJobs, MoveJobs
    <3>5. thread[u].of = thread[v].of
      BY <3>3, <3>4 DEF Meet
    <3>6. thread[u].op = "answer" /\ thread[v].op = "answer" => thread[u].id = thread[v].id
      BY <3>1, <3>2 DEF Meet
    <3> QED
      BY <1>1, <3>1, <3>3, <3>4, <3>5, <3>6, TheyMet DEF Crossed
  <2>6. OneWaiting' /\ TimesHeldOnce'
    BY <1>1, StillKept DEF RequestsInv, Crossed
  <2> QED
    BY <2>3, <2>4, <2>5, <2>6 DEF RequestsInv
<1> QED
  BY <1>3, <1>4 DEF CheckAsk

LEMMA WriteKeeps ==
  ASSUME RequestsInv, NEW t \in Threads, Write(t), UNCHANGED mode
  PROVE  RequestsInv'
<1> DEFINE j == thread[t]
<1>1. j \in Jobs
  BY DEF RequestsInv, Typed
<1>2. CASE WriteAnswer(t)
  <2>1. j.op = "answer" /\ j.to \in RequestStates \ {"pending"}
    BY <1>1, <1>2, JobKinds DEF WriteAnswer, AnswerJobs, Answers, RequestStates
  <2>2. /\ requests' = [requests EXCEPT ![j.id].state = j.to] /\ Ends(t)
        /\ listing' = listing \/ listing' = [listing EXCEPT ![j.of] = "reserved"]
    BY <1>2 DEF WriteAnswer
  <2> QED
    BY <2>1, <2>2, StateWriteKeeps
<1>3. CASE WriteCancel(t)
  <2>1. j.op = "cancel" /\ "cancelled" \in RequestStates \ {"pending"}
    BY <1>3 DEF WriteCancel, RequestStates
  <2>2. requests' = [requests EXCEPT ![j.id].state = "cancelled"] /\ Ends(t) /\ listing' = listing
    BY <1>3 DEF WriteCancel
  <2> QED
    BY <2>1, <2>2, StateWriteKeeps
<1> QED
  BY <1>2, <1>3, CheckKeeps, InsertKeeps, MoveKeeps DEF Write

LEMMA StepRequests == RequestsInv /\ [Next]_vars => RequestsInv'
<1> SUFFICES ASSUME RequestsInv, [Next]_vars PROVE RequestsInv'
  OBVIOUS
<1>1. CASE UNCHANGED vars
  BY <1>1 DEF vars, RequestsInv, Typed, ThreadsUpToDate, UpToDate, AskUpToDate, AnswerUpToDate,
              CancelUpToDate, MoveUpToDate, Bookable, AskedBefore, Free, Ids, Crossed, AllMet,
              Meet, OneWaiting, WaitsOnce, TimesHeldOnce, HeldOnce
<1>2. ASSUME NEW t \in Threads, Load(t), UNCHANGED mode PROVE RequestsInv'
  BY <1>2, LoadKeeps
<1>3. ASSUME NEW t \in Threads, Write(t), UNCHANGED mode PROVE RequestsInv'
  BY <1>3, WriteKeeps
<1> QED
  BY <1>1, <1>2, <1>3 DEF Next

LEMMA InvariantHolds == Spec => []RequestsInv
<1>1. RequestsInv /\ [Next]_vars => RequestsInv'
  BY StepRequests
<1> QED
  BY InitRequests, <1>1, PTL DEF Spec

--------------------------------------------------------------------------------
(* The theorems. *)

\* The check before the insert is enough unless two asks for one listing cross: until
\* then a buyer never waits twice on a listing that is not booked, however many requests
\* are answered, taken back and made meanwhile.
THEOREM NobodyWaitsTwice == Spec => []OneWaiting
BY InvariantHolds, PTL DEF RequestsInv

\* ... and unless two asks for it, or two answers to one request, cross, no two bookings
\* of posted times overlap, over any sequence and interleaving of bookings, answers and
\* cancellations and for any length of a booking.
THEOREM NoTimeHeldTwice == Spec => []TimesHeldOnce
BY InvariantHolds, PTL DEF RequestsInv

\* What a step does to the requests there are: an answer to one waiting, or calling off one
\* accepted, unless two answers to it have crossed.
LEMMA AnswerStep ==
  ASSUME RequestsInv, [Next]_vars, NEW i \in Ids, requests'[i].state # requests[i].state
  PROVE  RightlyAnswered(i) \/ Crossed(requests[i].of, {"answer"})
<1>1. requests \in Seq(Offers) /\ i \in 1..Len(requests) /\ requests[i] \in Offers
  BY DEF RequestsInv, Typed, Ids
<1>2. requests' # requests
  OBVIOUS
<1>3. PICK t \in Threads : InsertAsk(t) \/ WriteAnswer(t) \/ WriteCancel(t)
  BY <1>2 DEF Next, vars, Load, LoadAsk, LoadAnswer, LoadCancel, LoadMove, Write, CheckAsk,
              WriteMove
<1> DEFINE j == thread[t]
<1>4. j \in Jobs /\ UpToDate(j)
  BY DEF RequestsInv, Typed, ThreadsUpToDate
<1>5. CASE InsertAsk(t)
  BY <1>1, <1>5 DEF InsertAsk
<1>6. CASE WriteAnswer(t)
  <2>1. j \in AnswerJobs /\ AnswerUpToDate(j) /\ j.to \in Answers
    BY <1>4, <1>6, JobKinds DEF WriteAnswer, UpToDate, AnswerJobs
  <2>2. requests' = [requests EXCEPT ![j.id].state = j.to]
    BY <1>6 DEF WriteAnswer
  <2>3. i = j.id /\ requests'[i].state = j.to
    BY <1>1, <2>2 DEF Offers
  <2> QED
    BY <2>1, <2>3 DEF AnswerUpToDate, RightlyAnswered
<1>7. CASE WriteCancel(t)
  <2>1. j \in CancelJobs /\ CancelUpToDate(j)
    BY <1>4, <1>7, JobKinds DEF WriteCancel, UpToDate
  <2>2. requests' = [requests EXCEPT ![j.id].state = "cancelled"]
    BY <1>7 DEF WriteCancel
  <2>3. i = j.id /\ requests'[i].state = "cancelled"
    BY <1>1, <2>2 DEF Offers
  <2> QED
    BY <2>1, <2>3 DEF CancelUpToDate, RightlyAnswered
<1> QED
  BY <1>3, <1>5, <1>6, <1>7

\* A request is answered once unless two answers to it cross, whatever else interleaves.
THEOREM NoSecondAnswer == Spec => AnsweredOnce
<1>1. RequestsInv /\ [Next]_vars =>
        [\A i \in Ids :
           requests'[i].state # requests[i].state =>
             RightlyAnswered(i) \/ Crossed(requests[i].of, {"answer"})]_vars
  BY AnswerStep
<1> QED
  BY InvariantHolds, <1>1, PTL DEF Spec, AnsweredOnce

\* What a step does to a listing: it is reserved, having been live, or moved on, unless a
\* move has crossed.
LEMMA MoveStep ==
  ASSUME RequestsInv, [Next]_vars, NEW l \in Listings
  PROVE  \/ Place(listing'[l]) >= Place(listing[l])
         \/ Crossed(l, {"move"}) \/ Crossed(l, {"answer", "move"})
<1>1. listing[l] \in AllStates /\ Place(listing[l]) \in 1..4
  BY Places DEF RequestsInv, Typed, AllStates
<1>2. CASE listing'[l] = listing[l]
  BY <1>1, <1>2
<1>3. CASE listing'[l] # listing[l]
  <2>1. PICK t \in Threads : WriteAnswer(t) \/ WriteMove(t)
    BY <1>3 DEF Next, vars, Load, LoadAsk, LoadAnswer, LoadCancel, LoadMove, Write, CheckAsk,
                InsertAsk, WriteCancel
  <2> DEFINE j == thread[t]
  <2>2. j \in Jobs /\ UpToDate(j)
    BY DEF RequestsInv, Typed, ThreadsUpToDate
  <2>3. CASE WriteAnswer(t)
    <3>1. j \in AnswerJobs /\ AnswerUpToDate(j)
      BY <2>2, <2>3, JobKinds DEF WriteAnswer, UpToDate
    <3>2. j.saw = "live" /\ listing' = [listing EXCEPT ![j.of] = "reserved"]
      BY <1>3, <2>3 DEF WriteAnswer, Reserves
    <3>3. l = j.of /\ listing'[l] = "reserved"
      BY <1>3, <3>2 DEF RequestsInv, Typed
    <3>4. listing[l] \in {"live", "reserved"} \/ Crossed(l, {"answer", "move"})
      BY <3>1, <3>2, <3>3 DEF AnswerUpToDate
    <3> QED
      BY <3>3, <3>4, Places
  <2>4. CASE WriteMove(t)
    <3>1. j \in MoveJobs /\ MoveUpToDate(j) /\ Place(j.to) \in 1..4
      BY <2>2, <2>4, JobKinds, Places DEF WriteMove, UpToDate, MoveJobs
    <3>2. listing' = [listing EXCEPT ![j.of] = j.to]
      BY <2>4 DEF WriteMove
    <3>3. l = j.of /\ listing'[l] = j.to
      BY <1>3, <3>2 DEF RequestsInv, Typed
    <3> HIDE DEF j
    <3> QED
      BY <1>1, <3>1, <3>3 DEF MoveUpToDate
  <2> QED
    BY <2>1, <2>3, <2>4
<1> QED
  BY <1>2, <1>3

\* A listing goes from draft to live to reserved to closed and never back, unless a move
\* crosses another or an answer; answers that cross each other do not matter.
THEOREM NoListingMovesBack == Spec => ListingMovesForward
<1>1. RequestsInv /\ [Next]_vars =>
        [\A l \in Listings :
           \/ Place(listing'[l]) >= Place(listing[l])
           \/ Crossed(l, {"move"}) \/ Crossed(l, {"answer", "move"})]_vars
  BY MoveStep
<1> QED
  BY InvariantHolds, <1>1, PTL DEF Spec, ListingMovesForward
================================================================================
