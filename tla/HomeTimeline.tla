------------------------------ MODULE HomeTimeline ------------------------------
(***************************************************************************)
(* The home timeline of the web client: the list of statuses it keeps      *)
(* (reducers/timelines.js), the requests that expand it                    *)
(* (actions/timelines.js), and the stream that adds to it, with its        *)
(* fallback of polling (actions/streaming.js, stream.js).                  *)
(*                                                                         *)
(* A Gap in the list stands for statuses the client knows it may lack.     *)
(* Statuses are numbered as they are published.  The server's feed and its *)
(* end of the stream are as the client sees them.  Feeds being             *)
(* regenerated, suggestions, tuned-out korners, and other timelines with   *)
(* their pending items, are left out.                                      *)
(***************************************************************************)
EXTENDS Integers, Sequences, FiniteSets, SequencesExt

CONSTANTS
  MaxStatus,  \* bound: statuses published
  MaxDeleted, \* bound: statuses deleted
  MaxDrops,   \* bound: times the stream is lost, or its reconnecting fails
  Page,       \* statuses to an answer (20)
  Full, Kept, \* a longer list than Full (40) is cut to Kept (20) at the top
  Pending,    \* the account has new posts wait in other timelines (usePendingItems)
  Loops,      \* bound: polling loops
  Gap, None

ASSUME HomeTimelineAssumption ==
  /\ {MaxStatus, MaxDeleted, MaxDrops, Page, Full, Kept} \subseteq Nat
  /\ Page > 0 /\ Kept > 0 /\ Kept <= Full
  /\ Pending \in BOOLEAN /\ 0 \notin Loops /\ Gap \notin Nat

VARIABLES
  published, feed, \* how many statuses there were, and those the feed has
  live,            \* the server sends the feed's changes
  wire,            \* what it sent
  items, hasMore, top, online, \* the timeline: top is whether it is scrolled there
  call,            \* the request under way (isLoading)
  loops, pollingId,\* the polling loops, and the last timer that was set (0 is null)
  drops,
  slips            \* what has gone by unseen, see OtherHolesMarked

server == <<published, feed, live, wire>>
timeline == <<items, hasMore, top, online>>
polling == <<loops, pollingId>>
vars == <<server, timeline, call, polling, drops, slips>>

Init ==
  /\ published = 0 /\ feed = {} /\ live = FALSE /\ wire = <<>>
  /\ items = <<>> /\ hasMore = TRUE /\ top = TRUE /\ online = FALSE
  /\ call = None
  /\ loops = [l \in Loops |-> "none"] /\ pollingId = 0
  /\ drops = 0 /\ slips = {}

--------------------------------------------------------------------------------
(* The list. *)

Marked(list) == IF list # <<>> /\ Head(list) # Gap THEN <<Gap>> \o list ELSE list

Ids == 1..MaxStatus

\* Statuses as new as id, and older ones.
From(id) == id..MaxStatus
Before(id) == 1..(id - 1)

\* The list without what is not in set.
Only(list, set) ==
  LET upto[n \in 0..Len(list)] ==
        IF n = 0 THEN <<>>
        ELSE IF list[n] \in set THEN Append(upto[n - 1], list[n]) ELSE upto[n - 1]
  IN  upto[Len(list)]

\* The last place of the list, up to n, with a status of set; 0 when there is none.
LastPlace(list, n, set) ==
  LET at == {i \in 1..n : list[i] \in set}
  IN  IF at = {} THEN 0 ELSE Max(at)

\* Altered (for a NothingTwice mutant): what is in the list already is not left out.
ExpandedAgain(list, ids) ==
  LET last == LastPlace(list, Len(list), From(Last(ids)))
      first == LastPlace(list, last, From(Head(ids) + 1))
      older == Only(SubSeq(list, first + 1, last), Before(Last(ids)))
  IN  SubSeq(list, 1, first) \o ids \o older \o SubSeq(list, last + 1, Len(list))

\* expandNormalizedTimeline: where the statuses ids, newest first, go in the list, and what
\* they replace there.
Expanded(list, ids) ==
  LET last == LastPlace(list, Len(list), From(Last(ids)))
      first == LastPlace(list, last, From(Head(ids) + 1))
      before == SubSeq(list, 1, first)
      after == SubSeq(list, last + 1, Len(list))
      older == Only(SubSeq(list, first + 1, last), Before(Last(ids)))
      inserted == Only(ids \o older, Ids \ (ToSet(before) \cup ToSet(after)))
  IN  before \o inserted \o after

\* Right above a status, they would be.
Lands(list, ids) ==
  LET last == LastPlace(list, Len(list), From(Last(ids)))
  IN  \/ last < Len(list) /\ list[last + 1] # Gap
      \/ LastPlace(list, last, Before(Last(ids))) # 0

\* TIMELINE_UPDATE
Update(id) ==
  /\ LET new == id \notin ToSet(items)
         cut == new /\ top /\ Len(items) > Full
     IN  /\ items' = IF new THEN <<id>> \o (IF cut THEN SubSeq(items, 1, Kept) ELSE items) ELSE items
         /\ slips' = slips \cup (IF cut /\ call # None THEN {"trim"} ELSE {})
                          \cup (IF new /\ ToSet(items') \cap From(id + 1) # {} THEN {"order"} ELSE {})
  /\ UNCHANGED <<hasMore, top, online>>

--------------------------------------------------------------------------------
(* Requests. *)

\* expandTimeline, when nothing is loading: older than max, or newer than the head.
Request(list, max, fill, loop) ==
  [since |-> IF max = None /\ list # <<>> /\ Head(list) # Gap THEN Head(list) ELSE None,
   max |-> max, fill |-> fill, loop |-> loop, answer |-> None, cut |-> FALSE]

\* What is asked for, newest first.
Wanted(c) == {s \in feed : (c.since # None => s > c.since) /\ (c.max # None => s < c.max)}

\* They are the newest of set, newest first.
NewestFirst(ids, set) ==
  /\ \A i, j \in DOMAIN ids : i < j => ids[i] > ids[j]
  /\ \A s \in set \ ToSet(ids) : \A i \in DOMAIN ids : s < ids[i]

\* The home timeline is opened.
Visit ==
  /\ call = None
  /\ call' = Request(items, None, FALSE, 0)
  /\ UNCHANGED <<server, timeline, polling, drops, slips>>

\* A gap is clicked.
LoadGap(i) ==
  /\ call = None
  /\ items[i] = Gap
  /\ call' = Request(items, IF i > 1 /\ items[i - 1] # Gap THEN items[i - 1] ELSE None, FALSE, 0)
  /\ UNCHANGED <<server, timeline, polling, drops, slips>>

\* The end of the list is scrolled into view.
LoadOlder ==
  /\ call = None /\ hasMore /\ items # <<>>
  /\ call' = Request(items, IF Last(items) = Gap THEN None ELSE Last(items), FALSE, 0)
  /\ UNCHANGED <<server, timeline, polling, drops, slips>>

\* HomeController#show: the newest of them.
Answer ==
  /\ call # None /\ call.answer = None
  /\ LET all == Wanted(call)
         n == IF Cardinality(all) < Page THEN Cardinality(all) ELSE Page
     IN  \E ids \in [1..n -> all] :
           /\ NewestFirst(ids, all)
           /\ call' = [call EXCEPT !.answer = ids, !.cut = ToSet(ids) # all]
  /\ UNCHANGED <<server, timeline, polling, drops, slips>>

\* A request is over: of a filling of gaps, the second is sent; a polling loop goes on.
Over(list) ==
  /\ call' = IF call.fill THEN Request(list, None, FALSE, 0) ELSE None
  /\ loops' = IF call.loop # 0 THEN [loops EXCEPT ![call.loop] = "rest"] ELSE loops
  /\ UNCHANGED pollingId

\* TIMELINE_EXPAND_SUCCESS
Arrive ==
  /\ call # None /\ call.answer # None
  /\ LET list == IF call.answer = <<>> THEN items ELSE Expanded(items, call.answer)
     IN  items' = list /\ Over(list)
  /\ hasMore' = (hasMore /\ (call.answer # <<>> \/ call.since # None))
  /\ slips' = IF call.cut /\ Lands(items, call.answer) THEN slips \cup {"page"} ELSE slips
  /\ UNCHANGED <<server, top, online, drops>>

\* TIMELINE_EXPAND_FAIL
Fail ==
  /\ call # None
  /\ Over(items)
  /\ UNCHANGED <<server, timeline, drops, slips>>

--------------------------------------------------------------------------------
(* The stream. *)

Answered == call # None /\ call.answer # None

Send(event, id) == wire' = IF live THEN Append(wire, [event |-> event, id |-> id]) ELSE wire

Publish ==
  /\ published < MaxStatus
  /\ published' = published + 1
  /\ feed' = feed \cup {published'}
  /\ Send("update", published')
  /\ slips' = IF ~live /\ (online \/ Answered) THEN slips \cup {"between"} ELSE slips
  /\ UNCHANGED <<live, timeline, call, polling, drops>>

Delete(s) ==
  /\ published - Cardinality(feed) < MaxDeleted
  /\ feed' = feed \ {s}
  /\ Send("delete", s)
  /\ UNCHANGED <<published, live, timeline, call, polling, drops, slips>>

\* onConnect, with the list that TIMELINE_CONNECT leaves: the last timer is cleared, and gaps
\* are filled: the newest are asked for, twice if there are two items or more.
Connected(list) ==
  /\ ~online
  /\ online' = TRUE
  /\ items' = list
  /\ loops' = [l \in Loops |-> IF l = pollingId /\ loops[l] = "timer" THEN "none" ELSE loops[l]]
  /\ pollingId' = 0
  /\ call' = IF call # None \/ list = <<>> THEN call ELSE Request(list, None, Len(list) > 1, 0)
  /\ UNCHANGED <<server, hasMore, top, drops, slips>>

\* Altered (for an OtherHolesMarked mutant): TIMELINE_CONNECT adds no gap.
ConnectUnmarked == Connected(items)

\* With usePendingItems, TIMELINE_CONNECT looks for the list among the pending items, which
\* the home timeline has none of.
Connect == Connected(IF Pending THEN items ELSE Marked(items))

\* The server has subscribed.
GoLive ==
  /\ online /\ ~live
  /\ live' = TRUE
  /\ UNCHANGED <<published, feed, wire, timeline, call, polling, drops, slips>>

\* onDisconnect, of an open stream or of one that fails to open: another loop is begun.
Disconnect ==
  /\ drops < MaxDrops
  /\ drops' = drops + 1
  /\ live' = FALSE /\ wire' = <<>>
  /\ online' = FALSE
  /\ items' = Marked(items)
  /\ \E l \in Loops :
       /\ loops[l] = "none"
       /\ loops' = [loops EXCEPT ![l] = "timer"]
       /\ pollingId' = l
  /\ slips' = IF wire # <<>> /\ Answered THEN slips \cup {"between"} ELSE slips
  /\ UNCHANGED <<published, feed, hasMore, top, call>>

\* onReceive
Receive ==
  /\ wire # <<>>
  /\ wire' = Tail(wire)
  /\ LET e == Head(wire)
     IN  IF e.event = "update" THEN Update(e.id)
         ELSE /\ items' = Only(items, (Ids \ {e.id}) \cup {Gap})
              /\ slips' = IF call # None /\ call.max = e.id THEN slips \cup {"delete"} ELSE slips
              /\ UNCHANGED <<hasMore, top, online>>
  /\ UNCHANGED <<published, feed, live, call, polling, drops>>

\* useFallback: the newest are asked for; there is more to wait for.
Poll(l) ==
  /\ loops[l] = "timer"
  /\ IF call = None
     THEN /\ call' = Request(items, None, FALSE, l)
          /\ loops' = [loops EXCEPT ![l] = "wait"]
     ELSE /\ UNCHANGED call
          /\ loops' = [loops EXCEPT ![l] = "rest"]
  /\ UNCHANGED <<server, timeline, pollingId, drops, slips>>

Rearm(l) ==
  /\ loops[l] = "rest"
  /\ loops' = [loops EXCEPT ![l] = "timer"]
  /\ pollingId' = l
  /\ UNCHANGED <<server, timeline, call, drops, slips>>

\* TIMELINE_SCROLL_TOP
Scroll ==
  /\ top' = ~top
  /\ UNCHANGED <<server, items, hasMore, online, call, polling, drops, slips>>

Next ==
  \/ Visit \/ LoadOlder \/ Answer \/ Arrive \/ Fail
  \/ \E i \in DOMAIN items : LoadGap(i)
  \/ Publish \/ Connect \/ GoLive \/ Disconnect \/ Receive \/ Scroll
  \/ \E s \in feed : Delete(s)
  \/ \E l \in Loops : Poll(l) \/ Rearm(l)

Spec == Init /\ [][Next]_vars

--------------------------------------------------------------------------------
(* Properties. *)

Calls == [
  since : Ids \cup {None}, max : Ids \cup {None}, fill : BOOLEAN, loop : Loops \cup {0},
  answer : {None} \cup Seq(Ids), cut : BOOLEAN]

Slips == {"page", "between", "trim", "order", "delete"}

TypeOK ==
  /\ published \in 0..MaxStatus /\ feed \subseteq Ids /\ live \in BOOLEAN
  /\ wire \in Seq([event : {"update", "delete"}, id : Ids])
  /\ items \in Seq(Ids \cup {Gap}) /\ {hasMore, top, online} \subseteq BOOLEAN
  /\ call \in Calls \cup {None} /\ drops \in Nat /\ slips \subseteq Slips
  /\ loops \in [Loops -> {"none", "timer", "wait", "rest"}] /\ pollingId \in Loops \cup {0}

\* Nothing is on its way, and what is published will come.
Settled == live /\ wire = <<>> /\ call = None

\* The feed has nothing between these two that the list lacks.
Close(a, b) == \A s \in feed : b < s /\ s < a => s \in ToSet(items)

\* Where the list lacks statuses of the feed, a gap is shown.
HolesMarked ==
  Settled /\ items # <<>> =>
    /\ Head(items) # Gap => Close(MaxStatus + 1, Head(items))
    /\ \A i \in 1..(Len(items) - 1) :
         items[i] # Gap /\ items[i + 1] # Gap => Close(items[i], items[i + 1])

\* ... but for the holes of an answer that is cut at Page right above a status, of what comes
\* between an answer or the connecting and the server's subscribing, of a list that is cut
\* while more of it is asked for, of an update older than the list's, and of an answer about
\* what is older than a status deleted meanwhile.
OtherHolesMarked == slips = {} => HolesMarked

\* No status is in the list twice.
NothingTwice == \A i, j \in DOMAIN items : items[i] = items[j] /\ items[i] # Gap => i = j

\* The list shows no status that is gone, once it has all that was sent.
NoGhosts == Settled => ToSet(items) \subseteq feed \cup {Gap}

\* At most one loop polls.
OnePoll == Cardinality({l \in Loops : loops[l] # "none"}) <= 1

\* When there is no more to load, the list goes down to the feed's end.
EndIsEnd == ~hasMore /\ items # <<>> /\ Last(items) # Gap => Close(Last(items), 0)
================================================================================
