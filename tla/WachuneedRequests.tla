--------------------------- MODULE WachuneedRequests ---------------------------
(***************************************************************************)
(* Wachuneed: asking for a listing, answering, booking a time.             *)
(*                                                                         *)
(* A web thread runs one request at a time, in steps: it loads the rows it *)
(* needs, checks what it loaded, and writes.  Nothing is locked between    *)
(* the steps and no constraint in the database repeats the checks, so the  *)
(* steps of two requests interleave.  The properties say of what the       *)
(* checks promise which two requests must cross to break it: crossed keeps *)
(* which have.                                                             *)
(*                                                                         *)
(* A listing is a one-off, an ongoing item, booked at posted times, or at  *)
(* any time suggested, and stays so.  Who may see it, what there is of it, *)
(* prices, kinds and extras are left out, and so is the clock: a check may *)
(* always refuse.                                                          *)
(***************************************************************************)
EXTENDS Integers, Sequences, FiniteSets

CONSTANTS
  Buyers,       \* people other than the seller
  Listings,     \* listings on offer, all of one seller
  Times,        \* the starts the seller posted for a booked listing, or that are suggested
  Length,       \* how long one booking takes; 0 when there is no set length
  Threads,      \* web threads
  MaxRequests,  \* bound: requests ever made
  MaxCrossed    \* bound: kinds of crossing on one listing

NoTime == 0

ASSUME TimesAssumption == Times \subseteq Nat \ {NoTime} /\ Length \in Nat
ASSUME ThreadsAssumption == IsFiniteSet(Threads) /\ MaxRequests \in Nat /\ MaxCrossed \in Nat

VARIABLES
  mode,       \* what each listing is: "oneoff", "ongoing", "booked" or "suggested"
  listing,    \* listings.state
  requests,   \* listing_offers in id order: [of, by, at, state]
  thread,     \* what each thread is doing, with what it loaded
  crossed     \* history: of each listing, the kinds of two requests under way at once

vars == <<mode, listing, requests, thread, crossed>>

\* Listing::STATES, in order, and ListingOffer::STATES in use.
ListingStates == <<"draft", "live", "reserved", "closed">>
RequestStates == {"pending", "accepted", "declined", "withdrawn", "cancelled"}

\* Altered (for the TimesHeldOnce mutant): a booking holds its time once accepted.
HeldOnceAccepted == {"accepted"}

HELD_STATES == {"pending", "accepted"}

Place(s) == CHOOSE i \in 1..4 : ListingStates[i] = s
Ids == 1..Len(requests)
Idle == [op |-> "idle"]

Modes == {"oneoff", "ongoing", "booked", "suggested"}

Init ==
  /\ mode \in [Listings -> Modes]
  /\ listing \in [Listings -> {"draft", "live"}]
  /\ requests = <<>>
  /\ thread = [t \in Threads |-> Idle]
  /\ crossed = [l \in Listings |-> {}]

Bookable(l) == mode[l] \in {"booked", "suggested"}

Does(t, job) == thread' = [thread EXCEPT ![t] = job]
Ends(t) == Does(t, Idle) /\ UNCHANGED crossed

\* The kinds of two jobs that are of interest.
Clashes == {{"ask"}, {"answer"}, {"move"}, {"answer", "move"}}

\* Two jobs that may get in each other's way: on one listing, and on one request when
\* both answer.
Meet(j, k) ==
  /\ j # Idle /\ k # Idle
  /\ j.of = k.of
  /\ j.op = "answer" /\ k.op = "answer" => j.id = k.id

\* Thread t, idle until now, has a job; what it meets is remembered.
Starts(t, job) ==
  /\ thread[t] = Idle
  /\ Does(t, job)
  /\ LET met == {ops \in Clashes :
                  \E u \in Threads : Meet(job, thread[u]) /\ ops = {job.op, thread[u].op}}
     IN  crossed' = [crossed EXCEPT ![job.of] = @ \cup met]
  /\ Cardinality(crossed'[job.of]) <= MaxCrossed

--------------------------------------------------------------------------------
(* Asking: RequestsController#create and the validations of ListingOffer. *)

\* The listing is loaded; ListingOffer.ask builds the request.
LoadAsk(t, b, l) ==
  /\ Len(requests) < MaxRequests
  /\ \E at \in IF Bookable(l) THEN Times ELSE {NoTime} :
       Starts(t, [op |-> "ask", of |-> l, by |-> b, at |-> at, saw |-> listing[l],
                  checked |-> FALSE])
  /\ UNCHANGED <<listing, requests>>

\* Two bookings overlap; with no set length only the same start does.
Overlap(x, y) == IF Length > 0 THEN x < y + Length /\ y < x + Length ELSE x = y

\* BookingTimes#free?: any time that is suggested, and a posted one that clashes with
\* nothing waiting or accepted.
Free(l, at) ==
  \/ mode[l] = "suggested"
  \/ \A i \in Ids : requests[i].of = l /\ requests[i].state \in HELD_STATES
                      => ~Overlap(at, requests[i].at)

\* Altered (for the OneWaiting mutant): an accepted request does count, one waiting not.
AskedBeforeOnceAccepted(l, b) ==
  \E i \in Ids : requests[i].of = l /\ requests[i].by = b /\ requests[i].state = "accepted"

AskedBefore(l, b) ==
  \E i \in Ids : requests[i].of = l /\ requests[i].by = b /\ requests[i].state = "pending"

\* can_be_asked and booking_given, with the listing as it was loaded: it is live, and
\* free at that time or not asked for already.
MayAsk(j) ==
  /\ j.saw = "live"
  /\ IF Bookable(j.of) THEN Free(j.of, j.at) ELSE ~AskedBefore(j.of, j.by)

\* The checks pass, or the request is refused: by them, or because it is sold out, not
\* shown to the buyer, or its time has passed.
CheckAsk(t) ==
  /\ thread[t].op = "ask" /\ ~thread[t].checked
  /\ \/ MayAsk(thread[t]) /\ Does(t, [thread[t] EXCEPT !.checked = TRUE]) /\ UNCHANGED crossed
     \/ Ends(t)
  /\ UNCHANGED <<listing, requests>>

InsertAsk(t) ==
  /\ thread[t].op = "ask" /\ thread[t].checked
  /\ LET j == thread[t] IN
       requests' = Append(requests, [of |-> j.of, by |-> j.by, at |-> j.at, state |-> "pending"])
  /\ Ends(t)
  /\ UNCHANGED listing

--------------------------------------------------------------------------------
(* Answering: the seller accepts or declines, the buyer withdraws. *)

Answers == {"accepted", "declined", "withdrawn"}

\* Altered (for the AnsweredOnce mutant): an accepted request can still be answered.
AnswerableUntilDeclined(s) == s \in HELD_STATES

Answerable(s) == s = "pending"

\* set_request and respond_as: the request and its listing are loaded, and the
\* request is still waiting.
LoadAnswer(t, i, answer) ==
  /\ Answerable(requests[i].state)
  /\ LET l == requests[i].of
     IN  Starts(t, [op |-> "answer", of |-> l, id |-> i, to |-> answer, saw |-> listing[l]])
  /\ UNCHANGED <<listing, requests>>

\* Altered (for the ListingMovesForward mutant): whatever state the listing is in.
ReservesAlways(j) == j.to = "accepted" /\ mode[j.of] = "oneoff"

\* accept! of a one-off reserves it, if it was live when it was loaded.
Reserves(j) == j.to = "accepted" /\ mode[j.of] = "oneoff" /\ j.saw = "live"

\* accept!, decline! and withdraw! write whatever is there by now.
WriteAnswer(t) ==
  /\ thread[t].op = "answer"
  /\ LET j == thread[t]
     IN /\ requests' = [requests EXCEPT ![j.id].state = j.to]
        /\ listing' = IF Reserves(j) THEN [listing EXCEPT ![j.of] = "reserved"] ELSE listing
  /\ Ends(t)

\* An accepted booking.
Cancellable(r) == r.state = "accepted" /\ r.at # NoTime

LoadCancel(t, i) ==
  /\ Cancellable(requests[i])
  /\ Starts(t, [op |-> "cancel", of |-> requests[i].of, id |-> i])
  /\ UNCHANGED <<listing, requests>>

WriteCancel(t) ==
  /\ thread[t].op = "cancel"
  /\ requests' = [requests EXCEPT ![thread[t].id].state = "cancelled"]
  /\ Ends(t)
  /\ UNCHANGED listing

--------------------------------------------------------------------------------
(* The seller moves a listing on: update with a state, or close. *)

\* state_moves_forward, by the state that was loaded.
LoadMove(t, l, s) ==
  /\ Place(s) > Place(listing[l])
  /\ Starts(t, [op |-> "move", of |-> l, to |-> s])
  /\ UNCHANGED <<listing, requests>>

WriteMove(t) ==
  /\ thread[t].op = "move"
  /\ listing' = [listing EXCEPT ![thread[t].of] = thread[t].to]
  /\ Ends(t)
  /\ UNCHANGED requests

--------------------------------------------------------------------------------
Load(t) ==
  \/ \E b \in Buyers, l \in Listings : LoadAsk(t, b, l)
  \/ \E i \in Ids : LoadCancel(t, i) \/ \E answer \in Answers : LoadAnswer(t, i, answer)
  \/ \E l \in Listings, s \in {"live", "reserved", "closed"} : LoadMove(t, l, s)

Write(t) == CheckAsk(t) \/ InsertAsk(t) \/ WriteAnswer(t) \/ WriteCancel(t) \/ WriteMove(t)

Next == UNCHANGED mode /\ \E t \in Threads : Load(t) \/ Write(t)

Spec == Init /\ [][Next]_vars

--------------------------------------------------------------------------------
(* Properties. *)

\* Every variable has its type; only a booking is ever cancelled.
TypeOK ==
  /\ mode \in [Listings -> Modes]
  /\ \A l \in Listings : \E i \in 1..4 : listing[l] = ListingStates[i]
  /\ \A i \in Ids :
       /\ requests[i].of \in Listings /\ requests[i].by \in Buyers
       /\ requests[i].at \in Times \cup {NoTime}
       /\ requests[i].state \in RequestStates
       /\ requests[i].state = "cancelled" => requests[i].at # NoTime
  /\ \A t \in Threads : thread[t].op \in {"idle", "ask", "answer", "cancel", "move"}
  /\ crossed \in [Listings -> SUBSET Clashes]

Crossed(l, ops) == ops \in crossed[l]

\* The request with id i is answered, or called off.
RightlyAnswered(i) ==
  \/ requests[i].state = "pending" /\ requests'[i].state \in Answers
  \/ requests[i].state = "accepted" /\ requests'[i].state = "cancelled"

\* RequestsController: "Answered once: a request already accepted, declined or taken
\* back is left as it is", but for a booking that is called off.  Only two answers to
\* one request under way at once can break it: no asking, calling off or moving on can.
AnsweredOnce ==
  [][\A i \in Ids :
       requests'[i].state # requests[i].state =>
         RightlyAnswered(i) \/ Crossed(requests[i].of, {"answer"})]_vars

WaitsOnce(l) ==
  \A i, j \in Ids :
    /\ requests[i].of = l /\ requests[j].of = l /\ requests[i].by = requests[j].by
    /\ requests[i].state = "pending" /\ requests[j].state = "pending"
    => i = j

\* ListingOffer: "one open request each": a buyer never has two requests waiting on
\* a listing that is not booked.  Only two asks for it at once can break it, whatever
\* is answered, taken back and asked for again meanwhile.
OneWaiting == \A l \in Listings : ~Bookable(l) => WaitsOnce(l) \/ Crossed(l, {"ask"})

HeldOnce(l) ==
  \A i, j \in Ids :
    /\ requests[i].of = l /\ requests[j].of = l
    /\ requests[i].state \in {"pending", "accepted"}
    /\ requests[j].state \in {"pending", "accepted"}
    /\ Overlap(requests[i].at, requests[j].at)
    => i = j

\* ListingOffer: "A booking waiting or accepted holds its time": no two of a listing with
\* posted times overlap, over any sequence of bookings, answers and cancellations.
\* Only two asks for it, or two answers to one request, at once can break it.
TimesHeldOnce ==
  \A l \in Listings :
    mode[l] = "booked" => HeldOnce(l) \/ Crossed(l, {"ask"}) \/ Crossed(l, {"answer"})

\* Listing: "draft -> live -> reserved -> closed, never back".  Only a move that crosses
\* an answer or another move can break it; two answers, of two requests, cannot.
ListingMovesForward ==
  [][\A l \in Listings :
       \/ Place(listing'[l]) >= Place(listing[l])
       \/ Crossed(l, {"move"}) \/ Crossed(l, {"answer", "move"})]_vars

\* The same whatever crosses, and for times that are suggested too; none of it is kept.
AlwaysAnsweredOnce ==
  [][\A i \in Ids : requests'[i].state # requests[i].state => RightlyAnswered(i)]_vars
AlwaysOneWaiting == \A l \in Listings : ~Bookable(l) => WaitsOnce(l)
AlwaysHeldOnce == \A l \in Listings : Bookable(l) => HeldOnce(l)
AlwaysForward == [][\A l \in Listings : Place(listing'[l]) >= Place(listing[l])]_vars

\* ListingOffer#accept!: "A one-off is reserved for the buyer": for one buyer.  Not kept,
\* with one thread either.
PromisedOnce ==
  \A i, j \in Ids :
    /\ requests[i].of = requests[j].of /\ mode[requests[i].of] = "oneoff"
    /\ requests[i].state = "accepted" /\ requests[j].state = "accepted"
    => i = j
================================================================================
