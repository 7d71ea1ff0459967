# Kronk in TLA+

Kronk is a Mastodon fork: a Rails server with Kronk's own "korners" (Kommons,
Wachuneed, Krews, Nudges, ...) beside the inherited social network, a streaming
server in Node, and a web client. This directory models the parts of it that
carry state whose rules are hard to keep, checks them with TLC and proves what
matters most with TLAPS.

## The system

| Component | State | Operations | What makes it correct |
|---|---|---|---|
| Kommons lifecycle (`app/lib/kronk/proposal_states.rb`, `app/models/proposal.rb`) | a proposal's status, claimant, those who joined | create, claim, unclaim, join, leave, action (claimant, shell, last task), close, annul | only forward; an open proposal has nobody on it; a claim is handed over in join order |
| Kommons tokens (`app/lib/kronk/tokens.rb`) | `token_balances`, `token_transactions`, `proposal_backings` | grant, back, refund all, pay author | balances never negative and always the sum of their transactions; every stake home once; the author paid once |
| Kommons tasks (`tasks_controller.rb`) | each task's status | add, tick, reopen; the last tick actions the proposal | finished work handed over, once, and only finished work |
| Account deletion (`delete_account_service.rb`) | none of its own; restarts from the beginning | settle each proposal, leave Krews, purge | no stake locked behind an account that is gone |
| Wallet (`token_balances_controller.rb`) | none: derived | show | the total is what is available and what is owed |
| Kommons voting (`proposals_controller.rb`) | votes, challenge conditions | vote, unvote, sign off | retired: `docs/spaces/kommons.md`, "Votes are retired" |
| Wachuneed (`listing.rb`, `listing_offer.rb`, `booking_times.rb`) | a listing's state, requests and bookings | ask, accept, decline, withdraw, cancel, close | answered once; a one-off promised to one buyer; a time booked once |
| Krews (`krew.rb`, `krew_membership.rb`, `krew_join_request.rb`, `freethedream/`) | memberships and their count, join requests, archived; the people of a projekt living in the Krew; places in the Krew's chat | join, ask, take back, accept, decline, invite, leave, archive, seed and remove a projekt, open the chat | never live with nobody in it; nobody force-added; the same people in the Krew, its projekt and its chat |
| Streaming server (`streaming/index.js`) | connections, each one's session of subscriptions, the listeners of each Redis channel, heartbeats | sign in, subscribe, leave, close, be killed, receive | a message to whoever listens, once, and to nobody else; Redis sends what is listened to; a close takes down everything |
| Drafts in the web client (`hooks/useDraft.ts`, `drafts_controller.rb`) | what the composer holds, the copy on the device, the server's drafts, saves under way | type, save, resume, switch, start anew, discard, empty, close | nothing lost by closing; no draft made twice; what was discarded stays gone |
| Home timeline in the web client (`reducers/timelines.js`, `actions/timelines.js`, `actions/streaming.js`) | the list of statuses and its gaps, the request under way, the stream, polling | expand, load a gap, receive, lose and find the stream, poll | nothing twice; what is missing is marked by a gap |
| Mates (`app/services/mates/`) | follow and follow-request rows, both ways | request, accept, reject, unmate | mutual or nothing |
| Nudges (`app/services/nudges/`) | conversations, events, read pointers | route, collapse, mark read | no event lost or told twice; pointers only forward |
| Huddle, Booth, feeds, statuses, federation, other korners, the rest of the web client | | | see "Not modelled" |

How they interact: a controller action runs in a Puma thread and calls the
lifecycle, which takes the proposal's row lock (`with_lock`) and calls Tokens
inside it; Tokens locks balance rows. A token transaction's foreign key makes
its insert take a key-share lock on the proposal. Ticking a task calls the
lifecycle. Deleting an account suspends it and queues a Sidekiq worker that calls
both. The shell (`tootctl kommons`) calls the lifecycle with nobody named. Nudges
listens on a bus to which the others publish after they commit; its subscribers
run in the thread that published and keep a Krew's chat in step with the Krew. A
Krew's membership and a projekt's membership create and destroy each other in
callbacks, inside one transaction. Rails publishes statuses and kills on Redis
channels; the streaming server subscribes to the channels its connections ask for
and forwards them; the web client's home timeline is fed by that stream and by
requests, and polls when the stream is lost.

What is hard: requests and workers interleave between any two SQL statements;
state is read before a lock and used after; a worker is killed or fails halfway
and is run again; a close waits for rows another close holds. Wachuneed and Krews lock
nothing themselves: their checks come before their writes. The streaming server and
the client are single threads whose handlers interleave at every await: a
connection closes while its subscribe waits for the database, a draft is discarded
while it is saved, an answer comes to a list that has changed since it was asked
for. The hazards, each at its line, are in `PROJECT.json`.

## The modules

| Module | Models | State and actions |
|---|---|---|
| `TokenLedger` | what the token economy promises | purses, escrow per proposal and backer, total raised, phase; Issue, Stake, Hold, Release, Complete, SendHome |
| `Kommons` | lifecycle, tokens, tasks, wallet and deletion; one action per request, shell command or deletion step | a function per column; `backed`, `refunded`, `raised`, `payout` are the sums the code reads from `proposal_backings` and `token_transactions`; `swept` is how far a deletion pass has got |
| `TokenSettlement` | the same token operations, one action per statement | committed rows, row locks, and for every job its place, what it read, and its uncommitted draft |
| `TaskHandover` | ticking the last task: load, save, check, action; and adding one, to do or done, which checks nothing | the tasks, the proposal's status, and what each request loaded |
| `WachuneedRequests` | asking for a listing, answering, booking a time, moving a listing on | `mode` (a one-off, ongoing, booked at posted times or at suggested ones), listings' states, the requests in id order, what each thread loaded, and `crossed`, which kinds of two requests have been under way at once; a request is load, check, write |
| `Krews` | one Krew: members, those asking, its chat, its projekt | `members`, `count` (the counter cache), `asks`, `dreamers` (the projekt's people), `chat` (no place, pending or active), and what each thread loaded; a request is load, write, then the bus subscriber |
| `StreamAudience` | what the streaming server promises | who listens to which stream, who was dropped, to whom the last message went; Join, Leave, Drop, Send |
| `StreamSubscriptions` | the streaming server, one action per stretch of a handler between awaits | `session` and `subs` as in the code, `hearts` (heartbeat timers), `awaiting` (requests whose query is under way), `wire` (commands on their way to Redis), `news` (messages on their way back) |
| `Drafts` | `useDraft`, with the server's drafts and `localStorage` | a record per time the composer is opened, with its refs, its timers, its chain of saves and the call under way; `wanted` and `gone` remember what the writer wanted, `trouble` what has failed or come in the way |
| `HomeTimeline` | the client's home list and what feeds it | `items` (with gaps), the request under way, the stream's events, polling loops; `slips` remembers what has gone by unseen |
| `KommonsProofs`, `TokenSettlementProofs`, `StreamSubscriptionsProofs`, `WachuneedProofs`, `KrewsProofs`, `DraftsProofs`, `HomeTimelineProofs` | the theorems | |
| `SumTheorems` | lemmas about sums over finite sets | |
| `MC*` | instances for TLC: the jobs and requests of each run, symmetry | |

`Kommons` is atomic where the code holds a proposal's row lock. `leave!` takes no
lock, so it is not: `unclaim!` is two steps, `PickHeir` and `HandOver`, and a `Leave`
may come between them (finding 18). That the lock makes the rest atomic is an
assumption, and `TokenSettlement` is where it is examined for the tokens: both
implement `TokenLedger` (`ImplementsLedger`, the refinement mapping maps escrow
to stakes not yet refunded and the status to a phase), except in the one
interleaving `MCSettlementDouble.cfg` finds. That it is the only one is proved: see
`OneSettles` below.

`StreamSubscriptions` implements `StreamAudience` (`ImplementsAudience`): the audience is
what the sessions of open connections say, while what is sent follows the
channels' listeners; that they never differ is the point. It needs the whole of
`Indexed`, which says that sessions, listeners and heartbeats agree.

Definitions named after an operation with a word added (`OwedAgain`,
`BackUndebited`, ...) and commented "Altered" are that operation with a plausible
bug in it. Nothing refers to them: substituted for the original, each makes
the property it names fail, which shows that the property depends on that line.

`WachuneedRequests` and `Krews` have the web threads as a constant. With two, the
steps of two requests interleave, and the question is whether checking before
writing is enough. For a Krew's count and for its last member it is
(`MCKrewsLastOut.cfg`); most often it is not. Wachuneed's run has two threads, and its
properties say which two requests must cross to break each promise (`crossed`): two
asks, two answers to one request, a move and an answer, or two moves. What the
kinds not named cross is then shown to do no harm. The run of `Krews` has one thread,
where every request runs from load to end before the next: it asks whether the
rules are right, and the configurations run by hand show what two at once do.

`Drafts` lets the writer do everything the hook lets them. What gets in its way is
remembered in `trouble` beside what fails, and the properties say which of it breaks
what: the composer opened again before its earlier saves are over (`early`),
something written before its drafts are back (`list`), typing or asking for another
draft while one asked for waits for a save (`switch`), and closing or emptying within
`LOCAL_DEBOUNCE` of typing (`quick`).

A Krew's last two members may leave at once. Nothing in `Krew#leave!` locks, and each
transaction could find the other's membership still there and leave the Krew
empty and live. What saves it is the counter cache: deleting a membership updates
`krews.member_count`, and the second transaction waits at that row until the first
commits. `LeaveDelete`, `LeaveLook` and `LeaveCommit` are that transaction, and
`RowFree` the wait.

Tables are kept as sums because the code reads nothing else of them: `back!` may
top a stake up, and `refund_all!` groups by account. A stream is the sequence of
its channels, as in the code, where joined by `;` it is the key of a session's
entry. A draft's text is which work it is of and how much was typed before it:
enough to tell lost, doubled and mixed up.

## The runs

Each is `tlc -config <cfg> <module>`, with cfg and module as in `PROJECT.json`.

| Run | Question | Result |
|---|---|---|
| `kommons_ledger` | two proposals, two accounts, every request, shell command, deletion and retry: is the economy sound, and the wallet right while no author leaves? | holds |
| `kommons_board` | one proposal, three people, tasks, deletions, somebody leaving inside an unclaim: does the crew add up, and does a claim go past nobody who is still there? | holds |
| `settlement_requests` | two backings that overspend, two closes, an annul, a crash anywhere | holds |
| `settlement_deletion` | a deletion while its proposals are backed, actioned and annulled, killed once or refused: does it never finish with a stake locked, and unlock them all in the end? | holds |
| `task_handover` | everyone edits the list at once, adding tasks that are done too: is work whose last task somebody changed handed over, once? | holds |
| `wachuneed_requests` | two requests at once, asking, answering, cancelling and moving on: does each promise hold unless two requests of the named kinds cross? | holds |
| `krews_one_thread` | every request about a Krew, one at a time: do count, projekt, chat and requests follow the members? | holds |
| `stream_websocket` | a websocket changes its streams, some after a query, while it is closed or killed: do sessions, listeners and heartbeats agree, does the audience get each message once, does a kill arrive? | holds |
| `stream_event_source` | a websocket and an event source share channels: does Redis send what is listened to, does a close take down all there is? | holds |
| `drafts` | a composer opened twice, with one kind of trouble among a request lost, the tab closed, `early`, `list`, `switch` and `quick`: is nothing lost, doubled or back until it comes, and no draft saved over with another's text unless it is `switch`? | holds |
| `home_timeline` | four posts, a deletion, a stream lost and found: is nothing in the list twice, and what it lacks marked, but for five named ways? | holds |
| `drafts_twice` | New pressed twice: is a draft created twice? | violated |

The other configurations are run by hand (`tlc -config X.cfg M`). Most end in a state or
step without the property they name; TLC stops at the first, so of those that
name several, leave one in to see it.

| Configuration | Module | Properties | What it shows |
|---|---|---|---|
| `MCKommonsWalletLeaver.cfg` | `MCKommons` | `WalletTotalIsOwned` violated | an author of actioned work leaves, and their backer's total is too high |
| `MCSettlementDeadlock.cfg` | `MCTokenSettlement` | `NoLockCycle` violated | two closes with a backer and an author in common wait for each other |
| `MCSettlementCross.cfg` | `MCTokenSettlement` | `TypeOK`, `RefundedOnce`, `EveryJobEnds` hold | two authors who back each other close at once: every request ends, through a rollback |
| `MCSettlementDouble.cfg` | `MCTokenSettlement` | `RefundedOnce` violated | a close beside its author's deletion refunds a stake twice |
| `MCTaskHandoverAdding.cfg` | `MCTaskHandover` | `WorkFinishedWhenActioned` violated | a task is added between the check of the list and `action!` |
| `MCTaskHandoverDone.cfg` | `MCTaskHandover` | `FinishedByOthers` violated | a task added as done completes a list and nobody hands it over |
| `MCKommonsBoard.cfg`, with `ClaimStaysWithCrew` as its property | `MCKommons` | violated | a claim goes to somebody who has just left |
| `MCWachuneedNotKept.cfg` | `MCWachuneedRequests` | `AlwaysOneWaiting`, `AlwaysHeldOnce`, `AlwaysAnsweredOnce`, `AlwaysForward`, `PromisedOnce` violated | a buyer asks twice at once; two book one posted time at once, or one suggested time with nothing concurrent; a request is withdrawn while it is answered; a listing is closed while a request for it is accepted; nothing concurrent: a waiting request is accepted for an item already reserved |
| `MCKrewsLastOut.cfg` | `MCKrews` | `TypeOK`, `SeatsCounted`, `NeverEmpty` hold | coming and going two at a time, no projekt living there |
| `MCKrewsTakenBack.cfg` | `MCKrews` | `NobodyForceAdded`, `NeverEmpty` violated | a request is taken back while it is accepted; it is taken back from the projekt's page after its owner got in, and the others have left |
| `MCKrewsSeeding.cfg` | `MCKrews` | `OnePeople`, `NobodyForceAdded` violated | someone joins, or leaves, while a projekt is seeded: they are not in it, or put back |
| `MCKrewsLurker.cfg` | `MCKrews` | `ChatOnlyMembers` violated | a member leaves while the chat is opened, and keeps a place |
| `MCKrewsLeftOut.cfg` | `MCKrews` | `MembersInChat` violated | nothing concurrent: someone with an invitation joins by the link, and their place stays pending |
| `MCKrewsArchivedUnder.cfg` | `MCKrews` | `ArchivedAlone` violated | someone joins while the only member archives |
| `MCStreamNotKept.cfg` | `MCStreamSubscriptions` | `DisabledTerminates`, `NothingHeld`, `NotReadAlong`, `ServesOn` violated | a kill comes before its connection is subscribed; a subscribe is answered after the close; someone who left a chat is sent it; a kill before an event source is answered ends the server |
| `MCDraftsCalm.cfg` | `MCDrafts` | `TypeOK` and the four of `drafts` hold | three texts, and no request lost or tab closed |
| `MCDraftsNotKept.cfg` | `MCDrafts` | `EmptiedGoes`, `NothingLost`, `NeverTwice`, `GoneForGood` violated | what was never saved is emptied by hand, and is saved all the same; for the others see findings 13 to 15 |
| `MCHomeTypes.cfg` | `MCHomeTimeline` | `TypeOK`, `NothingTwice`, `OtherHolesMarked` hold | a stream lost twice, and two polling loops |
| `MCHomePending.cfg` | `MCHomeTimeline` | `OtherHolesMarked` violated | with new posts set to wait, connecting marks no gap in the home list |
| `MCHomeNotKept.cfg` | `MCHomeTimeline` | `NoGhosts`, `OnePoll`, `EndIsEnd`, `HolesMarked` violated | a deleted status stays; two loops poll; the list ends before the feed; a hole without a gap |

### Bounds

- `StartingBalance` is 10, as in the code, with stakes of 5 in the ledger runs:
  an account can back twice and then not a third time, a proposal can raise
  nothing, 5, 10, 15 or 20, so the reward's floor and its first step up
  (20 gives 2) both occur. The statement-level runs use larger balances so that
  stakes and rewards cannot be confused.
- Two proposals are enough for a balance to be touched by both at once and for a
  deletion to have one before and one after the point it fails. Proposals are
  interchangeable, hence the symmetry in the ledger runs.
- Three accounts on the board: a claimant and two joined, so that there is an
  order to hand over in. `MaxTasks` is 2: the last task and one before it.
- A run's jobs in `TokenSettlement` are listed in `MCTokenSettlement`; each job runs
  once (a deletion until it is done). `MaxCrashes` is 0 or 1.
- Wachuneed: one listing of any mode, because listings share nothing; two buyers and two
  threads; two requests (`MaxRequests`), because each property is about one or
  two; and one kind of crossing (`MaxCrossed`), each in some behaviour, which is
  what tells the kinds that break a property from those that do not. Bookings last 2
  and start at 1, 2 and 3, so that touching, overlapping and equal bookings all occur.
- Krews: three people (one to act, one to be acted on, one to remain), or two where
  a violation needs no more, and one projekt at a time. A configuration with two threads
  explores the requests its question is about (`Explored`); `krews_one_thread`
  explores them all.
- Streaming: one websocket with three streams, two of which share a channel and one of
  which needs a query, with two requests awaiting it (`Slots`), so that their
  answers cross; or a websocket and an event source of one account on one stream.
  Each connection is made once: a client that reconnects is another connection to
  the server. One message is on its way from Redis (`MaxNews`) and one command of
  each channel on its way to it when a client speaks (`MaxWire`), two or three when
  other commands follow. `Copies` is 2, and `NewListener` is always defined, so
  two listeners of one stream would show.
- Drafts: opened twice (`Mounts`), so that saves of the one outlive it into the other; two
  texts (`MaxTyped`), of one work or of two; one draft asked for at a time (`MaxAsked`; two
  in `drafts_twice` and `MCDraftsNotKept.cfg`). One kind of trouble comes in a behaviour
  (`MaxTroubles`), a failure once and the others any number of times, so each is seen by itself.
  Three texts are `MCDraftsCalm.cfg`'s.
- Home timeline: four statuses, answers of two (`Page`), a list longer than three cut to
  two (`Full`, `Kept`; 40 and 20 in the code): a page short of the list, a cut, and
  a list on either side of a gap all occur. One loss of the stream, or two.
- Deadlock checking is off where the system may stop: `Kommons` (everybody may be gone),
  `TaskHandover` (every request ends), `WachuneedRequests` (`MaxRequests`), `Krews`
  (everybody may have left), `StreamSubscriptions` (everybody is disconnected),
  `Drafts` (composers closed) and `HomeTimeline` (its bounds). It is on for
  `TokenSettlement`.

### Fairness

`FairSpec` of `TokenSettlement` has strong fairness for the steps of each job: a
running thread is scheduled, a lock that keeps coming free is granted (PostgreSQL
queues the waiters), and a failed deletion starts again (Sidekiq retries; the
model bounds crashes, Sidekiq allows 25). PostgreSQL's deadlock detector is weakly
fair. Nothing is fair about crashes or about people: `EveryJobEnds` is about
requests already made.

`FairSpec` of `StreamSubscriptions` has weak fairness for `Receive` alone: the event loop
keeps turning, and a message that is in the server's socket is read. That is all
`KillsArrive` needs; nothing is fair about the network before it.

## What was found

1. **The wallet counts a refunded stake twice** (`MCKommonsWalletLeaver.cfg`). The deletion of
   a proposer refunds the backers of their actioned proposals and leaves them
   actioned; the wallet derives "staked" from "not terminal". A backer's total is
   too high from then on.
2. **Two closes can deadlock** (`MCSettlementDeadlock.cfg`). Refunds go in account order, as
   the comment says, but the payout that follows in the same transaction does not.
   PostgreSQL rolls one of them back, so tokens are safe and that close must be
   asked for again.
3. **A stake can be refunded twice** (`MCSettlementDouble.cfg`). `settle_proposals!` calls
   `refund_all!` without the proposal's row lock. Its insert waits for an
   in-flight close, but it has read the refunds on record before that wait.
4. **A proposal can be actioned with work to do** (`MCTaskHandoverAdding.cfg`): a task added
   between `all_tasks_done?` and `action!`.
5. **Wachuneed checks, then writes, and nothing in between holds**
   (`MCWachuneedNotKept.cfg`). With two asks at once a buyer can wait twice and a posted
   time be booked twice; with two answers at once a request is answered twice, and
   a booking declined and then accepted after all holds its time beside the one
   made in between; with a move beside an answer or another move a closed listing comes
   back. `wachuneed_requests` shows that nothing else does it.
6. **One thing can be promised to two with nothing concurrent** (`MCWachuneedNotKept.cfg`). A
   one-off: requests that were waiting stay answerable once it is reserved
   (`PromisedOnce`). A time that is suggested: `free?` asks no further of one
   (`booking_times.rb:36`, `return true if suggested?`), though "a booking waiting or
   accepted holds its time" (`listing_offer.rb:20`) (`AlwaysHeldOnce`).
7. **A Krew takes people who are not asking**: a request taken back while it is
   accepted (`MCKrewsTakenBack.cfg`), a member who left while a projekt was seeded
   (`MCKrewsSeeding.cfg`).
8. **The Krew, its projekt and its chat drift apart**: a joiner missing from the projekt
   (`MCKrewsSeeding.cfg`), someone who left still in the chat (`MCKrewsLurker.cfg`), and, with
   nothing concurrent, a member whose old invitation keeps their place pending
   (`MCKrewsLeftOut.cfg`).
9. **Smaller races in a Krew**: archived with two in it, or a member still asking
   (`MCKrewsArchivedUnder.cfg`), and empty without being archived, because
   `Project#remove_member!` does not go through `Krew#leave!` (`NeverEmpty` in `MCKrewsTakenBack.cfg`).
10. **A disabled account can stay connected** (`DisabledTerminates` in `MCStreamNotKept.cfg`).
    A kill is a message like another: published after the connection's token was
    read and before Redis has its SUBSCRIBE, it reaches nobody.
11. **A listener can outlive its connection** (`NothingHeld`). A subscribe that waits for
    the database when its connection closes adds its listener and heartbeat after
    the close handler has run, and nothing takes them down. The event source's
    route does the same when its client goes away while it is authorised. When it was a
    kill that ended its response, setting a header throws, `writeHead` in the handler
    of that throws again, and the unhandled rejection ends the server with everybody's
    connections (`Exit`, `ServesOn`).
12. **Leaving a chat does not end its stream** (`NotReadAlong`). Access is looked at once,
    on subscribing.
13. **A draft can be created twice** (`drafts_twice`, `NeverTwice` in `MCDraftsNotKept.cfg`). New
    pressed again before the first has blanked the fields queues a second save of one
    text, which runs after the draft's id was forgotten. Closing the composer within
    `LOCAL_DEBOUNCE` of typing saves what the device has an older copy of without its id: the
    next opening sends that copy up as a second draft. Also by opening the composer
    before its earlier save is over, and when an answer is lost or the tab closes.
14. **A text can be lost, and a draft saved over, with no request failing** (`NothingLost` in
    `MCDraftsNotKept.cfg`, with `Failures = {}`). What is typed while a save stands before New or a
    switch is blanked when that loads; a save queued behind that load, of what was typed on or
    because another draft was asked for as well, puts one work's text into another's draft
    (`OwnWork` without its exception).
    What is typed before the drafts are back is replaced by the newest of them. Without signal, `startNew` and `switchTo` drop the
    device's copy when the save before them is over, also when it failed.
15. **What was deleted can come back**: emptied by hand before its first save, because the
    pending save stays pending (`EmptiedGoes`); discarded and opened again before
    the DELETE has arrived; or discarded where finding 13 has made two drafts of it, of which one is
    left (`GoneForGood`).
16. **The home list can have holes no gap shows** (`HolesMarked` in `MCHomeNotKept.cfg`, and
    `MCHomePending.cfg`). There are five ways, each a name in `slips`, and
    `OtherHolesMarked` says there is no other: an answer since the newest status cut
    at a page (`page`); what is published between an answer, or connecting, and the
    server's subscribing (`between`); a list cut while more of it is asked for
    (`trim`); an update older than the list's newest (`order`); and a status deleted
    while what is older than it is asked for (`delete`). With new posts set to wait,
    connecting looks for the home list among the pending items and marks nothing.
    `fillTimelineGaps` passes `maxId` where `expandTimeline` reads `max_id`, so filling gaps asks
    for the newest twice instead.
17. **Smaller ones in the home timeline** (`MCHomeNotKept.cfg`): a status deleted while its
    answer is on the way stays shown (`NoGhosts`); each lost stream begins a polling
    loop and connecting stops only the timer set last (`OnePoll`); a list that has
    reached its end and is cut to its top no longer loads what was cut (`EndIsEnd`).

18. **A claim can go to somebody who has left** (`ClaimStaysWithCrew`). `leave!`
    (`proposal_states.rb:98-101`) takes no lock, so it commits between `unclaim!`'s
    reading who joined first and its writing of the claimant ("whoever joined first takes
    it on", lines 55-57).
19. **Finished work can stay on the board** (`MCTaskHandoverDone.cfg`).
    `create` permits a status and never asks whether the work is complete: a task added
    as done completes a list, or begins one, and nobody hands it over.

Read, not modelled: `stream.js` hands a message to its subscription by channel and, of
those with a parameter, knows only hashtags and lists, so that a message of a
chat's stream is handed to nobody.

## What is proved

`KommonsProofs`, for every set of accounts, proposals, stakes, stewards and leavers
that meets the named assumptions in `Kommons` (the null claimant is not an account;
stakes and the starting balance are positive):

- `TypeCorrect`: `TypeOK` is inductive by itself.
- `EveryStakeComesHome`, `NoStakeRefundedTwice`, `PoolPaysOnce`,
  `DeletionUnlocksStakes`: from one invariant, `SettlementInv`. None of the four is
  inductive alone. Whether a refund may happen depends on the status: an active
  proposal has refunded nothing, an actioned one nothing or everything backer by
  backer (a deletion may have been there), a terminal one everything; that is
  `RefundState`. That a *gone* author's proposals are settled needs to know what
  happens between the pass and the end of the purge: a proposal in `swept` whose
  author is leaving or gone has everything refunded and takes no more backing;
  that is `GoneSwept`. With `PaidOnClose` these are inductive: the steps are
  grouped into those that leave tokens alone (`QuietStep`), the ones that refund
  (`SettlingStep`) and the one that stakes (`BackingStep`).
- `EveryBalanceReconciles`: `Reconciles`, from `BooksInv`, which adds that whoever has not
  signed up has had no grant. Every request changes a balance by what it puts on
  record. See "Sums" below.
- `WalletRight`: `WalletRightWhileAuthorsStay`. The wallet counts as staked what is on a
  proposal that is not terminal, what is owed is what is not refunded; `HomeByLeaver` says
  that the two differ only on an actioned proposal whose author is leaving or gone.
- `CrewAddsUp`: `CrewConsistent` is inductive with `TypeOK`.
- `CrewHandsOverInOrder`: `CrewKept`, an action property. Between an `unclaim!`'s reading of
  its heir and its write people may leave but nobody can come before the heir, which is
  `HeirInOrder`, inductive with `CrewConsistent`: so a claim passes nobody who is still
  there. That the heir is still there themselves is what finding 18 denies.
- `LifecycleOnlyForward`: an action property, by cases on the step.
- `KommonsImplementsLedger`: the refinement. Under the mapping every action is a
  ledger step or a stutter, one lemma per ledger action; it needs
  `SettlementInv` to know that what a close refunds is the whole escrow.

`TokenSettlementProofs`, for any jobs in any interleaving of their statements, with any
number of rollbacks, deadlocks and kills:

- `TypeCorrect`, `AuthorPaidOnce` and `EveryBalanceReconciles`, from `Inv`. Its core is `JobInv`, what a
  job relies on whatever the others do: it is on its operation's path (`OnPath`); it
  holds its proposal's lock or none (`Locking`); the status it found under that lock still
  stands, and it has written only balances it has locked (`Drafting`); the movement it
  is making is one of its operation (`Moving`, `Paying`); and the balances it would commit are
  the committed ones and its own movements (`Balanced`). All of it is about rows the job
  has locked, so another job's step leaves it alone: that is the lemma `OthersKeep`,
  and it is why one deals with one job at a time. That no balance goes negative is a
  consequence (`TypeOK`), as is that a commit adds to each balance what it puts on record.
- `EveryStakeComesHome`, `NobodyRefundedTwice`, `NothingLockedBehindGone` and the refinement
  `SettlementImplementsLedger`, from `SettlementInv`, which adds what the refunds rely on:
  every backer of the proposal that is being settled is due the whole stake, in hand, or
  paid on record and in the draft together (`Accounted`), what a deletion loaded was so
  once (`Loaded`), and what it has passed is settled (`Visited`). These four assume
  `OneSettles`: whoever deletes their account has no other deletion and no close running.
  The code does not see to that, and without it finding 3 is what happens; with it two
  jobs are never at one proposal's tokens (`NoRivals`). So finding 3 is the only way
  in which the statements of these operations break what the ledger promises.

`StreamSubscriptionsProofs`, for any connections, streams, channels and any number of
requests awaiting an answer, from the assumptions named in `StreamSubscriptions` (a
stream has a channel; system channels are no stream's, and a token's is not an
account's; there is a name for a listener):

- `TypesHold` and `IndexHolds`: from `IndexInv`, which is `TypeOK`, `Indexed` and
  `Unstarted` (a connection that is not up yet has nothing). `Indexed` is what the
  code relies on and nowhere says: a session's entry is called for each channel of
  its stream, nothing else is called, and a heartbeat runs for each stream. The
  changes of the index are three, `Attach`, `Remove` and `AttachSystem`, and each
  has a lemma. It holds whatever order answers come in and also after a close:
  finding 11 is an entry added late, not a disagreement.
- `ClosingTakesAll`: because `Indexed` says that what is called for a connection is under
  one of its entries.
- `RedisFollows`: a channel's last command on the wire, or what Redis did last, is what
  its list of listeners calls for.
- `AudienceImplemented`: the refinement to `StreamAudience`. What `Receive` reaches is
  computed from listeners, what the audience is from sessions; `Indexed` makes them one.

`TaskHandover`, for any tasks and requests (the last section of `KommonsProofs`, which has the
board and its hand-over together):

- `NoHandoverIsLost`, `ProposerToldOnce`: from `HandoverInv`. The strengthening is
  `TipperOnTheWay`: while all is done and the proposal still on the board, whoever
  changed the task that made it so is at the check or at `action!`; and `Fresh`: until then no
  request has seen it decided. Tasks may be added as done at any moment; that such a
  list is handed over is not meant, and is false (finding 19).

`KrewsProofs`, for any people. Three theorems are for any number of requests at once, and say
what the counter cache's row is worth:

- `CountIsRight`: `SeatsCounted`, from `RowInv`. Its core is `RowKept`: a transaction that
  has counted a member out and not committed is the only one, and that member is
  still there. So a step that changes the members either has the row to itself
  (`RowTaken`) or changes nobody (`SamePeople`).
- `NeverSitsEmpty`: `NeverEmpty`, where nobody takes a request back from a projekt's page. It needs
  `LastKnown`: whether the one on the way out was the last cannot change before the
  commit, because nobody else has the row. The assumption is what finding 9 breaks.
- `Types`: `TypeOK`; that the count is a natural number is a consequence of `RowInv`.

The rest need `OneThread`, that one request ends before the next begins. The code
does not guarantee it, and findings 7 to 9 say what two at once can do; the theorems say
that the rules themselves are right. `PeopleInv` says that what a job has loaded is still so
(`UpToDate`), that nobody in the Krew is asking, that the projekt's people are the Krew's,
and that whoever has a place in the chat is in the Krew or about to lose it.
`NoMemberWaits`, `SamePeopleInBoth`, `NoLurkers`, `NobodyIsForceAdded`, `NobodyArchivesOthers` and
`NeverSitsEmptyAlone` (with requests taken back) follow.

`WachuneedProofs`, for any listings, buyers, times, threads and number of requests made,
their steps in any order:

- `NobodyWaitsTwice` and `NoTimeHeldTwice`, from `RequestsInv`: both properties, that two jobs in
  each other's way are remembered in `crossed`, and that what a job has loaded or
  checked is still so unless a crossing of the kind that undoes it is: among it that
  there is no clash with what is about to be written.
- `NoSecondAnswer`, `NoListingMovesBack`: action properties, from the same invariant.

`DraftsProofs`, for any number of openings, texts and kinds of trouble:

- `TypeCorrect`: `TypeOK`, with `Sound`: a call under way is of the save at the head of its chain,
  and is forgotten only if that save is; what is discarded comes after what it follows.
- `DraftKeepsItsWork`: `OwnWork`, until the writer goes on while a draft asked for waits
  (`switch`); requests may fail, the tab close, and the writer open the composer too early,
  write before its drafts are back and close it at once. Each mount goes on with
  one id while works change under it, so the invariant `OwnInv` says two things of it.
  `InOrder`: what waits to be saved, and is meant to be, is of the work in hand, because a
  load waits behind every save and nothing is queued behind a load. `Owned`: each id held
  anywhere (by the mount, its call, its list, a load in its chain, the device) is of a
  draft that was made, and if the server still has it, of the work it is held with. The
  lemmas follow the hook: one for each of its parts (`FlushIs`, `WrittenIs`, `LoadIs`, ...), one
  for each step (`OpenMoves`, ...), and one for what each does to the invariant (`OwnFlushed`,
  ...). `OwnersStay` is why a mount that does not move keeps it: an id's work never changes.
- `NoDraftTwice`, `GoneStaysGone` and `WrittenIsKept`: `OnceUntroubled`, `GoneUntroubled` and
  `NothingLostUntroubled`, which speak of a writer for whom nothing has failed or come in the
  way, so from `Calm`, that `CalmInv` holds while `trouble` is empty. Then one composer at a time is open or
  busy (`OneBusy`), and two things are said of that one. `Held`: the work in hand has no draft,
  or one whose id is known or on its way (`Hand`); a call under way is of that draft or of
  one that was forgotten (`Asked`); what is listed, and what waits to be loaded, is on the
  server (`Offered`, `Awaited`); a timer is set for what was typed (`Timed`); and what will be
  saved last is what the writer wants (`Newest`). `World`: the drafts about to be
  deleted are those of works that are gone (`Doom`), the server has what is wanted or is about to
  (`Latest`), and the device's copy is of something saved, or about to be, or goes (`Left`).
  That no work has two drafts is part of the invariant, because `Hand` needs it and keeps it;
  the other two are what `World` says once nothing is ahead. TLC checked `CalmInv` as an invariant
  before it was proved, and no bound of that run is in the theorems.

`HomeTimelineProofs`, for any number of statuses, any page, and any lengths at which the list is
cut:

- `HomeTyped`: `TypeOK`.
- `HomeSound`: `Sound`, which holds whatever was missed. `Wired`: updates are sent in the order
  they were published, what is deleted has left the feed, and once an update is on the wire all
  that the feed has after it is too. `Known`: nothing the client has or asks for is unpublished.
  `Answers`: an answer is newest first and of what was asked for.
- `NoneTwice`: `NothingTwice`. An answer replaces a slice of the list, and what stays on
  either side of the slice is left out of it; that an answer has nothing twice (`Answers`) is all
  else it needs, and not that the list is in order.
- `HolesShown`: `OtherHolesMarked`, for an account without pending items (`~Pending`; with them it
  is false, finding 16 and `MCHomePending.cfg`). The invariant is `Seen`: as long as `slips` is
  empty, `Whole` holds. `InOrder`: the statuses of the list are newest first. `Dense`: between two
  of them side by side the feed has nothing. `TopSeen`: while the stream is up, what the feed has
  above a head that is no gap is on the wire. `SinceKept` and `MaxKept`: the status a request
  goes on from is still in the list, or nothing was lost with it. `Complete`: of what was asked
  for, the feed has nothing within an answer that it lacks, what is newer is in the list or on
  the wire, and nothing is older unless the answer was cut. Each of the five slips is where one
  of these breaks. Answers that come to a list changed meanwhile are most of the proof: the slice
  they replace is found by two searches from the end, and the lemmas say what is before it,
  in it and after it.

Sequences. `Only` (a filter) is a recursive function of a place, so what it returns is proved by
taking the first place it would fail at: it picks its elements in the order of the list
(`Picks`). `LastPlace` is the greatest of a set of places, which is there because the set is finite.

Sums. `Reconciles` and the ledger's totals are sums over sets of any size, and
`MapThenSumSet` adds by choosing one element after another. `SumTheorems` proves what is needed of
it: a sum changes by what one summand does, is that of a smaller set and one more, and
sums of equal summands are equal. Induction over finite sets needs an
operator as a parameter; instead each lemma takes the smallest set it fails for,
which `FS_StrictSubsetOrderingWellFounded` gives, and shows that a smaller one fails too.
That is why `Accounts` and `Proposals` are assumed finite (`FiniteAssumption`), as tables are.

Model-checked only: liveness, which is beyond the prover (`DeletionUnlocks` and `KillsArrive` in
the runs, `EveryJobEnds` in `MCSettlementCross.cfg`). Every other property of a passing
run is a theorem, some under the assumption named with it.

## Not modelled

Notices, bus events and their routing are published after a commit and change no
state here. Attributes nothing else reads (titles, outcome notes, assignments) are
left out. In Wachuneed that is quantities, kinds, extras and prices, and who may see a
listing; in Krews, who may come in by which way (access is any member's to change
at any time, so each way is open), the Krew's other spaces, and accounts being
deleted. In the streaming server it is what a message is and the filtering of
updates (a lookup per message, whose answers may overtake one another), scopes,
metrics, and errors of Redis and the database. In the drafts it is uploads, versions of a
composer's fields, drafts of other composers and devices, and the limit of 50. In
the home timeline it is other timelines with their pending items, blocking, muting, a
feed being regenerated, and suggestions.

Whole components left out, and why:

- Kommons voting and challenges are retired and decide nothing. Two hazards stay in
  the code: a vote is checked against a proposal loaded before it was decided, and
  two saves of one block's conditions may leave both sets.
- Mates are two follows in two transactions; a failure between them leaves one direction.
  The follows are Mastodon's own and federated: a model of the two services alone
  would say no more than this sentence.
- Nudges' events and messages are rows written once; a late mark-read can move a read
  pointer backwards, which is one assignment. Places in a Krew's chat are in `Krews`.
- Huddle and Booth hold a room until it is idle; the media is an external service's.
- Home feeds on the server, federation, statuses, administration: inherited from Mastodon.
- Rose, Albutts, Moments, Kalendar, Map and Kuestions are records with owners, created, edited and
  deleted, with little interaction.
- The rest of the web client shows the server's state and has no authority over it.
- A request in flight when its account is suspended is not in `TokenSettlement`: it could create
  a proposal after the deletion's pass has looked.

`PROJECT.json` lists each part with the reason.

## What could follow

`Drafts` with two devices; the filtering of updates in the
streaming server, and account deletion in a Krew.
