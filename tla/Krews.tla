--------------------------------- MODULE Krews ---------------------------------
(***************************************************************************)
(* One Krew: its members, those asking to join, its chat and its projekt.  *)
(*                                                                         *)
(* A web thread loads and checks, then writes in a transaction, then, once *)
(* that is committed, runs the subscribers to what it published.  Other    *)
(* threads run in between.  A write that adds or removes a member takes    *)
(* the Krew's row, because krews.member_count is its counter cache, and    *)
(* keeps it until it commits: nothing else locks.                          *)
(*                                                                         *)
(* Who may come in (access, which any member changes at any time, the      *)
(* invite link, requirements, blocks) is left out: each way in is open.    *)
(* So are the Krew's other spaces, and accounts being deleted.             *)
(***************************************************************************)
EXTENDS Integers, FiniteSets

CONSTANTS
  Accounts,   \* people on Kronk
  Threads,    \* web threads
  Explored    \* the requests people make

Requests == {"join", "ask", "back out", "accept", "decline", "invite", "answer",
             "leave", "archive", "chat", "seed", "remove"}

ASSUME AccountsAssumption == IsFiniteSet(Accounts) /\ Accounts # {}
ASSUME ExploredAssumption == Explored \subseteq Requests

VARIABLES
  archived,   \* krews.archived_at is set
  members,    \* krew_memberships
  count,      \* krews.member_count
  asks,       \* krew_join_requests
  projekt,    \* there is a projekt living in the Krew
  dreamers,   \* freethedream_memberships of that projekt
  chat,       \* nudges_conversation_memberships: "none", "pending" or "active"
  thread      \* what each thread is doing, with what it loaded

krew == <<archived, members, count, asks>>
dream == <<projekt, dreamers>>
vars == <<krew, dream, chat, thread>>

Idle == [op |-> "idle"]
Does(t, job) == thread' = [thread EXCEPT ![t] = job]
Ends(t) == Does(t, Idle)

\* KrewsController#create: whoever gathered the Krew is in it.
Init ==
  /\ archived = FALSE
  /\ \E a \in Accounts :
       /\ members = {a}
       /\ chat = [b \in Accounts |-> IF b = a THEN "active" ELSE "none"]
  /\ count = 1
  /\ asks = {}
  /\ projekt = FALSE /\ dreamers = {}
  /\ thread = [t \in Threads |-> Idle]

Begins(t, request, job) ==
  /\ request \in Explored
  /\ thread[t] = Idle
  /\ Does(t, job)
  /\ UNCHANGED <<krew, dream, chat>>

\* A transaction that counted a member out and has not committed yet.
CountedOut(u) == thread[u].op \in {"leaving", "committing"} /\ thread[u].counted

\* No other transaction keeps the Krew's row.
RowFree(t) == \A u \in Threads \ {t} : ~CountedOut(u)

--------------------------------------------------------------------------------
(* Coming in. *)

\* KrewsController#join, by any way the Krew allows.
LoadJoin(t, a) ==
  /\ a \notin members /\ ~archived
  /\ Begins(t, "join", [op |-> "enter", who |-> a, way |-> "join"])

\* ProjectsController#join: the projekt's page lets people into its Krew.
LoadJoinProjekt(t, a) ==
  /\ projekt
  /\ Begins(t, "join", [op |-> "enter", who |-> a, way |-> "projekt"])

\* ConversationsController#accept_invite.
LoadAnswer(t, a) ==
  /\ chat[a] = "pending"
  /\ Begins(t, "answer", [op |-> "enter", who |-> a, way |-> "invite"])

\* Altered (for the NobodyForceAdded mutant): whoever it is about.
WaitsOrNot(a) == TRUE

Waits(a) == a \in asks

\* JoinRequestsController#accept, by a member.
LoadAccept(t, a) ==
  /\ Waits(a)
  /\ members # {} /\ ~archived
  /\ Begins(t, "accept", [op |-> "enter", who |-> a, way |-> "request"])

\* RequestsController#accept, by someone in the projekt.
LoadAcceptProjekt(t, a) ==
  /\ Waits(a)
  /\ dreamers # {}
  /\ Begins(t, "accept", [op |-> "enter", who |-> a, way |-> "request"])

\* Altered (for the SeatsCounted mutant): a member coming in again is counted again.
NewAgain(a) == {a}

New(a) == {a} \ members

Cleared(j) == New(j.who)

\* Altered (for the RequestsAnswered mutant): only the request accepted goes.
AnsweredByRequest(j) == IF j.way = "request" THEN {j.who} ELSE {}

\* accept! destroys the request accepted, clear_join_request that of a new member.
Answered(j) == Cleared(j) \cup IF j.way = "request" THEN {j.who} ELSE {}

\* add_member! leaves someone in the projekt as they are.
NothingToDo(j) == j.way = "projekt" /\ (~projekt \/ j.who \in dreamers)

\* A KrewMembership is created unless there is one; it joins the projekt and answers
\* the request, and the invite is marked accepted if it is still there.
Enter(t) ==
  /\ thread[t].op = "enter"
  /\ LET j == thread[t]
         new == New(j.who)
     IN IF NothingToDo(j) THEN Ends(t) /\ UNCHANGED <<krew, dream, chat>>
        ELSE
        /\ new # {} => RowFree(t)
        /\ members' = members \cup new
        /\ count' = count + Cardinality(new)
        /\ asks' = asks \ Answered(j)
        /\ dreamers' = IF projekt /\ (new # {} \/ j.way = "projekt")
                       THEN dreamers \cup {j.who} ELSE dreamers
        /\ chat' = IF j.way = "invite" /\ chat[j.who] = "pending"
                   THEN [chat EXCEPT ![j.who] = "active"] ELSE chat
        /\ IF new = {} THEN Ends(t) ELSE Does(t, [op |-> "joined", who |-> new])
        /\ UNCHANGED <<archived, projekt>>

--------------------------------------------------------------------------------
(* Asking, and taking it back. *)

\* KrewsController#join that has to ask: request_to_join.
LoadAsk(t, a) ==
  /\ a \notin members /\ ~archived
  /\ Begins(t, "ask", [op |-> "ask", who |-> a])

\* Project#ask_to_join!, from the projekt's page.
LoadAskProjekt(t, a) ==
  /\ projekt /\ a \notin dreamers
  /\ Begins(t, "ask", [op |-> "ask", who |-> a])

WriteAsk(t) ==
  /\ thread[t].op = "ask"
  /\ asks' = asks \cup {thread[t].who}
  /\ Ends(t)
  /\ UNCHANGED <<archived, members, count, dream, chat>>

\* JoinRequestsController#destroy by the asker, #decline by a member.
DropRequest(t, a) ==
  /\ thread[t] = Idle
  /\ a \in asks
  /\ "back out" \in Explored \/ ("decline" \in Explored /\ members # {})
  /\ asks' = asks \ {a}
  /\ UNCHANGED <<archived, members, count, dream, chat, thread>>

\* ProjectsController#leave: for someone who is not in the projekt.
LoadBackOut(t, a) ==
  /\ projekt /\ a \notin dreamers
  /\ Begins(t, "back out", [op |-> "back out", who |-> a])

\* Project#remove_member!: someone in the projekt by now leaves the Krew too, and the
\* Krew is not archived.
WriteBackOut(t) ==
  /\ thread[t].op = "back out"
  /\ LET a == thread[t].who
         left == {a} \cap dreamers \cap members
     IN /\ left # {} => RowFree(t)
        /\ asks' = asks \ {a}
        /\ dreamers' = dreamers \ {a}
        /\ members' = members \ left
        /\ count' = count - Cardinality(left)
        /\ IF left = {} THEN Ends(t) ELSE Does(t, [op |-> "left", who |-> a])
  /\ UNCHANGED <<archived, projekt, chat>>

--------------------------------------------------------------------------------
(* Leaving and archiving. *)

\* KrewsController#leave, by a member.
LoadLeave(t, a) ==
  /\ a \in members
  /\ Begins(t, "leave", [op |-> "leave", who |-> a, page |-> "krew"])

\* ConversationsController#leave, by someone in the chat.
LoadLeaveChat(t, a) ==
  /\ chat[a] = "active"
  /\ Begins(t, "leave", [op |-> "leave", who |-> a, page |-> "chat"])

\* Altered (for the OnePeople mutant): leaving the Krew is not leaving its projekt.
StaysInProjekt == FALSE

LeavesProjekt == projekt

\* Krew#leave!: the membership goes, the Krew's count with it, and the projekt's
\* membership if there is a projekt to be seen.  Nobody sees that yet.
LeaveDelete(t) ==
  /\ thread[t].op = "leave"
  /\ LET j == thread[t]
         there == j.who \in members
     IN /\ there => RowFree(t)
        /\ Does(t, [op |-> "leaving", who |-> j.who, page |-> j.page, counted |-> there,
                    dreams |-> there /\ LeavesProjekt])
  /\ UNCHANGED <<krew, dream, chat>>

Seats(j) == IF j.counted THEN 1 ELSE 0

Remaining(j) == IF j.counted THEN members \ {j.who} ELSE members

\* Altered (for a NeverEmpty mutant): asked before the membership goes.
LastOutAskedFirst(j) == members = {}

LastOut(j) == Remaining(j) = {}

\* krew_memberships.none? sees what is committed, and what this transaction deleted.
LeaveLook(t) ==
  /\ thread[t].op = "leaving"
  /\ LET j == thread[t]
     IN Does(t, [op |-> "committing", who |-> j.who, page |-> j.page, counted |-> j.counted,
                 dreams |-> j.dreams, last |-> LastOut(j)])
  /\ UNCHANGED <<krew, dream, chat>>

\* The last one out archives the Krew, and the transaction commits.
LeaveCommit(t) ==
  /\ thread[t].op = "committing"
  /\ LET j == thread[t]
     IN /\ j.last => RowFree(t)
        /\ members' = Remaining(j)
        /\ count' = count - Seats(j)
        /\ archived' = (archived \/ j.last)
        /\ asks' = IF j.dreams THEN asks \ {j.who} ELSE asks
        /\ dreamers' = IF j.dreams THEN dreamers \ {j.who} ELSE dreamers
        /\ chat' = IF j.page = "chat" THEN [chat EXCEPT ![j.who] = "none"] ELSE chat
        /\ IF j.counted THEN Does(t, [op |-> "left", who |-> j.who]) ELSE Ends(t)
  /\ UNCHANGED projekt

SoleMember(a) == members = {a}

\* KrewsController#destroy.
LoadArchive(t, a) ==
  /\ SoleMember(a)
  /\ Begins(t, "archive", [op |-> "archive", who |-> a])

WriteArchive(t) ==
  /\ thread[t].op = "archive"
  /\ RowFree(t)
  /\ archived' = TRUE
  /\ Ends(t)
  /\ UNCHANGED <<members, count, asks, dream, chat>>

--------------------------------------------------------------------------------
(* The chat. *)

\* A member opens the chat: Conversation.krew_for! loads the members, to give each a
\* place in it.
LoadChat(t) ==
  /\ members # {}
  /\ Begins(t, "chat", [op |-> "place", saw |-> members, invites |-> {}])

\* InvitesController#create: the same, and the person invited waits there.
LoadInvite(t, a) ==
  /\ members # {} /\ ~archived
  /\ a \notin members
  /\ Begins(t, "invite", [op |-> "place", saw |-> members, invites |-> {a}])

\* krews.member.joined: the same, and for whoever joined.
Joined(t) ==
  /\ thread[t].op = "joined"
  /\ Does(t, [op |-> "place", saw |-> members \cup thread[t].who, invites |-> {}])
  /\ UNCHANGED <<krew, dream, chat>>

\* Whoever has a place keeps it as it is.
Place(t) ==
  /\ thread[t].op = "place"
  /\ chat' = [a \in Accounts |->
       IF chat[a] # "none" THEN chat[a]
       ELSE IF a \in thread[t].saw THEN "active"
       ELSE IF a \in thread[t].invites THEN "pending" ELSE "none"]
  /\ Ends(t)
  /\ UNCHANGED <<krew, dream>>

\* Altered (for the ChatOnlyMembers mutant): an account that left the Krew keeps its place.
KeepsPlace(a) == chat

WithoutPlace(a) == [chat EXCEPT ![a] = "none"]

\* krews.member.left.
Left(t) ==
  /\ thread[t].op = "left"
  /\ chat' = WithoutPlace(thread[t].who)
  /\ Ends(t)
  /\ UNCHANGED <<krew, dream>>

\* ConversationsController#decline_invite.
DeclineInvite(t, a) ==
  /\ "answer" \in Explored
  /\ thread[t] = Idle
  /\ chat[a] = "pending"
  /\ chat' = WithoutPlace(a)
  /\ UNCHANGED <<krew, dream, thread>>

--------------------------------------------------------------------------------
(* The projekt. *)

\* ProjectsController#create, and what Project#join_krew_members! plucks.  One projekt
\* at a time is a bound: a Krew can hold several.
LoadSeed(t, a) ==
  /\ a \in members /\ ~archived
  /\ ~projekt /\ \A u \in Threads : thread[u].op # "seed"
  /\ Begins(t, "seed", [op |-> "seed", who |-> members])

\* Membership#join_krew: whoever is put in the projekt and is not in the Krew.
NotInKrew(who) == who \ members

\* Each becomes a dreamer, and Membership#join_krew sees to it that they are in the Krew.
Seed(t) ==
  /\ thread[t].op = "seed"
  /\ LET who == thread[t].who
         back == NotInKrew(who)
     IN /\ back # {} => RowFree(t)
        /\ projekt' = TRUE
        /\ dreamers' = who
        /\ members' = members \cup who
        /\ count' = count + Cardinality(back)
        /\ asks' = asks \ back
        /\ IF back = {} THEN Ends(t) ELSE Does(t, [op |-> "joined", who |-> back])
  /\ UNCHANGED <<archived, chat>>

\* ProjectsController#destroy by its owner: the Krew stays as it is.
RemoveProjekt(t) ==
  /\ "remove" \in Explored
  /\ thread[t] = Idle
  /\ projekt
  /\ projekt' = FALSE /\ dreamers' = {}
  /\ UNCHANGED <<krew, chat, thread>>

--------------------------------------------------------------------------------
Load(t) ==
  \/ \E a \in Accounts :
       \/ LoadJoin(t, a) \/ LoadJoinProjekt(t, a) \/ LoadAnswer(t, a) \/ DeclineInvite(t, a)
       \/ LoadAsk(t, a) \/ LoadAskProjekt(t, a) \/ LoadAccept(t, a) \/ LoadAcceptProjekt(t, a)
       \/ DropRequest(t, a) \/ LoadBackOut(t, a)
       \/ LoadLeave(t, a) \/ LoadLeaveChat(t, a) \/ LoadArchive(t, a)
       \/ LoadInvite(t, a) \/ LoadSeed(t, a)
  \/ LoadChat(t) \/ RemoveProjekt(t)

Write(t) ==
  \/ Enter(t) \/ WriteAsk(t) \/ WriteBackOut(t) \/ LeaveDelete(t) \/ LeaveLook(t) \/ LeaveCommit(t)
  \/ WriteArchive(t) \/ Joined(t) \/ Place(t) \/ Left(t) \/ Seed(t)

Next == \E t \in Threads : Load(t) \/ Write(t)

Spec == Init /\ [][Next]_vars

--------------------------------------------------------------------------------
(* Properties. *)

AllIdle == \A t \in Threads : thread[t] = Idle
InChat == {a \in Accounts : chat[a] = "active"}

\* Every variable has its type; the count never drops below zero.
TypeOK ==
  /\ archived \in BOOLEAN /\ projekt \in BOOLEAN
  /\ members \subseteq Accounts /\ asks \subseteq Accounts /\ dreamers \subseteq Accounts
  /\ count \in Nat
  /\ chat \in [Accounts -> {"none", "pending", "active"}]
  /\ \A t \in Threads : thread[t].op \in
       {"idle", "enter", "ask", "back out", "leave", "leaving", "committing", "archive",
        "joined", "place", "left", "seed"}

\* krews.member_count is how many members there are, however often one of them joins
\* or leaves at once.
SeatsCounted == count = Cardinality(members)

\* Krew#leave!: "The last one out archives the Krew, so it never sits with nobody in
\* it", also when the last ones leave at once.
NeverEmpty == members = {} => archived

\* KrewMembership: "However they got in, a request they had waiting is answered".
RequestsAnswered == asks \cap members = {}

\* KrewsController: "nobody is force-added": whoever becomes a member is coming in
\* themselves or has asked to.
NobodyForceAdded ==
  [][\A a \in members' \ members :
       \/ a \in asks
       \/ \E t \in Threads : /\ thread[t].op = "enter" /\ thread[t].who = a
                             /\ thread[t].way # "request" /\ thread'[t] # thread[t]]_vars

\* "The Krew's people are the emergence's people."
OnePeople == projekt /\ AllIdle => dreamers = members

\* ConversationsController: the chat is open only to "the Krew's members", once
\* whatever was under way is done.
ChatOnlyMembers == AllIdle => InChat \subseteq members

\* nudges.md: krews.member.joined "adds the member to the Krew chat".
MembersInChat == AllIdle => members \subseteq InChat

\* Krew: "only someone who is its only member can archive it".
ArchivedAlone == [][~archived /\ archived' => Cardinality(members') <= 1]_vars
================================================================================
