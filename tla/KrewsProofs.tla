------------------------------- MODULE KrewsProofs -------------------------------
(* Theorems about Krews, for any people: what the counter cache's row saves, for any      *)
(* number of threads, and what needs one request at a time.                               *)
EXTENDS Krews, FiniteSetTheorems, TLAPS

Enters == [op : {"enter"}, who : Accounts, way : {"join", "projekt", "invite", "request"}]
Asking == [op : {"ask", "back out", "archive", "left"}, who : Accounts]
Leaves == [op : {"leave"}, who : Accounts, page : {"krew", "chat"}]
Leavings == [op : {"leaving"}, who : Accounts, page : {"krew", "chat"}, counted : BOOLEAN,
             dreams : BOOLEAN]
Committings == [op : {"committing"}, who : Accounts, page : {"krew", "chat"},
                counted : BOOLEAN, dreams : BOOLEAN, last : BOOLEAN]
Places == [op : {"place"}, saw : SUBSET Accounts, invites : SUBSET Accounts]
Several == [op : {"joined", "seed"}, who : SUBSET Accounts]
Jobs == {Idle} \cup Enters \cup Asking \cup Leaves \cup Leavings \cup Committings
          \cup Places \cup Several

CountsOut(j) == j.op \in {"leaving", "committing"} /\ j.counted

Typed ==
  /\ members \subseteq Accounts /\ archived \in BOOLEAN /\ projekt \in BOOLEAN
  /\ thread \in [Threads -> Jobs]

\* A transaction that keeps the Krew's row counts out a member, and nobody else keeps it.
RowKept ==
  /\ \A t \in Threads : CountedOut(t) => thread[t].who \in members /\ RowFree(t)

\* Whether it was the last is still so when it commits.
LastKnown ==
  \A t \in Threads :
    thread[t].op = "committing" /\ thread[t].counted =>
      (thread[t].last <=> members \ {thread[t].who} = {})

RowInv == Typed /\ RowKept /\ LastKnown /\ SeatsCounted

--------------------------------------------------------------------------------
(* Jobs. *)

LEMMA JobParts ==
  ASSUME NEW j \in Jobs
  PROVE  /\ j.op = "enter" => j \in Enters
         /\ j.op \in {"ask", "back out", "archive", "left"} => j \in Asking
         /\ j.op = "leave" => j \in Leaves
         /\ j.op = "leaving" => j \in Leavings
         /\ j.op = "committing" => j \in Committings
         /\ j.op = "place" => j \in Places
         /\ j.op \in {"joined", "seed"} => j \in Several
<1>1. /\ \A k \in Enters : k.op = "enter"
      /\ \A k \in Asking : k.op \in {"ask", "back out", "archive", "left"}
      /\ \A k \in Leaves : k.op = "leave"
  BY DEF Enters, Asking, Leaves
<1>2. /\ \A k \in Leavings : k.op = "leaving"
      /\ \A k \in Committings : k.op = "committing"
  BY DEF Leavings, Committings
<1>3. /\ \A k \in Places : k.op = "place"
      /\ \A k \in Several : k.op \in {"joined", "seed"}
      /\ Idle.op = "idle"
  BY DEF Places, Several, Idle
<1> QED
  BY <1>1, <1>2, <1>3 DEF Jobs

LEMMA JobsMade ==
  /\ Idle \in Jobs /\ Idle.op = "idle"
  /\ \A a \in Accounts :
       /\ \A way \in {"join", "projekt", "invite", "request"} :
            [op |-> "enter", who |-> a, way |-> way] \in Jobs
       /\ \A op \in {"ask", "back out", "archive", "left"} : [op |-> op, who |-> a] \in Jobs
       /\ \A page \in {"krew", "chat"} : [op |-> "leave", who |-> a, page |-> page] \in Jobs
  /\ \A saw \in SUBSET Accounts, invites \in SUBSET Accounts :
       [op |-> "place", saw |-> saw, invites |-> invites] \in Jobs
  /\ \A who \in SUBSET Accounts, op \in {"joined", "seed"} : [op |-> op, who |-> who] \in Jobs
<1>1. Idle \in Jobs /\ Idle.op = "idle"
  BY DEF Jobs, Idle
<1>2. ASSUME NEW a \in Accounts, NEW way \in {"join", "projekt", "invite", "request"}
      PROVE  [op |-> "enter", who |-> a, way |-> way] \in Jobs
  <2>1. [op |-> "enter", who |-> a, way |-> way] \in Enters
    BY DEF Enters
  <2> QED
    BY <2>1 DEF Jobs
<1>3. ASSUME NEW a \in Accounts, NEW op \in {"ask", "back out", "archive", "left"}
      PROVE  [op |-> op, who |-> a] \in Jobs
  <2>1. [op |-> op, who |-> a] \in Asking
    BY DEF Asking
  <2> QED
    BY <2>1 DEF Jobs
<1>4. ASSUME NEW a \in Accounts, NEW page \in {"krew", "chat"}
      PROVE  [op |-> "leave", who |-> a, page |-> page] \in Jobs
  <2>1. [op |-> "leave", who |-> a, page |-> page] \in Leaves
    BY DEF Leaves
  <2> QED
    BY <2>1 DEF Jobs
<1>5. ASSUME NEW saw \in SUBSET Accounts, NEW invites \in SUBSET Accounts
      PROVE  [op |-> "place", saw |-> saw, invites |-> invites] \in Jobs
  <2>1. [op |-> "place", saw |-> saw, invites |-> invites] \in Places
    BY DEF Places
  <2> QED
    BY <2>1 DEF Jobs
<1>6. ASSUME NEW who \in SUBSET Accounts, NEW op \in {"joined", "seed"}
      PROVE  [op |-> op, who |-> who] \in Jobs
  <2>1. [op |-> op, who |-> who] \in Several
    BY DEF Several
  <2> QED
    BY <2>1 DEF Jobs
<1> QED
  BY <1>1, <1>2, <1>3, <1>4, <1>5, <1>6

LEMMA FiniteMembers == \A S : S \subseteq Accounts => IsFiniteSet(S)
BY AccountsAssumption, FS_Subset

LEMMA InitRow == Init => RowInv
<1> SUFFICES ASSUME Init PROVE RowInv
  OBVIOUS
<1>1. Typed
  BY JobsMade DEF Init, Typed
<1>2. RowKept /\ LastKnown
  BY DEF Init, RowKept, LastKnown, CountedOut, Idle
<1>3. SeatsCounted
  BY FS_Singleton DEF Init, SeatsCounted
<1> QED
  BY <1>1, <1>2, <1>3 DEF RowInv

--------------------------------------------------------------------------------
(* Steps that leave the members alone, and steps that need the Krew's row. *)

LEMMA SamePeople ==
  ASSUME RowInv, NEW t \in Threads, NEW j \in Jobs, Does(t, j), UNCHANGED <<members, count>>,
         archived' \in BOOLEAN, projekt' \in BOOLEAN,
         CountsOut(j) => j.who \in members /\ RowFree(t),
         j.op = "committing" /\ j.counted => (j.last <=> members \ {j.who} = {})
  PROVE  RowInv'
<1>1. thread' = [thread EXCEPT ![t] = j] /\ thread \in [Threads -> Jobs]
  BY DEF Does, RowInv, Typed
<1>2. Typed'
  BY <1>1 DEF RowInv, Typed
<1>3. \A u \in Threads : thread'[u] = IF u = t THEN j ELSE thread[u]
  BY <1>1
<1>4. \A u \in Threads : CountedOut(u)' <=> IF u = t THEN CountsOut(j) ELSE CountedOut(u)
  BY <1>3 DEF CountedOut, CountsOut
<1>5. RowKept'
  <2> SUFFICES ASSUME NEW u \in Threads, CountedOut(u)'
               PROVE  thread'[u].who \in members /\ RowFree(u)'
    BY DEF RowKept
  <2>1. CASE u = t
    BY <1>3, <1>4, <2>1 DEF RowFree
  <2>2. CASE u # t
    <3>1. CountedOut(u) /\ thread'[u] = thread[u]
      BY <1>3, <1>4, <2>2
    <3>2. thread[u].who \in members /\ RowFree(u)
      BY <3>1 DEF RowInv, RowKept
    <3>3. ~CountsOut(j)
      BY <2>2, <3>1 DEF RowFree
    <3> QED
      BY <1>4, <3>1, <3>2, <3>3 DEF RowFree
  <2> QED
    BY <2>1, <2>2
<1>6. LastKnown'
  BY <1>3 DEF RowInv, LastKnown
<1>7. SeatsCounted'
  BY DEF RowInv, SeatsCounted
<1> QED
  BY <1>2, <1>5, <1>6, <1>7 DEF RowInv

LEMMA RowTaken ==
  ASSUME RowInv, NEW t \in Threads, NEW j \in Jobs, Does(t, j), ~CountsOut(j), RowFree(t),
         members' \subseteq Accounts, count' = Cardinality(members'),
         archived' \in BOOLEAN, projekt' \in BOOLEAN
  PROVE  RowInv'
<1>1. thread' = [thread EXCEPT ![t] = j] /\ thread \in [Threads -> Jobs]
  BY DEF Does, RowInv, Typed
<1>2. \A u \in Threads : thread'[u] = IF u = t THEN j ELSE thread[u]
  BY <1>1
<1>3. \A u \in Threads : ~CountedOut(u)'
  BY <1>2 DEF CountedOut, CountsOut, RowFree
<1>4. Typed'
  BY <1>1 DEF RowInv, Typed
<1>5. RowKept' /\ LastKnown' /\ SeatsCounted'
  BY <1>3 DEF RowKept, LastKnown, SeatsCounted, CountedOut
<1> QED
  BY <1>4, <1>5 DEF RowInv

\* Loading changes no rows, but for a request, an invite or the projekt that goes.
LEMMA LoadBegins ==
  ASSUME Typed, NEW t \in Threads, Load(t)
  PROVE  /\ UNCHANGED <<members, count, archived>> /\ projekt' \in BOOLEAN
         /\ \/ UNCHANGED thread
            \/ \E j \in Jobs : /\ Does(t, j) /\ ~CountsOut(j) /\ j.op # "committing"
                               /\ j.op = "back out" => "back out" \in Explored
<1> DEFINE Begun(j) == /\ UNCHANGED <<members, count, archived, projekt>>
                       /\ Does(t, j)
<1> USE DEF Begins, krew, dream
<1>1. ASSUME NEW a \in Accounts,
             LoadJoin(t, a) \/ LoadJoinProjekt(t, a) \/ LoadAnswer(t, a) \/ LoadAccept(t, a)
               \/ LoadAcceptProjekt(t, a)
      PROVE  \E j \in Jobs : Begun(j) /\ j.op = "enter"
  <2>1. PICK way \in {"join", "projekt", "invite", "request"} :
          Begun([op |-> "enter", who |-> a, way |-> way])
    BY <1>1 DEF LoadJoin, LoadJoinProjekt, LoadAnswer, LoadAccept, LoadAcceptProjekt
  <2> QED
    BY <2>1, JobsMade
<1>2. ASSUME NEW a \in Accounts,
             LoadAsk(t, a) \/ LoadAskProjekt(t, a) \/ LoadBackOut(t, a) \/ LoadArchive(t, a)
      PROVE  \E j \in Jobs : /\ Begun(j) /\ j.op \in {"ask", "back out", "archive"}
                             /\ j.op = "back out" => "back out" \in Explored
  <2>1. PICK op \in {"ask", "back out", "archive"} :
          Begun([op |-> op, who |-> a]) /\ (op = "back out" => "back out" \in Explored)
    BY <1>2 DEF LoadAsk, LoadAskProjekt, LoadBackOut, LoadArchive
  <2> QED
    BY <2>1, JobsMade
<1>3. ASSUME NEW a \in Accounts, LoadLeave(t, a) \/ LoadLeaveChat(t, a)
      PROVE  \E j \in Jobs : Begun(j) /\ j.op = "leave"
  <2>1. PICK page \in {"krew", "chat"} : Begun([op |-> "leave", who |-> a, page |-> page])
    BY <1>3 DEF LoadLeave, LoadLeaveChat
  <2> QED
    BY <2>1, JobsMade
<1>4. ASSUME NEW a \in Accounts, LoadInvite(t, a)
      PROVE  \E j \in Jobs : Begun(j) /\ j.op = "place"
  <2>1. Begun([op |-> "place", saw |-> members, invites |-> {a}])
    BY <1>4 DEF LoadInvite
  <2>2. members \in SUBSET Accounts /\ {a} \in SUBSET Accounts
    BY DEF Typed
  <2> HIDE DEF Begun
  <2> QED
    BY <2>1, <2>2, JobsMade
<1>5. ASSUME LoadChat(t)
      PROVE  \E j \in Jobs : Begun(j) /\ j.op = "place"
  <2>1. Begun([op |-> "place", saw |-> members, invites |-> {}])
    BY <1>5 DEF LoadChat
  <2>2. members \in SUBSET Accounts /\ {} \in SUBSET Accounts
    BY DEF Typed
  <2> HIDE DEF Begun
  <2> QED
    BY <2>1, <2>2, JobsMade
<1>6. ASSUME NEW a \in Accounts, LoadSeed(t, a)
      PROVE  \E j \in Jobs : Begun(j) /\ j.op = "seed"
  <2>1. Begun([op |-> "seed", who |-> members])
    BY <1>6 DEF LoadSeed
  <2>2. members \in SUBSET Accounts
    BY DEF Typed
  <2> HIDE DEF Begun
  <2> QED
    BY <2>1, <2>2, JobsMade
<1>7. ASSUME NEW a \in Accounts, DropRequest(t, a) \/ DeclineInvite(t, a)
      PROVE  UNCHANGED <<members, count, archived, projekt, thread>>
  BY <1>7 DEF DropRequest, DeclineInvite
<1>8. ASSUME RemoveProjekt(t)
      PROVE  UNCHANGED <<members, count, archived, thread>> /\ projekt' = FALSE
  BY <1>8 DEF RemoveProjekt
<1> DEFINE Loads(j) ==
      /\ Begun(j)
      /\ j.op \in {"enter", "ask", "back out", "archive", "leave", "place", "seed"}
      /\ j.op = "back out" => "back out" \in Explored
<1>9. ASSUME NEW j \in Jobs, Loads(j)
      PROVE  /\ UNCHANGED <<members, count, archived>> /\ projekt' \in BOOLEAN
             /\ \E k \in Jobs : /\ Does(t, k) /\ ~CountsOut(k) /\ k.op # "committing"
                                /\ k.op = "back out" => "back out" \in Explored
  BY <1>9 DEF CountsOut, Typed
<1> HIDE DEF Begun
<1>10. CASE \E j \in Jobs : Loads(j)
  <2> HIDE DEF Loads
  <2> QED
    BY <1>9, <1>10
<1>11. CASE UNCHANGED <<members, count, archived, thread>> /\ projekt' \in BOOLEAN
  BY <1>11
<1> QED
  BY <1>1, <1>2, <1>3, <1>4, <1>5, <1>6, <1>7, <1>8, <1>10, <1>11 DEF Load, Typed

--------------------------------------------------------------------------------
(* Counting. *)

LEMMA CountIn ==
  ASSUME RowInv, NEW S \in SUBSET Accounts
  PROVE  Cardinality(members \cup S) = count + Cardinality(S \ members)
<1>1. members \cup S = members \cup (S \ members) /\ members \cap (S \ members) = {}
  OBVIOUS
<1>2. IsFiniteSet(members) /\ IsFiniteSet(S \ members)
  BY FiniteMembers DEF RowInv, Typed
<1>3. Cardinality(members) \in Nat /\ Cardinality(S \ members) \in Nat
  BY <1>2, FS_CardinalityType
<1>4. Cardinality(members \cup S)
        = Cardinality(members) + Cardinality(S \ members) - Cardinality({})
  BY <1>1, <1>2, FS_Union
<1> QED
  BY <1>3, <1>4, FS_EmptySet DEF RowInv, SeatsCounted

LEMMA CountOut ==
  ASSUME RowInv, NEW S \in SUBSET members
  PROVE  Cardinality(members \ S) = count - Cardinality(S)
<1>1. members \cap S = S /\ IsFiniteSet(members)
  BY FiniteMembers DEF RowInv, Typed
<1> QED
  BY <1>1, FS_Difference DEF RowInv, SeatsCounted

LEMMA NoneCounted == RowInv => count + Cardinality({}) = count /\ count - Cardinality({}) = count
<1> SUFFICES ASSUME RowInv PROVE count + Cardinality({}) = count /\ count - Cardinality({}) = count
  OBVIOUS
<1>1. count \in Nat
  BY FiniteMembers, FS_CardinalityType DEF RowInv, Typed, SeatsCounted
<1> QED
  BY <1>1, FS_EmptySet

--------------------------------------------------------------------------------
(* Writing. *)

LEMMA EnterKeeps ==
  ASSUME RowInv, NEW t \in Threads, Enter(t)
  PROVE  RowInv'
<1> DEFINE j == thread[t]
           new == New(j.who)
<1>1. j \in Enters /\ {j.who} \in SUBSET Accounts /\ archived \in BOOLEAN /\ projekt \in BOOLEAN
  <2>1. j \in Enters
    BY JobParts DEF Enter, RowInv, Typed
  <2> QED
    BY <2>1 DEF Enters, RowInv, Typed
<1>2. Idle \in Jobs /\ ~CountsOut(Idle) /\ Idle.op # "committing"
  BY JobsMade DEF CountsOut
<1>3. CASE NothingToDo(j)
  BY <1>1, <1>2, <1>3, SamePeople DEF Enter, Ends, krew, dream
<1>4. CASE ~NothingToDo(j) /\ new = {}
  <2>1. members' = members /\ count' = count /\ Ends(t) /\ UNCHANGED <<archived, projekt>>
    BY <1>4, NoneCounted DEF Enter
  <2> QED
    BY <1>1, <1>2, <2>1, SamePeople DEF Ends
<1>5. CASE ~NothingToDo(j) /\ new # {}
  <2> DEFINE k == [op |-> "joined", who |-> new]
  <2>1. k \in Jobs /\ ~CountsOut(k)
    BY <1>1, JobsMade DEF CountsOut, New
  <2>2. /\ RowFree(t) /\ Does(t, k) /\ UNCHANGED <<archived, projekt>>
        /\ members' = members \cup new /\ count' = count + Cardinality(new)
    BY <1>5 DEF Enter
  <2>3. count' = Cardinality(members')
    BY <1>1, <2>2, CountIn DEF New
  <2>4. members' \subseteq Accounts
    BY <1>1, <2>2 DEF New, RowInv, Typed
  <2> HIDE DEF k, new
  <2> QED
    BY <1>1, <2>1, <2>2, <2>3, <2>4, RowTaken
<1> QED
  BY <1>3, <1>4, <1>5

LEMMA SeedKeeps ==
  ASSUME RowInv, NEW t \in Threads, Seed(t)
  PROVE  RowInv'
<1> DEFINE who == thread[t].who
           back == NotInKrew(who)
<1>1. who \in SUBSET Accounts /\ archived \in BOOLEAN
  <2>1. thread[t] \in Several
    BY JobParts DEF Seed, RowInv, Typed
  <2> QED
    BY <2>1 DEF Several, RowInv, Typed
<1>2. Idle \in Jobs /\ ~CountsOut(Idle) /\ Idle.op # "committing"
  BY JobsMade DEF CountsOut
<1>3. /\ members' = members \cup who /\ count' = count + Cardinality(back)
      /\ archived' = archived /\ projekt' = TRUE
  BY DEF Seed
<1>4. CASE back = {}
  <2>1. members' = members /\ count' = count /\ Ends(t)
    BY <1>3, <1>4, NoneCounted DEF Seed, NotInKrew
  <2> QED
    BY <1>1, <1>2, <1>3, <2>1, SamePeople DEF Ends
<1>5. CASE back # {}
  <2> DEFINE k == [op |-> "joined", who |-> back]
  <2>1. k \in Jobs /\ ~CountsOut(k)
    BY <1>1, JobsMade DEF CountsOut, NotInKrew
  <2>2. RowFree(t) /\ Does(t, k)
    BY <1>5 DEF Seed
  <2>3. count' = Cardinality(members')
    BY <1>1, <1>3, CountIn DEF NotInKrew
  <2>4. members' \subseteq Accounts
    BY <1>1, <1>3 DEF RowInv, Typed
  <2> HIDE DEF k, back
  <2> QED
    BY <1>1, <1>3, <2>1, <2>2, <2>3, <2>4, RowTaken
<1> QED
  BY <1>4, <1>5

LEMMA BackOutKeeps ==
  ASSUME RowInv, NEW t \in Threads, WriteBackOut(t)
  PROVE  RowInv'
<1> DEFINE a == thread[t].who
           left == {a} \cap dreamers \cap members
<1>1. a \in Accounts /\ archived \in BOOLEAN /\ projekt \in BOOLEAN
  <2>1. thread[t] \in Asking
    BY JobParts DEF WriteBackOut, RowInv, Typed
  <2> QED
    BY <2>1 DEF Asking, RowInv, Typed
<1>2. Idle \in Jobs /\ ~CountsOut(Idle) /\ Idle.op # "committing"
  BY JobsMade DEF CountsOut
<1>3. /\ members' = members \ left /\ count' = count - Cardinality(left)
      /\ UNCHANGED <<archived, projekt>>
  BY DEF WriteBackOut
<1>4. CASE left = {}
  <2>1. members' = members /\ count' = count /\ Ends(t)
    BY <1>3, <1>4, NoneCounted DEF WriteBackOut
  <2> QED
    BY <1>1, <1>2, <1>3, <2>1, SamePeople DEF Ends
<1>5. CASE left # {}
  <2> DEFINE k == [op |-> "left", who |-> a]
  <2>1. k \in Jobs /\ ~CountsOut(k)
    BY <1>1, JobsMade DEF CountsOut
  <2>2. RowFree(t) /\ Does(t, k)
    BY <1>5 DEF WriteBackOut
  <2>3. count' = Cardinality(members')
    BY <1>3, CountOut
  <2>4. members' \subseteq Accounts
    BY <1>3 DEF RowInv, Typed
  <2> HIDE DEF k, left
  <2> QED
    BY <1>1, <1>3, <2>1, <2>2, <2>3, <2>4, RowTaken
<1> QED
  BY <1>4, <1>5

\* Deleting takes the row of whoever was there, and looking keeps it.
LEMMA LeaveDeleteKeeps ==
  ASSUME RowInv, NEW t \in Threads, LeaveDelete(t)
  PROVE  RowInv'
<1> DEFINE j == thread[t]
           there == j.who \in members
           k == [op |-> "leaving", who |-> j.who, page |-> j.page, counted |-> there,
                 dreams |-> there /\ LeavesProjekt]
<1>1. j \in Leaves
  BY JobParts DEF LeaveDelete, RowInv, Typed
<1>2. there \in BOOLEAN /\ (there /\ LeavesProjekt) \in BOOLEAN
  BY DEF LeavesProjekt, RowInv, Typed
<1>3. j.who \in Accounts /\ j.page \in {"krew", "chat"}
  BY <1>1 DEF Leaves
<1>4. k \in Leavings
  <2> HIDE DEF there
  <2> QED
    BY <1>2, <1>3 DEF Leavings
<1>5. k \in Jobs
  <2> HIDE DEF k
  <2> QED
    BY <1>4 DEF Jobs
<1>6. /\ Does(t, k) /\ UNCHANGED <<members, count, archived, projekt>>
      /\ there => RowFree(t)
  BY DEF LeaveDelete, krew, dream
<1>7. k.op = "leaving" /\ k.who = j.who /\ k.counted = there
  OBVIOUS
<1>8. CountsOut(k) => k.who \in members /\ RowFree(t)
  BY <1>6, <1>7 DEF CountsOut
<1>9. archived' \in BOOLEAN /\ projekt' \in BOOLEAN
  BY <1>6 DEF RowInv, Typed
<1> HIDE DEF k
<1> QED
  BY <1>5, <1>6, <1>7, <1>8, <1>9, SamePeople

LEMMA LeaveLookKeeps ==
  ASSUME RowInv, NEW t \in Threads, LeaveLook(t)
  PROVE  RowInv'
<1> DEFINE j == thread[t]
           k == [op |-> "committing", who |-> j.who, page |-> j.page, counted |-> j.counted,
                 dreams |-> j.dreams, last |-> LastOut(j)]
<1>1. j \in Leavings /\ j.op = "leaving"
  BY JobParts DEF LeaveLook, RowInv, Typed
<1>2. /\ j.who \in Accounts /\ j.page \in {"krew", "chat"}
      /\ j.counted \in BOOLEAN /\ j.dreams \in BOOLEAN
  BY <1>1 DEF Leavings
<1>3. LastOut(j) \in BOOLEAN /\ (j.counted => (LastOut(j) <=> members \ {j.who} = {}))
  BY DEF LastOut, Remaining
<1>4. k \in Committings
  BY <1>2, <1>3 DEF Committings
<1>5. k \in Jobs
  <2> HIDE DEF k
  <2> QED
    BY <1>4 DEF Jobs
<1>6. Does(t, k) /\ UNCHANGED <<members, count, archived, projekt>>
  BY DEF LeaveLook, krew, dream
<1>7. k.op = "committing" /\ k.who = j.who /\ k.counted = j.counted /\ k.last = LastOut(j)
  OBVIOUS
<1>8. CountsOut(k) => k.who \in members /\ RowFree(t)
  BY <1>1, <1>7 DEF CountsOut, CountedOut, RowInv, RowKept
<1>9. archived' \in BOOLEAN /\ projekt' \in BOOLEAN
  BY <1>6 DEF RowInv, Typed
<1>10. k.op = "committing" /\ k.counted => (k.last <=> members \ {k.who} = {})
  BY <1>3, <1>7
<1> HIDE DEF k
<1> QED
  BY <1>5, <1>6, <1>8, <1>9, <1>10, SamePeople

\* Whoever was counted out goes as the row is let go.
LEMMA LeaveCommitKeeps ==
  ASSUME RowInv, NEW t \in Threads, LeaveCommit(t)
  PROVE  RowInv'
<1> DEFINE j == thread[t]
<1>1. j \in Committings /\ j.op = "committing"
  BY JobParts DEF LeaveCommit, RowInv, Typed
<1>2. j.who \in Accounts /\ j.counted \in BOOLEAN /\ j.last \in BOOLEAN
  BY <1>1 DEF Committings
<1>3. archived' \in BOOLEAN /\ projekt' \in BOOLEAN
  BY <1>2 DEF LeaveCommit, RowInv, Typed
<1>4. CASE ~j.counted
  <2>1. members' = members /\ count' = count - 0 /\ Ends(t)
    BY <1>4 DEF LeaveCommit, Remaining, Seats
  <2>2. count' = count
    BY <2>1, NoneCounted, FS_EmptySet
  <2>3. Idle \in Jobs /\ ~CountsOut(Idle) /\ Idle.op # "committing"
    BY JobsMade DEF CountsOut
  <2> QED
    BY <1>3, <2>1, <2>2, <2>3, SamePeople DEF Ends
<1>5. CASE j.counted
  <2> DEFINE k == [op |-> "left", who |-> j.who]
  <2>1. k \in Jobs /\ ~CountsOut(k)
    BY <1>2, JobsMade DEF CountsOut
  <2>2. members' = members \ {j.who} /\ count' = count - 1 /\ Does(t, k)
    BY <1>5 DEF LeaveCommit, Remaining, Seats
  <2>3. j.who \in members /\ RowFree(t)
    BY <1>1, <1>5 DEF CountedOut, RowInv, RowKept
  <2>4. count' = Cardinality(members')
    <3>1. {j.who} \in SUBSET members /\ Cardinality({j.who}) = 1
      BY <2>3, FS_Singleton
    <3> HIDE DEF j
    <3> QED
      BY <2>2, <3>1, CountOut
  <2>5. members' \subseteq Accounts
    BY <2>2 DEF RowInv, Typed
  <2> HIDE DEF k
  <2> QED
    BY <1>3, <2>1, <2>2, <2>3, <2>4, <2>5, RowTaken
<1> QED
  BY <1>2, <1>4, <1>5

\* What asks, archives or gives and takes places in the chat has no members to count.
LEMMA OthersKeep ==
  ASSUME RowInv, NEW t \in Threads,
         WriteAsk(t) \/ WriteArchive(t) \/ Joined(t) \/ Place(t) \/ Left(t)
  PROVE  RowInv'
<1>1. UNCHANGED <<members, count, projekt>> /\ archived' \in BOOLEAN /\ projekt' \in BOOLEAN
  BY DEF WriteAsk, WriteArchive, Joined, Place, Left, krew, dream, RowInv, Typed
<1>2. CASE WriteAsk(t) \/ WriteArchive(t) \/ Place(t) \/ Left(t)
  <2>1. Does(t, Idle)
    BY <1>2 DEF WriteAsk, WriteArchive, Place, Left, Ends
  <2>2. Idle \in Jobs /\ ~CountsOut(Idle) /\ Idle.op # "committing"
    BY JobsMade DEF CountsOut
  <2> QED
    BY <1>1, <2>1, <2>2, SamePeople
<1>3. CASE Joined(t)
  <2> DEFINE k == [op |-> "place", saw |-> members \cup thread[t].who, invites |-> {}]
  <2>1. thread[t] \in Several
    BY <1>3, JobParts DEF Joined, RowInv, Typed
  <2>2. members \cup thread[t].who \in SUBSET Accounts /\ {} \in SUBSET Accounts
    BY <2>1 DEF Several, RowInv, Typed
  <2>3. k \in Jobs /\ ~CountsOut(k) /\ k.op # "committing"
    BY <2>2, JobsMade DEF CountsOut
  <2>4. Does(t, k)
    BY <1>3 DEF Joined
  <2> HIDE DEF k
  <2> QED
    BY <1>1, <2>3, <2>4, SamePeople
<1> QED
  BY <1>2, <1>3

LEMMA StepRow == RowInv /\ [Next]_vars => RowInv'
<1> SUFFICES ASSUME RowInv, [Next]_vars PROVE RowInv'
  OBVIOUS
<1>1. CASE UNCHANGED vars
  BY <1>1 DEF vars, krew, dream, RowInv, Typed, RowKept, LastKnown, SeatsCounted, CountedOut,
              RowFree
<1>2. ASSUME NEW t \in Threads, Load(t) PROVE RowInv'
  <2>1. /\ UNCHANGED <<members, count, archived>> /\ projekt' \in BOOLEAN
        /\ archived' \in BOOLEAN
    BY <1>2, LoadBegins DEF RowInv, Typed
  <2>2. CASE UNCHANGED thread
    BY <2>1, <2>2 DEF RowInv, Typed, RowKept, LastKnown, SeatsCounted, CountedOut, RowFree
  <2>3. CASE \E j \in Jobs : Does(t, j) /\ ~CountsOut(j) /\ j.op # "committing"
    BY <2>1, <2>3, SamePeople
  <2> QED
    BY <1>2, <2>2, <2>3, LoadBegins DEF RowInv
<1>3. ASSUME NEW t \in Threads, Write(t) PROVE RowInv'
  BY <1>3, EnterKeeps, SeedKeeps, BackOutKeeps, LeaveDeleteKeeps, LeaveLookKeeps,
     LeaveCommitKeeps, OthersKeep DEF Write
<1> QED
  BY <1>1, <1>2, <1>3 DEF Next

\* krews.member_count is how many members there are, however many requests at once: what
\* counts someone in or out keeps the Krew's row until it commits.
THEOREM CountIsRight == Spec => []SeatsCounted
<1>1. RowInv => SeatsCounted
  BY DEF RowInv
<1> QED
  BY <1>1, InitRow, StepRow, PTL DEF Spec

LEMMA RowHolds == Spec => []RowInv
BY InitRow, StepRow, PTL DEF Spec

--------------------------------------------------------------------------------
(* The types. *)

Chat == [Accounts -> {"none", "pending", "active"}]

\* What RowInv does not need.
Rest == asks \subseteq Accounts /\ dreamers \subseteq Accounts /\ chat \in Chat

LEMMA StepRest == RowInv /\ Rest /\ [Next]_vars => Rest'
<1> SUFFICES ASSUME RowInv, Rest, [Next]_vars PROVE Rest'
  OBVIOUS
<1>1. CASE UNCHANGED vars
  BY <1>1 DEF vars, krew, dream, Rest
<1>2. CASE asks' \subseteq asks /\ dreamers' \subseteq dreamers /\ chat' = chat
  BY <1>2 DEF Rest
<1>3. ASSUME NEW t \in Threads, Load(t) PROVE Rest'
  <2>1. ASSUME NEW a \in Accounts,
               \/ LoadJoin(t, a) \/ LoadJoinProjekt(t, a) \/ LoadAnswer(t, a)
               \/ LoadAccept(t, a) \/ LoadAcceptProjekt(t, a) \/ LoadAsk(t, a)
               \/ LoadAskProjekt(t, a) \/ LoadBackOut(t, a) \/ LoadArchive(t, a)
        PROVE  Rest'
    BY <1>2, <2>1 DEF LoadJoin, LoadJoinProjekt, LoadAnswer, LoadAccept, LoadAcceptProjekt,
                      LoadAsk, LoadAskProjekt, LoadBackOut, LoadArchive, Begins, krew, dream
  <2>2. ASSUME NEW a \in Accounts,
               \/ LoadLeave(t, a) \/ LoadLeaveChat(t, a) \/ LoadInvite(t, a) \/ LoadSeed(t, a)
        PROVE  Rest'
    BY <1>2, <2>2 DEF LoadLeave, LoadLeaveChat, LoadInvite, LoadSeed, Begins, krew, dream
  <2>3. ASSUME NEW a \in Accounts, DropRequest(t, a)
        PROVE  Rest'
    BY <1>2, <2>3 DEF DropRequest, dream
  <2>4. ASSUME NEW a \in Accounts, DeclineInvite(t, a)
        PROVE  Rest'
    BY <2>4 DEF DeclineInvite, WithoutPlace, krew, dream, Rest, Chat
  <2>5. CASE LoadChat(t) \/ RemoveProjekt(t)
    BY <1>2, <2>5 DEF LoadChat, RemoveProjekt, Begins, krew, dream
  <2> QED
    BY <1>3, <2>1, <2>2, <2>3, <2>4, <2>5 DEF Load
<1>4. ASSUME NEW t \in Threads, Write(t) PROVE Rest'
  <2> DEFINE j == thread[t]
  <2>1. j \in Jobs /\ members \subseteq Accounts
    BY DEF RowInv, Typed
  <2>2. CASE Enter(t)
    <3>1. j \in Enters
      BY <2>1, <2>2, JobParts DEF Enter
    <3>2. j.who \in Accounts
      BY <3>1 DEF Enters
    <3> QED
      BY <2>2, <3>2 DEF Enter, krew, dream, Rest, Chat
  <2>3. CASE WriteAsk(t) \/ WriteBackOut(t)
    <3>1. j \in Asking
      BY <2>1, <2>3, JobParts DEF WriteAsk, WriteBackOut
    <3>2. j.who \in Accounts
      BY <3>1 DEF Asking
    <3> QED
      BY <2>3, <3>2 DEF WriteAsk, WriteBackOut, dream, Rest
  <2>4. CASE LeaveDelete(t) \/ LeaveLook(t) \/ WriteArchive(t) \/ Joined(t)
    BY <1>2, <2>4 DEF LeaveDelete, LeaveLook, WriteArchive, Joined, krew, dream
  <2>5. CASE LeaveCommit(t)
    BY <2>5 DEF LeaveCommit, Rest, Chat
  <2>6. CASE Place(t)
    BY <2>6 DEF Place, krew, dream, Rest, Chat
  <2>7. CASE Left(t)
    BY <2>7 DEF Left, WithoutPlace, krew, dream, Rest, Chat
  <2>8. CASE Seed(t)
    <3>1. j \in Several
      BY <2>1, <2>8, JobParts DEF Seed
    <3>2. j.who \subseteq Accounts
      BY <3>1 DEF Several
    <3> QED
      BY <2>8, <3>2 DEF Seed, Rest
  <2> QED
    BY <1>4, <2>2, <2>3, <2>4, <2>5, <2>6, <2>7, <2>8 DEF Write
<1> QED
  BY <1>1, <1>3, <1>4 DEF Next

\* Every variable keeps its type and the count of members never drops below zero, however
\* many requests at once.
THEOREM Types == Spec => []TypeOK
<1>1. Init => Rest
  BY DEF Init, Rest, Chat
<1>2. RowInv /\ Rest => TypeOK
  <2> SUFFICES ASSUME RowInv, Rest PROVE TypeOK
    OBVIOUS
  <2>1. count \in Nat
    BY FiniteMembers, FS_CardinalityType DEF RowInv, Typed, SeatsCounted
  <2>2. ASSUME NEW j \in Jobs
        PROVE  j.op \in {"idle", "enter", "ask", "back out", "leave", "leaving", "committing",
                         "archive", "joined", "place", "left", "seed"}
    BY JobsMade DEF Jobs, Enters, Asking, Leaves, Leavings, Committings, Places, Several
  <2>3. \A t \in Threads : thread[t] \in Jobs
    BY DEF RowInv, Typed
  <2> QED
    BY <2>1, <2>2, <2>3 DEF TypeOK, RowInv, Typed, Rest, Chat
<1> QED
  BY <1>1, <1>2, StepRest, RowHolds, PTL DEF Spec

--------------------------------------------------------------------------------
(* The last one out. *)

\* Nobody who takes a request back is taken out of the Krew for it.
NoneTakenOut == \A t \in Threads : thread[t].op = "back out" => thread[t].who \notin dreamers

LEMMA StepEmpty ==
  ASSUME RowInv, NoneTakenOut, NeverEmpty, [Next]_vars
  PROVE  NeverEmpty'
<1>1. CASE archived' = archived /\ members \subseteq members'
  BY <1>1 DEF NeverEmpty
<1>2. CASE UNCHANGED vars
  BY <1>1, <1>2 DEF vars, krew
<1>3. ASSUME NEW t \in Threads, Load(t) PROVE NeverEmpty'
  BY <1>1, <1>3, LoadBegins DEF RowInv
<1>4. ASSUME NEW t \in Threads, Write(t) PROVE NeverEmpty'
  <2>1. CASE Enter(t) \/ Seed(t)
    BY <1>1, <2>1 DEF Enter, Seed, krew
  <2>2. CASE WriteAsk(t) \/ LeaveDelete(t) \/ LeaveLook(t) \/ Joined(t) \/ Place(t) \/ Left(t)
    BY <1>1, <2>2 DEF WriteAsk, LeaveDelete, LeaveLook, Joined, Place, Left, krew
  <2>3. CASE WriteArchive(t)
    BY <2>3 DEF WriteArchive, NeverEmpty
  <2>4. CASE WriteBackOut(t)
    BY <1>1, <2>4 DEF WriteBackOut, NoneTakenOut
  <2>5. CASE LeaveCommit(t)
    <3>1. CASE ~thread[t].counted
      BY <2>5, <3>1 DEF LeaveCommit, Remaining, NeverEmpty
    <3>2. CASE thread[t].counted
      BY <2>5, <3>2 DEF LeaveCommit, Remaining, NeverEmpty, RowInv, LastKnown
    <3> QED
      BY <3>1, <3>2
  <2> QED
    BY <1>4, <2>1, <2>2, <2>3, <2>4, <2>5 DEF Write
<1> QED
  BY <1>2, <1>3, <1>4 DEF Next

\* Where nobody can ask to take a request back, nobody does.
NoneBacksOut == \A t \in Threads : thread[t].op # "back out"

LEMMA StepNoneBacksOut ==
  ASSUME "back out" \notin Explored, RowInv, NoneBacksOut, [Next]_vars
  PROVE  NoneBacksOut'
<1> DEFINE Others(t) == \A u \in Threads : u # t => thread'[u] = thread[u]
<1>0. thread \in [Threads -> Jobs]
  BY DEF RowInv, Typed
<1>1. ASSUME NEW t \in Threads, Others(t), thread'[t].op # "back out"
      PROVE  NoneBacksOut'
  BY <1>1 DEF NoneBacksOut
<1>2. CASE thread' = thread
  BY <1>2 DEF NoneBacksOut
<1>3. Idle.op # "back out"
  BY DEF Idle
<1>4. ASSUME NEW t \in Threads, Load(t) PROVE NoneBacksOut'
  <2>1. ASSUME NEW j \in Jobs, Does(t, j), j.op # "back out" PROVE NoneBacksOut'
    BY <1>0, <1>1, <2>1 DEF Does
  <2> QED
    BY <1>2, <1>4, <2>1, LoadBegins DEF RowInv
<1>5. ASSUME NEW t \in Threads, Write(t) PROVE NoneBacksOut'
  <2>1. ASSUME Ends(t) PROVE NoneBacksOut'
    <3>1. Others(t) /\ thread'[t] = Idle
      BY <1>0, <2>1 DEF Ends, Does
    <3> HIDE DEF Others
    <3> QED
      BY <1>1, <1>3, <3>1
  <2>2. ASSUME NEW who, NEW op \in {"joined", "left"}, Does(t, [op |-> op, who |-> who])
        PROVE  NoneBacksOut'
    BY <1>0, <1>1, <2>2 DEF Does
  <2>3. CASE Enter(t)
    <3>1. Ends(t) \/ Does(t, [op |-> "joined", who |-> New(thread[t].who)])
      BY <2>3 DEF Enter
    <3> QED
      BY <2>1, <2>2, <3>1
  <2>4. CASE Seed(t) \/ WriteBackOut(t)
    <3>1. \/ Ends(t)
          \/ Does(t, [op |-> "joined", who |-> NotInKrew(thread[t].who)])
          \/ Does(t, [op |-> "left", who |-> thread[t].who])
      BY <2>4 DEF Seed, WriteBackOut
    <3> QED
      BY <2>1, <2>2, <3>1
  <2>5. CASE WriteAsk(t) \/ WriteArchive(t) \/ Place(t) \/ Left(t)
    BY <2>1, <2>5 DEF WriteAsk, WriteArchive, Place, Left
  <2>6. CASE LeaveDelete(t)
    BY <1>0, <1>1, <2>6 DEF LeaveDelete, Does
  <2>7. CASE LeaveLook(t)
    BY <1>0, <1>1, <2>7 DEF LeaveLook, Does
  <2>8. CASE LeaveCommit(t)
    <3>1. Ends(t) \/ Does(t, [op |-> "left", who |-> thread[t].who])
      BY <2>8 DEF LeaveCommit
    <3> QED
      BY <2>1, <2>2, <3>1
  <2>9. CASE Joined(t)
    BY <1>0, <1>1, <2>9 DEF Joined, Does
  <2> QED
    BY <1>5, <2>3, <2>4, <2>5, <2>6, <2>7, <2>8, <2>9 DEF Write
<1> QED
  BY <1>2, <1>4, <1>5 DEF Next, vars

\* "The last one out archives the Krew, so it never sits with nobody in it", however many
\* leave at once, as long as nobody takes a request back while they are let in.
THEOREM NeverSitsEmpty == ASSUME "back out" \notin Explored PROVE Spec => []NeverEmpty
<1>1. Init => NoneBacksOut /\ NeverEmpty
  <2> SUFFICES ASSUME Init PROVE NoneBacksOut /\ NeverEmpty
    OBVIOUS
  <2>1. NoneBacksOut
    BY JobsMade DEF Init, NoneBacksOut
  <2>2. NeverEmpty
    BY DEF Init, NeverEmpty
  <2> QED
    BY <2>1, <2>2
<1>2. NoneBacksOut => NoneTakenOut
  BY DEF NoneBacksOut, NoneTakenOut
<1>3. RowInv /\ NoneBacksOut /\ NeverEmpty /\ [Next]_vars => (NoneBacksOut /\ NeverEmpty)'
  BY <1>2, StepNoneBacksOut, StepEmpty
<1> QED
  BY <1>1, <1>3, RowHolds, PTL DEF Spec

--------------------------------------------------------------------------------
(* One request at a time. *)

OneThread == \A s, t \in Threads : s = t

\* What a job loaded is still so.
UpToDate(t) ==
  LET j == thread[t]
  IN /\ j.op = "enter" /\ j.way = "request" => j.who \in asks
     /\ j.op = "ask" => j.who \notin members
     /\ j.op = "back out" => j.who \notin dreamers
     /\ j.op = "archive" => members = {j.who}
     /\ j.op = "committing" => (j.last <=> members \ {j.who} = {})
     /\ j.op \in {"leaving", "committing"} =>
          (j.counted <=> j.who \in members) /\ (j.dreams <=> j.counted /\ projekt)
     /\ j.op = "joined" => j.who \subseteq members
     /\ j.op = "seed" => j.who = members
     /\ j.op = "place" => j.saw \subseteq members

\* Whoever is in the chat is in the Krew, but for the one whose place is about to go.
PlaceGoes(a) == \E t \in Threads : thread[t].op = "left" /\ thread[t].who = a
PlacesRight == \A a \in InChat : a \in members \/ PlaceGoes(a)

Together == projekt => dreamers = members

PeopleInv ==
  /\ chat \in Chat
  /\ \A t \in Threads : UpToDate(t)
  /\ RequestsAnswered /\ Together /\ PlacesRight

LEMMA InitPeople == Init => PeopleInv
<1> SUFFICES ASSUME Init PROVE PeopleInv
  OBVIOUS
<1>1. chat \in Chat /\ PlacesRight
  BY DEF Init, Chat, PlacesRight, InChat
<1>2. RequestsAnswered /\ Together
  BY DEF Init, RequestsAnswered, Together
<1>3. \A t \in Threads : thread[t] = Idle
  BY DEF Init
<1>4. \A t \in Threads : UpToDate(t)
  BY <1>3, JobsMade DEF UpToDate
<1> QED
  BY <1>1, <1>2, <1>4 DEF PeopleInv

\* The only thread there is speaks for all of them.
LEMMA OnlyOne ==
  ASSUME OneThread, NEW t \in Threads, (chat \in Chat)', UpToDate(t)', RequestsAnswered',
         Together', PlacesRight'
  PROVE  PeopleInv'
BY DEF OneThread, PeopleInv

LEMMA NobodyLeft ==
  ASSUME OneThread, PeopleInv, NEW t \in Threads, thread[t].op # "left"
  PROVE  InChat \subseteq members
BY DEF OneThread, PeopleInv, PlacesRight, PlaceGoes

\* A job whose thread does the next one.
LEMMA Doing ==
  ASSUME RowInv, NEW t \in Threads, NEW STATE job, Does(t, job)
  PROVE  thread'[t] = job
BY DEF Does, RowInv, Typed

\* What is loaded is so as it is loaded, and nobody's place was about to go.
LEMMA LoadPeople ==
  ASSUME OneThread, RowInv, PeopleInv, NEW t \in Threads, Load(t)
  PROVE  PeopleInv'
<1>1. Idle.op = "idle" /\ chat \in Chat /\ RequestsAnswered /\ Together
  BY JobsMade DEF PeopleInv
<1>2. ASSUME UNCHANGED <<krew, dream, chat>>, thread[t] = Idle, UpToDate(t)'
      PROVE  PeopleInv'
  <2>1. InChat \subseteq members
    BY <1>1, <1>2, NobodyLeft
  <2>2. (chat \in Chat)' /\ RequestsAnswered' /\ Together' /\ PlacesRight'
    BY <1>1, <1>2, <2>1
       DEF krew, dream, RequestsAnswered, Together, PlacesRight, InChat
  <2> QED
    BY <1>2, <2>2, OnlyOne
<1>3. ASSUME NEW a \in Accounts,
             \/ LoadJoin(t, a) \/ LoadJoinProjekt(t, a) \/ LoadAnswer(t, a)
             \/ LoadAccept(t, a) \/ LoadAcceptProjekt(t, a)
      PROVE  PeopleInv'
  <2>1. PICK way \in {"join", "projekt", "invite", "request"}, request \in {"join", "answer", "accept"} :
          /\ Begins(t, request, [op |-> "enter", who |-> a, way |-> way])
          /\ way = "request" => a \in asks
    BY <1>3 DEF LoadJoin, LoadJoinProjekt, LoadAnswer, LoadAccept, LoadAcceptProjekt, Waits
  <2>2. thread'[t] = [op |-> "enter", who |-> a, way |-> way] /\ UNCHANGED asks
    BY <2>1, Doing DEF Begins, krew
  <2>3. UpToDate(t)'
    BY <2>1, <2>2 DEF UpToDate
  <2> QED
    BY <1>2, <2>1, <2>3 DEF Begins
<1>4. ASSUME NEW a \in Accounts,
             LoadAsk(t, a) \/ LoadAskProjekt(t, a) \/ LoadBackOut(t, a) \/ LoadArchive(t, a)
      PROVE  PeopleInv'
  <2>1. PICK asked \in {"ask", "back out", "archive"} :
          /\ Begins(t, asked, [op |-> asked, who |-> a])
          /\ asked = "ask" => a \notin members
          /\ asked = "back out" => a \notin dreamers
          /\ asked = "archive" => members = {a}
    BY <1>1, <1>4 DEF LoadAsk, LoadAskProjekt, LoadBackOut, LoadArchive, Together, SoleMember
  <2>2. thread'[t] = [op |-> asked, who |-> a] /\ UNCHANGED <<members, dreamers>>
    BY <2>1, Doing DEF Begins, krew, dream
  <2>3. UpToDate(t)'
    <3> DEFINE j == [op |-> asked, who |-> a]
    <3>1. j.op = asked /\ j.who = a /\ thread'[t] = j
      BY <2>2
    <3>2. /\ asked = "ask" => a \notin members'
          /\ asked = "back out" => a \notin dreamers'
          /\ asked = "archive" => members' = {a}
      BY <2>1, <2>2
    <3> HIDE DEF j
    <3> QED
      BY <3>1, <3>2 DEF UpToDate
  <2> QED
    BY <1>2, <2>1, <2>3 DEF Begins
<1>5. ASSUME NEW a \in Accounts, LoadLeave(t, a) \/ LoadLeaveChat(t, a)
      PROVE  PeopleInv'
  <2>1. PICK page \in {"krew", "chat"} :
          Begins(t, "leave", [op |-> "leave", who |-> a, page |-> page])
    BY <1>5 DEF LoadLeave, LoadLeaveChat
  <2>2. thread'[t] = [op |-> "leave", who |-> a, page |-> page]
    BY <2>1, Doing DEF Begins
  <2>3. UpToDate(t)'
    BY <2>2 DEF UpToDate
  <2> QED
    BY <1>2, <2>1, <2>3 DEF Begins
<1>6. ASSUME NEW a \in Accounts, LoadInvite(t, a) \/ LoadChat(t)
      PROVE  PeopleInv'
  <2>1. PICK invites \in SUBSET Accounts, request \in {"invite", "chat"} :
          Begins(t, request, [op |-> "place", saw |-> members, invites |-> invites])
    BY <1>6 DEF LoadInvite, LoadChat
  <2>2. thread'[t] = [op |-> "place", saw |-> members, invites |-> invites] /\ UNCHANGED members
    BY <2>1, Doing DEF Begins, krew
  <2>3. UpToDate(t)'
    BY <2>2 DEF UpToDate
  <2> QED
    BY <1>2, <2>1, <2>3 DEF Begins
<1>7. ASSUME NEW a \in Accounts, LoadSeed(t, a)
      PROVE  PeopleInv'
  <2>1. Begins(t, "seed", [op |-> "seed", who |-> members])
    BY <1>7 DEF LoadSeed
  <2>2. thread'[t] = [op |-> "seed", who |-> members] /\ UNCHANGED members
    BY <2>1, Doing DEF Begins, krew
  <2>3. UpToDate(t)'
    BY <2>2 DEF UpToDate
  <2> QED
    BY <1>2, <2>1, <2>3 DEF Begins
<1>8. ASSUME thread[t] = Idle, UNCHANGED <<members, thread>>, asks' \subseteq asks,
             projekt' => UNCHANGED dream, chat' \in Chat, InChat' \subseteq InChat
      PROVE  PeopleInv'
  <2>1. InChat \subseteq members
    BY <1>1, <1>8, NobodyLeft
  <2>2. UpToDate(t)'
    BY <1>1, <1>8 DEF UpToDate
  <2>3. RequestsAnswered' /\ Together' /\ PlacesRight'
    BY <1>1, <1>8, <2>1 DEF RequestsAnswered, Together, PlacesRight, dream
  <2> QED
    BY <1>8, <2>2, <2>3, OnlyOne
<1>9. ASSUME NEW a \in Accounts, DropRequest(t, a)
      PROVE  PeopleInv'
  BY <1>1, <1>8, <1>9 DEF DropRequest, InChat, dream
<1>10. ASSUME NEW a \in Accounts, DeclineInvite(t, a)
       PROVE  PeopleInv'
  <2>1. chat' = [chat EXCEPT ![a] = "none"] /\ thread[t] = Idle /\ UNCHANGED <<krew, dream, thread>>
    BY <1>10 DEF DeclineInvite, WithoutPlace
  <2>2. chat' \in Chat /\ InChat' \subseteq InChat
    BY <1>1, <2>1 DEF Chat, InChat
  <2> QED
    BY <1>8, <2>1, <2>2 DEF krew
<1>11. CASE RemoveProjekt(t)
  BY <1>1, <1>8, <1>11 DEF RemoveProjekt, krew, InChat
<1> QED
  <2> USE DEF Load
  <2>1. CASE LoadChat(t)
    BY <1>6, <2>1, AccountsAssumption
  <2>2. CASE \E a \in Accounts : LoadInvite(t, a) \/ LoadSeed(t, a) \/ DropRequest(t, a)
                                   \/ DeclineInvite(t, a)
    BY <1>6, <1>7, <1>9, <1>10, <2>2
  <2>3. CASE \E a \in Accounts : LoadLeave(t, a) \/ LoadLeaveChat(t, a)
    BY <1>5, <2>3
  <2> QED
    BY <1>3, <1>4, <1>11, <2>1, <2>2, <2>3

\* Whoever comes in is in the projekt there is, and has nothing left to ask for.
LEMMA EnterPeople ==
  ASSUME OneThread, RowInv, PeopleInv, NEW t \in Threads, Enter(t)
  PROVE  PeopleInv'
<1> DEFINE j == thread[t]
           new == New(j.who)
<1>1. j \in Enters /\ j.op = "enter"
  BY JobParts DEF Enter, RowInv, Typed
<1>2. j.who \in Accounts
  BY <1>1 DEF Enters
<1>3. /\ chat \in Chat /\ RequestsAnswered /\ Together /\ InChat \subseteq members
  BY <1>1, NobodyLeft DEF PeopleInv
<1>4. Idle.op = "idle"
  BY JobsMade
<1>5. CASE NothingToDo(j)
  <2>1. Ends(t) /\ UNCHANGED <<krew, dream, chat>>
    BY <1>5 DEF Enter
  <2>2. thread'[t] = Idle
    BY <2>1, Doing DEF Ends
  <2>3. UpToDate(t)' /\ (chat \in Chat)' /\ RequestsAnswered' /\ Together' /\ PlacesRight'
    BY <1>3, <1>4, <2>1, <2>2
       DEF krew, dream, UpToDate, RequestsAnswered, Together, PlacesRight, InChat
  <2> QED
    BY <2>3, OnlyOne
<1>6. CASE ~NothingToDo(j)
  <2>1. /\ members' = members \cup new /\ asks' = asks \ Answered(j) /\ projekt' = projekt
        /\ dreamers' = IF projekt /\ (new # {} \/ j.way = "projekt")
                       THEN dreamers \cup {j.who} ELSE dreamers
        /\ chat' = IF j.way = "invite" /\ chat[j.who] = "pending"
                   THEN [chat EXCEPT ![j.who] = "active"] ELSE chat
        /\ IF new = {} THEN Ends(t) ELSE Does(t, [op |-> "joined", who |-> new])
    BY <1>6 DEF Enter
  <2>2. j.who \in members' /\ new \subseteq members'
    BY <2>1 DEF New
  <2>3. UpToDate(t)'
    <3>1. CASE new = {}
      <4>1. thread'[t] = Idle
        BY <2>1, <3>1, Doing DEF Ends
      <4> QED
        BY <1>4, <4>1 DEF UpToDate
    <3>2. CASE new # {}
      <4> DEFINE k == [op |-> "joined", who |-> new]
      <4>1. Does(t, k)
        BY <2>1, <3>2
      <4>2. thread'[t] = k
        BY <4>1, Doing
      <4> HIDE DEF new
      <4>3. k.op = "joined" /\ k.who = new
        OBVIOUS
      <4> HIDE DEF k
      <4> QED
        BY <2>2, <4>2, <4>3 DEF UpToDate
    <3> QED
      BY <3>1, <3>2
  <2>4. RequestsAnswered'
    BY <1>3, <2>1 DEF RequestsAnswered, Answered, Cleared, New
  <2>5. Together'
    BY <1>3, <1>6, <2>1 DEF Together, NothingToDo, New
  <2>6. (chat \in Chat)'
    BY <1>3, <2>1 DEF Chat
  <2>7. PlacesRight'
    BY <1>2, <1>3, <2>1, <2>2 DEF PlacesRight, InChat, Chat
  <2> QED
    BY <2>3, <2>4, <2>5, <2>6, <2>7, OnlyOne
<1> QED
  BY <1>5, <1>6

\* The projekt is seeded with the Krew's people as they are.
LEMMA SeedPeople ==
  ASSUME OneThread, RowInv, PeopleInv, NEW t \in Threads, Seed(t)
  PROVE  PeopleInv' /\ members' = members
<1>1. /\ chat \in Chat /\ RequestsAnswered /\ InChat \subseteq members
      /\ thread[t].who = members
  BY NobodyLeft DEF PeopleInv, UpToDate, Seed
<1>2. /\ members' = members /\ asks' = asks /\ dreamers' = members /\ chat' = chat
      /\ Ends(t)
  BY <1>1 DEF Seed, NotInKrew
<1>3. thread'[t] = Idle /\ Idle.op = "idle"
  BY <1>2, Doing, JobsMade DEF Ends
<1>4. UpToDate(t)' /\ (chat \in Chat)' /\ RequestsAnswered' /\ Together' /\ PlacesRight'
  BY <1>1, <1>2, <1>3 DEF UpToDate, RequestsAnswered, Together, PlacesRight, InChat
<1> QED
  BY <1>2, <1>4, OnlyOne

\* Whoever takes a request back is still not in the projekt, and stays where they are.
LEMMA BackOutPeople ==
  ASSUME OneThread, RowInv, PeopleInv, NEW t \in Threads, WriteBackOut(t)
  PROVE  PeopleInv'
<1>1. /\ chat \in Chat /\ RequestsAnswered /\ Together /\ InChat \subseteq members
      /\ thread[t].who \notin dreamers
  BY NobodyLeft DEF PeopleInv, UpToDate, WriteBackOut
<1>2. /\ members' = members /\ asks' \subseteq asks /\ dreamers' = dreamers /\ projekt' = projekt
      /\ chat' = chat /\ Ends(t)
  BY <1>1 DEF WriteBackOut
<1>3. thread'[t] = Idle /\ Idle.op = "idle"
  BY <1>2, Doing, JobsMade DEF Ends
<1>4. UpToDate(t)' /\ (chat \in Chat)' /\ RequestsAnswered' /\ Together' /\ PlacesRight'
  BY <1>1, <1>2, <1>3 DEF UpToDate, RequestsAnswered, Together, PlacesRight, InChat
<1> QED
  BY <1>4, OnlyOne

\* Whoever is on the way out of the Krew is on the way out of its projekt.
LEMMA LeavingPeople ==
  ASSUME OneThread, RowInv, PeopleInv, NEW t \in Threads, LeaveDelete(t) \/ LeaveLook(t)
  PROVE  PeopleInv'
<1> DEFINE j == thread[t]
<1>1. j \in Leaves \/ j \in Leavings
  BY JobParts DEF LeaveDelete, LeaveLook, RowInv, Typed
<1>2. /\ chat \in Chat /\ RequestsAnswered /\ Together /\ InChat \subseteq members
      /\ UNCHANGED <<members, asks, projekt, dreamers, chat>>
  BY NobodyLeft DEF PeopleInv, LeaveDelete, LeaveLook, krew, dream
<1>3. CASE LeaveDelete(t)
  <2> DEFINE there == j.who \in members
             dreams == there /\ LeavesProjekt
             k == [op |-> "leaving", who |-> j.who, page |-> j.page, counted |-> there,
                   dreams |-> dreams]
  <2>1. Does(t, k)
    BY <1>3 DEF LeaveDelete
  <2>2. thread'[t] = k
    BY <2>1, Doing
  <2>3. /\ there <=> thread[t].who \in members'
        /\ dreams <=> there /\ projekt'
    BY <1>2 DEF LeavesProjekt
  <2> HIDE DEF there, dreams
  <2>4. k.op = "leaving" /\ k.who = thread[t].who /\ k.counted = there /\ k.dreams = dreams
    OBVIOUS
  <2> HIDE DEF k
  <2> QED
    BY <1>2, <2>2, <2>3, <2>4, OnlyOne
       DEF UpToDate, RequestsAnswered, Together, PlacesRight, InChat
<1>4. CASE LeaveLook(t)
  <2> DEFINE k == [op |-> "committing", who |-> j.who, page |-> j.page, counted |-> j.counted,
                   dreams |-> j.dreams, last |-> LastOut(j)]
  <2>1. Does(t, k)
    BY <1>4 DEF LeaveLook
  <2>2. thread'[t] = k
    BY <2>1, Doing
  <2>3. /\ j.counted <=> j.who \in members'
        /\ j.dreams <=> j.counted /\ projekt'
        /\ LastOut(j) <=> members' \ {j.who} = {}
    <3>1. /\ j.counted <=> j.who \in members
          /\ j.dreams <=> j.counted /\ projekt
      BY <1>4 DEF LeaveLook, PeopleInv, UpToDate
    <3>2. Remaining(j) = members \ {j.who}
      BY <3>1 DEF Remaining
    <3> QED
      BY <1>2, <3>1, <3>2 DEF LastOut
  <2>4. /\ k.op = "committing" /\ k.who = j.who /\ k.counted = j.counted
        /\ k.dreams = j.dreams /\ k.last = LastOut(j)
    OBVIOUS
  <2> HIDE DEF k, j
  <2> QED
    BY <1>2, <2>2, <2>3, <2>4, OnlyOne
       DEF UpToDate, RequestsAnswered, Together, PlacesRight, InChat
<1> QED
  BY <1>3, <1>4

\* Out of the Krew, out of the projekt, and out of the chat next.
LEMMA LeftPeople ==
  ASSUME OneThread, RowInv, PeopleInv, NEW t \in Threads, LeaveCommit(t)
  PROVE  PeopleInv'
<1> DEFINE j == thread[t]
<1>1. j \in Committings /\ j.op = "committing"
  BY JobParts DEF LeaveCommit, RowInv, Typed
<1>2. j.who \in Accounts /\ j.counted \in BOOLEAN /\ j.dreams \in BOOLEAN
  BY <1>1 DEF Committings
<1>3. /\ chat \in Chat /\ RequestsAnswered /\ Together /\ InChat \subseteq members
      /\ j.counted <=> j.who \in members
      /\ j.dreams <=> j.counted /\ projekt
  BY <1>1, NobodyLeft DEF PeopleInv, UpToDate
<1>4. /\ members' = members \ {j.who}
      /\ asks' \subseteq asks /\ projekt' = projekt
      /\ projekt => dreamers' = dreamers \ {j.who}
      /\ chat' = chat \/ chat' = [chat EXCEPT ![j.who] = "none"]
      /\ IF j.counted THEN Does(t, [op |-> "left", who |-> j.who]) ELSE Ends(t)
  BY <1>3 DEF LeaveCommit, Remaining, Together
<1>5. (chat \in Chat)' /\ InChat' \subseteq InChat
  BY <1>3, <1>4 DEF Chat, InChat
<1>6. RequestsAnswered' /\ Together'
  BY <1>3, <1>4 DEF RequestsAnswered, Together
<1>7. CASE j.counted
  <2> DEFINE k == [op |-> "left", who |-> j.who]
  <2>1. thread'[t] = k
    BY <1>4, <1>7, Doing
  <2>2. k.op = "left" /\ k.who = j.who
    OBVIOUS
  <2> HIDE DEF k, j
  <2>3. UpToDate(t)' /\ PlacesRight'
    BY <1>3, <1>4, <1>5, <2>1, <2>2 DEF UpToDate, PlacesRight, PlaceGoes
  <2> QED
    BY <1>5, <1>6, <2>3, OnlyOne
<1>8. CASE ~j.counted
  <2>1. thread'[t] = Idle /\ Idle.op = "idle"
    BY <1>4, <1>8, Doing, JobsMade DEF Ends
  <2>2. UpToDate(t)' /\ PlacesRight'
    BY <1>3, <1>4, <1>5, <1>8, <2>1 DEF UpToDate, PlacesRight
  <2> QED
    BY <1>5, <1>6, <2>2, OnlyOne
<1> QED
  BY <1>2, <1>7, <1>8

LEMMA AskPeople ==
  ASSUME OneThread, RowInv, PeopleInv, NEW t \in Threads, WriteAsk(t) \/ WriteArchive(t)
  PROVE  PeopleInv'
<1>1. /\ chat \in Chat /\ RequestsAnswered /\ Together /\ InChat \subseteq members
      /\ thread[t].op = "ask" => thread[t].who \notin members
  BY NobodyLeft DEF PeopleInv, UpToDate, WriteAsk, WriteArchive
<1>2. /\ UNCHANGED <<members, projekt, dreamers, chat>> /\ Ends(t)
      /\ \/ asks' = asks
         \/ thread[t].op = "ask" /\ asks' = asks \cup {thread[t].who}
  BY DEF WriteAsk, WriteArchive, dream
<1>3. thread'[t] = Idle /\ Idle.op = "idle"
  BY <1>2, Doing, JobsMade DEF Ends
<1>4. UpToDate(t)' /\ (chat \in Chat)' /\ RequestsAnswered' /\ Together' /\ PlacesRight'
  BY <1>1, <1>2, <1>3 DEF UpToDate, RequestsAnswered, Together, PlacesRight, InChat
<1> QED
  BY <1>4, OnlyOne

\* A place in the chat is given to members, and taken from whoever left.
LEMMA ChatPeople ==
  ASSUME OneThread, RowInv, PeopleInv, NEW t \in Threads, Joined(t) \/ Place(t) \/ Left(t)
  PROVE  PeopleInv'
<1> DEFINE j == thread[t]
<1>1. /\ chat \in Chat /\ RequestsAnswered /\ Together /\ PlacesRight /\ UpToDate(t)
      /\ UNCHANGED <<members, asks, projekt, dreamers>>
  BY DEF PeopleInv, Joined, Place, Left, krew, dream
<1>2. RequestsAnswered' /\ Together'
  BY <1>1 DEF RequestsAnswered, Together
<1>3. CASE Joined(t)
  <2> DEFINE saw == members \cup j.who
             k == [op |-> "place", saw |-> saw, invites |-> {}]
  <2>1. Does(t, k) /\ chat' = chat
    BY <1>3 DEF Joined
  <2>2. thread'[t] = k
    BY <2>1, Doing
  <2>3. saw \subseteq members' /\ InChat \subseteq members
    BY <1>1, <1>3, NobodyLeft DEF Joined, UpToDate
  <2> HIDE DEF saw
  <2>4. k.op = "place" /\ k.saw = saw
    OBVIOUS
  <2> HIDE DEF k
  <2>5. UpToDate(t)' /\ PlacesRight' /\ (chat \in Chat)'
    BY <1>1, <2>1, <2>2, <2>3, <2>4 DEF UpToDate, PlacesRight, InChat
  <2> QED
    BY <1>2, <2>5, OnlyOne
<1>4. CASE Place(t)
  <2>1. /\ chat' = [a \in Accounts |->
              IF chat[a] # "none" THEN chat[a]
              ELSE IF a \in j.saw THEN "active"
              ELSE IF a \in j.invites THEN "pending" ELSE "none"]
        /\ Ends(t)
    BY <1>4 DEF Place
  <2>2. thread'[t] = Idle /\ Idle.op = "idle"
    BY <2>1, Doing, JobsMade DEF Ends
  <2>3. j.saw \subseteq members /\ InChat \subseteq members
    BY <1>1, <1>4, NobodyLeft DEF Place, UpToDate
  <2>4. (chat \in Chat)'
    BY <1>1, <2>1 DEF Chat
  <2>5. \A a \in InChat' : a \in members'
    BY <1>1, <2>1, <2>3 DEF InChat
  <2>6. UpToDate(t)' /\ PlacesRight'
    BY <2>2, <2>5 DEF UpToDate, PlacesRight
  <2> QED
    BY <1>2, <2>4, <2>6, OnlyOne
<1>5. CASE Left(t)
  <2>1. chat' = [chat EXCEPT ![j.who] = "none"] /\ Ends(t)
    BY <1>5 DEF Left, WithoutPlace
  <2>2. thread'[t] = Idle /\ Idle.op = "idle"
    BY <2>1, Doing, JobsMade DEF Ends
  <2>3. (chat \in Chat)'
    BY <1>1, <2>1 DEF Chat
  <2>4. \A a \in InChat' : a \in members'
    BY <1>1, <2>1 DEF OneThread, InChat, Chat, PlacesRight, PlaceGoes
  <2>5. UpToDate(t)' /\ PlacesRight'
    BY <2>2, <2>4 DEF UpToDate, PlacesRight
  <2> QED
    BY <1>2, <2>3, <2>5, OnlyOne
<1> QED
  BY <1>3, <1>4, <1>5

LEMMA StepPeople == OneThread /\ RowInv /\ PeopleInv /\ [Next]_vars => PeopleInv'
<1> SUFFICES ASSUME OneThread, RowInv, PeopleInv, [Next]_vars PROVE PeopleInv'
  OBVIOUS
<1>1. CASE UNCHANGED vars
  BY <1>1 DEF vars, krew, dream, PeopleInv, UpToDate, RequestsAnswered, Together, PlacesRight,
              PlaceGoes, InChat
<1>2. ASSUME NEW t \in Threads, Load(t) PROVE PeopleInv'
  BY <1>2, LoadPeople
<1>3. ASSUME NEW t \in Threads, Write(t) PROVE PeopleInv'
  BY <1>3, EnterPeople, SeedPeople, BackOutPeople, LeavingPeople, LeftPeople, AskPeople, ChatPeople
     DEF Write
<1> QED
  BY <1>1, <1>2, <1>3 DEF Next

LEMMA PeopleHold == ASSUME OneThread PROVE Spec => []PeopleInv
BY RowHolds, InitPeople, StepPeople, PTL DEF Spec

\* With one request at a time, "however they got in, a request they had waiting is answered".
THEOREM NoMemberWaits == ASSUME OneThread PROVE Spec => []RequestsAnswered
<1>1. PeopleInv => RequestsAnswered
  BY DEF PeopleInv
<1> QED
  BY <1>1, PeopleHold, PTL

\* With one request at a time, "the Krew's people are the emergence's people".
THEOREM SamePeopleInBoth == ASSUME OneThread PROVE Spec => []OnePeople
<1>1. PeopleInv => OnePeople
  BY DEF PeopleInv, Together, OnePeople
<1> QED
  BY <1>1, PeopleHold, PTL

\* With one request at a time, whoever is in the Krew's chat is in the Krew once what left
\* them out is done.
THEOREM NoLurkers == ASSUME OneThread PROVE Spec => []ChatOnlyMembers
<1>1. PeopleInv => ChatOnlyMembers
  BY JobsMade DEF PeopleInv, PlacesRight, PlaceGoes, AllIdle, ChatOnlyMembers
<1> QED
  BY <1>1, PeopleHold, PTL

\* With one request at a time, the Krew never sits with nobody in it, whoever takes a
\* request back.
THEOREM NeverSitsEmptyAlone == ASSUME OneThread PROVE Spec => []NeverEmpty
<1>1. Init => NeverEmpty
  BY DEF Init, NeverEmpty
<1>2. PeopleInv => NoneTakenOut
  BY DEF PeopleInv, UpToDate, NoneTakenOut
<1>3. RowInv /\ PeopleInv /\ NeverEmpty /\ [Next]_vars => NeverEmpty'
  BY <1>2, StepEmpty
<1> QED
  BY <1>1, <1>3, RowHolds, PeopleHold, PTL DEF Spec

\* Only Enter brings someone into the Krew: whoever comes in themselves or has asked.
LEMMA ComingInStep ==
  ASSUME OneThread, RowInv, PeopleInv, [Next]_vars, NEW a \in members' \ members
  PROVE  \/ a \in asks
         \/ \E t \in Threads : /\ thread[t].op = "enter" /\ thread[t].who = a
                               /\ thread[t].way # "request" /\ thread'[t] # thread[t]
<1>1. PICK t \in Threads : Enter(t)
  <2>1. ~UNCHANGED vars
    BY DEF vars, krew
  <2>2. ASSUME NEW t \in Threads, Load(t) PROVE FALSE
    BY <2>2, LoadBegins DEF RowInv
  <2>3. ASSUME NEW t \in Threads, Write(t), ~Enter(t) PROVE FALSE
    <3>1. CASE Seed(t)
      BY <3>1, SeedPeople
    <3>2. CASE WriteBackOut(t) \/ LeaveCommit(t)
      BY <3>2 DEF WriteBackOut, LeaveCommit, Remaining
    <3>3. CASE \/ WriteAsk(t) \/ LeaveDelete(t) \/ LeaveLook(t) \/ WriteArchive(t)
               \/ Joined(t) \/ Place(t) \/ Left(t)
      BY <3>3 DEF WriteAsk, LeaveDelete, LeaveLook, WriteArchive, Joined, Place, Left, krew
    <3> QED
      BY <2>3, <3>1, <3>2, <3>3 DEF Write
  <2> QED
    BY <2>1, <2>2, <2>3 DEF Next
<1> DEFINE new == New(thread[t].who)
<1>2. thread[t].op = "enter" /\ (thread[t].way = "request" => thread[t].who \in asks)
  BY <1>1 DEF Enter, PeopleInv, UpToDate
<1>3. members' = members \cup new /\ new # {} /\ Does(t, [op |-> "joined", who |-> new])
  BY <1>1 DEF Enter, krew
<1>4. a = thread[t].who
  BY <1>3 DEF New
<1>5. thread'[t].op = "joined"
  <2> DEFINE k == [op |-> "joined", who |-> new]
  <2>1. thread'[t] = k
    BY <1>3, Doing
  <2> QED
    BY <2>1
<1> QED
  BY <1>2, <1>4, <1>5

\* With one request at a time, "nobody is force-added".
THEOREM NobodyIsForceAdded == ASSUME OneThread PROVE Spec => NobodyForceAdded
<1>1. RowInv /\ PeopleInv /\ [Next]_vars =>
        [\A a \in members' \ members :
           \/ a \in asks
           \/ \E t \in Threads : /\ thread[t].op = "enter" /\ thread[t].who = a
                                 /\ thread[t].way # "request" /\ thread'[t] # thread[t]]_vars
  BY ComingInStep
<1> QED
  BY <1>1, RowHolds, PeopleHold, PTL DEF Spec, NobodyForceAdded

\* What archives the Krew.
LEMMA ArchiveStep ==
  ASSUME OneThread, RowInv, PeopleInv, [Next]_vars, ~archived, archived'
  PROVE  Cardinality(members') <= 1
<1>1. PICK t \in Threads : WriteArchive(t) \/ LeaveCommit(t)
  <2>1. ~UNCHANGED vars
    BY DEF vars, krew
  <2>2. ASSUME NEW t \in Threads, Load(t) PROVE FALSE
    BY <2>2, LoadBegins DEF RowInv
  <2>3. ASSUME NEW t \in Threads, Write(t), ~(WriteArchive(t) \/ LeaveCommit(t)) PROVE FALSE
    BY <2>3 DEF Write, Enter, Seed, WriteBackOut, WriteAsk, LeaveDelete, LeaveLook, Joined, Place,
                Left, krew
  <2> QED
    BY <2>1, <2>2, <2>3 DEF Next
<1>2. \E a \in Accounts : members' \subseteq {a}
  <2>1. CASE WriteArchive(t)
    <3>1. thread[t] \in Asking
      BY <2>1, JobParts DEF WriteArchive, RowInv, Typed
    <3>2. members' = {thread[t].who}
      BY <2>1 DEF WriteArchive, PeopleInv, UpToDate
    <3> QED
      BY <3>1, <3>2 DEF Asking
  <2>2. CASE LeaveCommit(t)
    <3>1. members \ {thread[t].who} = {} /\ (thread[t].counted <=> thread[t].who \in members)
      BY <2>2 DEF LeaveCommit, PeopleInv, UpToDate
    <3>2. members' = {}
      BY <2>2, <3>1 DEF LeaveCommit, Remaining
    <3> QED
      BY <3>2, AccountsAssumption
  <2> QED
    BY <1>1, <2>1, <2>2
<1>3. PICK a \in Accounts : members' = {} \/ members' = {a}
  BY <1>2
<1> QED
  BY <1>3, FS_EmptySet, FS_Singleton

\* With one request at a time, a Krew is archived by its only member or by the last one out.
THEOREM NobodyArchivesOthers == ASSUME OneThread PROVE Spec => ArchivedAlone
<1>1. RowInv /\ PeopleInv /\ [Next]_vars =>
        [~archived /\ archived' => Cardinality(members') <= 1]_vars
  BY ArchiveStep
<1> QED
  BY <1>1, RowHolds, PeopleHold, PTL DEF Spec, ArchivedAlone
================================================================================
