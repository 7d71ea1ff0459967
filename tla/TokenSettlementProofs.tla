------------------------ MODULE TokenSettlementProofs ------------------------
(***************************************************************************)
(* Theorems about TokenSettlement, for any jobs, in any interleaving, with *)
(* any number of deadlocks broken and processes killed.                    *)
(***************************************************************************)
EXTENDS TokenSettlement, SumTheorems, TLAPS

(* What a job relies on, whatever the others do. *)

\* Where a job is between the first lock it may take and the end of its transaction.
Busy == {"refund", "purse", "write", "commit"}

\* Each operation's path, and the proposal it is about.
OnPath(j) ==
  /\ j.op = "action" => pc[j] \in {"start", "done", "failed"}
  /\ j.op = "back" => pc[j] \notin {"next", "refund"}
  /\ j.op \in {"close", "annul"} => pc[j] # "next"
  /\ j.op # "delete" => prop[j] = j.prop

\* A job holds the row of the proposal it is working on or none, and every job but
\* a deletion holds it throughout.  What it has not begun it has not locked.
Locking(j) ==
  /\ \A p \in Proposals : propLock[p] = j => p = prop[j] /\ pc[j] \in Busy
  /\ pc[j] \in Busy /\ j.op # "delete" => InTransaction(j)
  /\ ~InTransaction(j) /\ pc[j] \notin {"write", "commit"} =>
       draft[j] = NoDraft /\ \A a \in Accounts : balLock[a] # j

\* The state a job found under the proposal's lock still stands, and it writes
\* balances only under theirs.
Drafting(j) ==
  /\ draft[j].status = IF InTransaction(j) THEN Makes(j) ELSE "same"
  /\ InTransaction(j) => status[prop[j]] = Requires(j)
  /\ draft[j].rows \in [DOMAIN draft[j].rows -> Nat]
  /\ \A a \in DOMAIN draft[j].rows : a \in Accounts /\ balLock[a] = j
  /\ draft[j].refunds \in [Accounts -> Nat]

\* The movement a job is making is one of its operation, and while it writes the
\* balance is the one it read.
Moving(j) ==
  /\ pc[j] \in {"purse", "write"} =>
       /\ move[j].to \in Accounts
       /\ \/ /\ move[j].kind = "refund" /\ j.op # "back"
             /\ move[j].amount \in Nat \ {0}
             /\ draft[j].refunds[move[j].to] = 0 /\ due[j][move[j].to] = 0
          \/ /\ move[j].kind = "payout" /\ j.op = "close"
             /\ move[j].to = Author[prop[j]]
             /\ move[j].amount = AuthorPayoutFor(Total(prop[j]))
          \/ /\ move[j].kind = "backing" /\ j.op = "back"
             /\ move[j].to = j.who /\ move[j].amount = -j.amount
  /\ pc[j] = "write" => balLock[move[j].to] = j /\ purse[j] = BalanceSeen(j, move[j].to)

\* Whoever is still due has not been refunded by this job, nor has anyone by one that
\* backs; the payout is written last.
Paying(j) ==
  /\ \A a \in Accounts : j.op = "back" \/ due[j][a] > 0 => draft[j].refunds[a] = 0
  /\ draft[j].payout =
       IF j.op = "close" /\ pc[j] = "commit" THEN AuthorPayoutFor(Total(prop[j])) ELSE 0

\* What j's transaction would add to a's balance.
Change(j, a) ==
  draft[j].refunds[a] + (IF a = Author[prop[j]] THEN draft[j].payout ELSE 0)
    - (IF j.op = "back" /\ pc[j] = "commit" /\ a = j.who THEN j.amount ELSE 0)

\* The balances a job would commit are the committed ones and its own movements.
Balanced(j) == \A a \in Accounts : BalanceSeen(j, a) = balance[a] + Change(j, a)

JobInv(j) == /\ OnPath(j) /\ Locking(j) /\ Drafting(j)
             /\ Moving(j) /\ Paying(j) /\ Balanced(j)

Inv == TypeOK /\ PaidOnce /\ Reconciles /\ \A j \in Jobs : JobInv(j)

--------------------------------------------------------------------------------
(* What follows while nobody closes behind a deletion. *)

\* Whoever deletes their account has no other deletion and no close running.
OneSettles ==
  \A j, k \in Jobs : j.op = "delete" /\ j # k /\ k.who = j.who => k.op \notin {"delete", "close"}

\* How far the refunds of a proposal are, by its state.
RefundState ==
  \A p \in Proposals :
    /\ status[p] = "open" => refunded[p] = Nothing
    /\ status[p] \in TERMINAL_STATES => refunded[p] = backed[p]
    /\ \A a \in Accounts : refunded[p][a] \in {0, backed[p][a]}

\* A close and a deletion settle proposals of their own account, and nobody closes
\* one of a deletion's.
Entitled(j) ==
  /\ j.op \in {"close", "delete"} /\ pc[j] \in {"lock"} \cup Busy => Author[prop[j]] = j.who
  /\ j.op = "delete" => \A p \in Proposals : Author[p] = j.who => status[p] # "closed"

\* A status a deletion loaded is the proposal's, or an earlier one.
Loaded(j) ==
  \A p \in Proposals :
    /\ seen[j][p] = "actioned" => status[p] \in {"actioned", "closed"}
    /\ seen[j][p] \in TERMINAL_STATES => status[p] = seen[j][p]

\* A deletion refunds outside the proposal's lock only what is actioned.
Unlocked(j) ==
  j.op = "delete" /\ pc[j] \in Busy /\ ~InTransaction(j) => status[prop[j]] = "actioned"

InHand(j, a) == pc[j] \in {"purse", "write"} /\ move[j].kind = "refund" /\ move[j].to = a

\* Every backer of the proposal j settles is either still due their whole stake, or in
\* hand, or paid up, on record and in j's draft together.
Accounted(j) ==
  j.op # "back" /\ pc[j] \in Busy =>
    \A a \in Accounts :
      /\ due[j][a] \in {0, backed[prop[j]][a]}
      /\ InHand(j, a) => /\ due[j][a] = 0
                         /\ refunded[prop[j]][a] + move[j].amount = backed[prop[j]][a]
      /\ due[j][a] = 0 /\ ~InHand(j, a) =>
           refunded[prop[j]][a] + draft[j].refunds[a] = backed[prop[j]][a]

\* Nobody is due any more when a settlement pays the author or ends.
AllPaid(j) ==
  /\ j.op # "back" /\ InTransaction(j)
  /\ pc[j] = "commit" \/ (pc[j] \in {"purse", "write"} /\ move[j].kind = "payout")
  => \A a \in Accounts : due[j][a] = 0

Settled(p) == status[p] # "open" /\ refunded[p] = backed[p]

\* What a deletion has visited and left is settled, and when it is done it has left all.
Visited(j) ==
  j.op = "delete" /\ pc[j] # "start" =>
    /\ \A p \in left[j] : Author[p] = j.who
    /\ pc[j] = "done" => left[j] = {}
    /\ \A p \in Proposals :
         Author[p] = j.who /\ p \notin left[j] /\ ~(p = prop[j] /\ pc[j] \in {"lock"} \cup Busy)
           => Settled(p)

SettleInv(j) == Entitled(j) /\ Loaded(j) /\ Unlocked(j) /\ Accounted(j) /\ AllPaid(j) /\ Visited(j)

SettlementInv == Inv /\ RefundState /\ \A j \in Jobs : SettleInv(j)

--------------------------------------------------------------------------------
USE DEF rows, locks, locals

LEMMA JobParts ==
  ASSUME NEW j \in Jobs
  PROVE  /\ j.op \in Ops /\ j.who \in Accounts /\ j.prop \in Proposals /\ j.amount \in Nat
         /\ j # NoJob
<1>1. j.op \in Ops /\ j.who \in Accounts /\ j.prop \in Proposals /\ j.amount \in Nat
  BY JobsAssumption
<1>2. NoJob.op = "none"
  BY DEF NoJob
<1> QED
  BY <1>1, <1>2 DEF Ops

\* What the model adds up with is what the sum lemmas are about.
LEMMA SumOverIs ==
  ASSUME NEW S, NEW f
  PROVE  SumOver(S, f) = SumOf(S, f)
BY DEF SumOver, SumOf

\* The next in order of id: a set of proposals or of accounts has a least.
LEMMA MinIn ==
  ASSUME NEW S, S \subseteq Proposals \/ S \subseteq Accounts, S # {}
  PROVE  Min(S) \in S
<1>1. IsFiniteSet(S) /\ \A x \in S : x \in Nat
  BY FiniteAssumption, IdsAssumption, FS_Subset
<1>2. \E y \in S : \A z \in S : y <= z
  BY <1>1, Least
<1> QED
  BY <1>2 DEF Min

\* The reward is a number, at least one.
LEMMA RewardType ==
  ASSUME TypeOK, NEW p \in Proposals
  PROVE  Total(p) \in Nat /\ AuthorPayoutFor(Total(p)) \in Nat \ {0}
<1>1. backed[p] \in [Accounts -> Nat]
  BY DEF TypeOK
<1> DEFINE f == backed[p]
<1>2. \A a \in Accounts : f[a] \in Nat
  BY <1>1
<1> HIDE DEF f
<1>3. SumOf(Accounts, f) \in Nat
  BY <1>2, FiniteAssumption, SumNat
<1>4. Total(p) \in Nat
  BY <1>3, SumOverIs DEF Total, f
<1>5. Total(p) \div 10 \in Int
  BY <1>4
<1> QED
  BY <1>4, <1>5 DEF AuthorPayoutFor

\* A balance as a job sees it, and what it would add, are numbers.
LEMMA SeenType ==
  ASSUME TypeOK, NEW j \in Jobs, JobInv(j), NEW a \in Accounts
  PROVE  /\ BalanceSeen(j, a) \in Nat /\ balance[a] \in Nat
         /\ draft[j].refunds[a] \in Nat /\ draft[j].payout \in Nat
         /\ Change(j, a) \in Int
<1>1. balance[a] \in Nat /\ prop[j] \in Proposals
  BY DEF TypeOK
<1>2. draft[j].refunds[a] \in Nat
  BY DEF JobInv, Drafting
<1>3. draft[j].payout \in Nat
  BY <1>1, RewardType DEF JobInv, Paying
<1>4. BalanceSeen(j, a) \in Nat
  BY <1>1 DEF BalanceSeen, JobInv, Drafting
<1>5. j.amount \in Nat
  BY JobParts
<1> QED
  BY <1>1, <1>2, <1>3, <1>4, <1>5 DEF Change

--------------------------------------------------------------------------------
(* Types. *)

\* Letting go and failing keep the types of what they change.
LEMMA RollBackType ==
  ASSUME TypeOK, NEW j \in Jobs, LetGo(j), Fail(j)
  PROVE  /\ propLock' \in [Proposals -> Jobs \cup {NoJob}]
         /\ balLock' \in [Accounts -> Jobs \cup {NoJob}]
         /\ pc' \in [Jobs -> {"start", "lock", "next", "refund", "purse", "write", "commit",
                             "done", "failed"}]
         /\ DOMAIN draft' = Jobs
BY DEF TypeOK, LetGo, Fail, Goto

\* What a commit puts on record has its type.
LEMMA CommitType ==
  ASSUME TypeOK, NEW j \in Jobs, JobInv(j), Commit(j)
  PROVE  TypeOK'
<1> DEFINE p == prop[j]
<1>1. p \in Proposals /\ \A a \in Accounts : BalanceSeen(j, a) \in Nat
  BY SeenType DEF TypeOK
<1>2. balance' \in [Accounts -> Nat]
  BY <1>1 DEF Commit
<1>3. refunded' \in [Proposals -> [Accounts -> Nat]]
  <2>1. [a \in Accounts |-> refunded[p][a] + draft[j].refunds[a]] \in [Accounts -> Nat]
    BY <1>1, SeenType DEF TypeOK
  <2> QED
    BY <2>1 DEF Commit, TypeOK
<1>4. payout' \in [Proposals -> Nat]
  <2>1. draft[j].payout \in Nat
    BY <1>1, RewardType DEF JobInv, Paying
  <2> QED
    BY <1>1, <2>1 DEF Commit, TypeOK
<1>5. backed' \in [Proposals -> [Accounts -> Nat]]
  <2>1. j.who \in Accounts /\ j.amount \in Nat
    BY JobParts
  <2>2. [backed[p] EXCEPT ![j.who] = @ + j.amount] \in [Accounts -> Nat]
    BY <1>1, <2>1 DEF TypeOK
  <2>3. backed' = backed \/ backed' = [backed EXCEPT ![p] = [backed[p] EXCEPT ![j.who] = @ + j.amount]]
    BY <1>1 DEF Commit, TypeOK
  <2> QED
    BY <1>1, <2>2, <2>3 DEF TypeOK
<1>6. status' \in [Proposals -> {"open", "actioned"} \cup TERMINAL_STATES]
  <2>1. draft[j].status \in {"same"} \cup TERMINAL_STATES
    BY JobParts DEF JobInv, Drafting, OnPath, Makes, TERMINAL_STATES, Ops, Commit
  <2> QED
    BY <1>1, <2>1 DEF Commit, TypeOK
<1>7. /\ propLock' \in [Proposals -> Jobs \cup {NoJob}]
      /\ balLock' \in [Accounts -> Jobs \cup {NoJob}]
  BY DEF Commit, LetGo, TypeOK
<1>8. pc' \in [Jobs -> {"start", "lock", "next", "refund", "purse", "write", "commit",
                       "done", "failed"}]
  BY JobParts DEF Commit, Goto, TypeOK
<1>9. DOMAIN move' = Jobs /\ DOMAIN draft' = Jobs
  BY DEF Commit, LetGo, TypeOK
<1> QED
  BY <1>2, <1>3, <1>4, <1>5, <1>6, <1>7, <1>8, <1>9 DEF Commit, TypeOK

\* Going to a place, a job stays in its procedure.
LEMMA GotoType ==
  ASSUME TypeOK, NEW j \in Jobs,
         NEW where \in {"start", "lock", "next", "refund", "purse", "write", "commit",
                        "done", "failed"},
         Goto(j, where)
  PROVE  pc' \in [Jobs -> {"start", "lock", "next", "refund", "purse", "write", "commit",
                           "done", "failed"}]
BY DEF TypeOK, Goto

\* Every step keeps every type: what a transaction has written is never negative.
LEMMA TypeInductive ==
  ASSUME Inv, [Next]_vars
  PROVE  TypeOK'
<1>0. TypeOK /\ \A j \in Jobs : JobInv(j)
  BY DEF Inv
<1>j. \A j \in Jobs : j.prop \in Proposals /\ prop[j] \in Proposals
  BY <1>0, JobParts DEF TypeOK
<1>1. ASSUME NEW j \in Jobs, Step(j) PROVE TypeOK'
  <2>1. CASE CheckBackable(j) \/ Begin(j) \/ FinishDeletion(j)
    BY <1>0, <2>1 DEF CheckBackable, Begin, FinishDeletion, Goto, TypeOK
  <2>2. CASE Action(j)
    BY <1>0, <1>j, <2>2 DEF Action, Goto, TypeOK
  <2>3. CASE LoadProposals(j)
    BY <1>0, <2>3 DEF LoadProposals, Goto, TypeOK
  <2>4. CASE NextProposal(j)
    <3> DEFINE p == Min(left[j])
    <3>1. p \in left[j]
      <4>1. left[j] # {} /\ left[j] \subseteq Proposals
        BY <1>0, <2>4 DEF NextProposal, TypeOK
      <4> QED
        BY <4>1, MinIn
    <3>2. due' \in [Jobs -> [Accounts -> Nat]]
      <4>1. p \in Proposals /\ backed[p] \in [Accounts -> Nat]
        BY <1>0, <2>4, <3>1 DEF NextProposal, TypeOK
      <4>2. due' = due \/ due' = [due EXCEPT ![j] = backed[p]]
        BY <2>4 DEF NextProposal
      <4> QED
        BY <1>0, <4>1, <4>2 DEF TypeOK
    <3>3. pc' \in [Jobs -> {"start", "lock", "next", "refund", "purse", "write", "commit",
                           "done", "failed"}]
      <4>1. Goto(j, "lock") \/ Goto(j, "refund") \/ pc' = pc
        BY <2>4 DEF NextProposal
      <4> QED
        BY <1>0, <4>1, GotoType DEF TypeOK
    <3>4. /\ left' \in [Jobs -> SUBSET Proposals]
          /\ prop' \in [Jobs -> Proposals]
      <4> HIDE DEF p
      <4>1. /\ left' = [left EXCEPT ![j] = @ \ {p}] /\ prop' = [prop EXCEPT ![j] = p]
            /\ p \in Proposals
        BY <1>0, <2>4, <3>1 DEF NextProposal, TypeOK, p
      <4> QED
        BY <1>0, <4>1 DEF TypeOK
    <3> HIDE DEF p
    <3> QED
      BY <1>0, <2>4, <3>2, <3>3, <3>4 DEF NextProposal, TypeOK
  <2>5. CASE LockProposal(j)
    <3>1. propLock' = [propLock EXCEPT ![prop[j]] = j]
      BY <2>5 DEF LockProposal
    <3>2. due' \in [Jobs -> [Accounts -> Nat]]
      <4>1. backed[prop[j]] \in [Accounts -> Nat]
        BY <1>0, <1>j DEF TypeOK
      <4>2. due' = due \/ due' = [due EXCEPT ![j] = backed[prop[j]]]
        BY <2>5 DEF LockProposal
      <4> QED
        BY <1>0, <4>1, <4>2 DEF TypeOK
    <3>3. pc' \in [Jobs -> {"start", "lock", "next", "refund", "purse", "write", "commit",
                           "done", "failed"}]
      <4>1. Goto(j, "purse") \/ Goto(j, "refund")
        BY <2>5 DEF LockProposal
      <4> QED
        BY <1>0, <4>1, GotoType
    <3>4. DOMAIN move' = Jobs /\ DOMAIN draft' = Jobs
      BY <1>0, <2>5 DEF LockProposal, TypeOK
    <3>5. propLock' \in [Proposals -> Jobs \cup {NoJob}]
      BY <1>0, <1>j, <3>1 DEF TypeOK
    <3> QED
      BY <1>0, <2>5, <3>2, <3>3, <3>4, <3>5 DEF LockProposal, TypeOK
  <2>6. CASE RefuseState(j)
    BY <1>0, <2>6 DEF RefuseState, Fail, Goto, TypeOK
  <2>7. CASE NextBacker(j)
    <3>1. due' \in [Jobs -> [Accounts -> Nat]]
      BY <1>0, <2>7 DEF NextBacker, TypeOK
    <3>2. pc' \in [Jobs -> {"start", "lock", "next", "refund", "purse", "write", "commit",
                           "done", "failed"}]
      <4>1. Goto(j, "purse") \/ pc' = pc
        BY <2>7 DEF NextBacker
      <4> QED
        BY <1>0, <4>1, GotoType DEF TypeOK
    <3> QED
      BY <1>0, <2>7, <3>1, <3>2 DEF NextBacker, TypeOK
  <2>8. CASE RefundsDone(j)
    BY <1>0, <2>8 DEF RefundsDone, Goto, TypeOK
  <2>9. CASE LockBalance(j)
    <3>1. move[j].to \in Accounts
      BY <1>0, <2>9 DEF LockBalance, JobInv, Moving
    <3>2. BalanceSeen(j, move[j].to) \in Nat
      BY <1>0, <3>1, SeenType
    <3> QED
      BY <1>0, <2>9, <3>1, <3>2 DEF LockBalance, Goto, TypeOK
  <2>10. CASE RefuseBalance(j)
    BY <1>0, <2>10, RollBackType DEF RefuseBalance, TypeOK
  <2>11. CASE Write(j)
    <3>1. DOMAIN draft' = Jobs
      BY <1>0, <2>11 DEF Write, TypeOK
    <3>2. pc' \in [Jobs -> {"start", "lock", "next", "refund", "purse", "write", "commit",
                           "done", "failed"}]
      BY <1>0, <2>11 DEF Write, Goto, TypeOK
    <3> QED
      BY <1>0, <2>11, <3>1, <3>2 DEF Write, TypeOK
  <2>12. CASE Commit(j)
    BY <1>0, <2>12, CommitType
  <2> QED
    BY <1>1, <2>1, <2>2, <2>3, <2>4, <2>5, <2>6, <2>7, <2>8, <2>9, <2>10, <2>11, <2>12 DEF Step
<1>2. ASSUME NEW j \in Jobs, DeadlockVictim(j) PROVE TypeOK'
  BY <1>0, <1>2, RollBackType DEF DeadlockVictim, TypeOK
<1>3. ASSUME NEW j \in Jobs, Crash(j) PROVE TypeOK'
  <2>1. crashes' \in 0..MaxCrashes
    BY <1>0, <1>3, CrashesAssumption DEF Crash, TypeOK
  <2> QED
    BY <1>0, <1>3, <2>1, RollBackType DEF Crash, TypeOK
<1>4. CASE UNCHANGED vars
  BY <1>0, <1>4 DEF vars, TypeOK
<1> QED
  BY <1>1, <1>2, <1>3, <1>4 DEF Next

--------------------------------------------------------------------------------
(* One job's step and the others. *)

\* A step of another job leaves what k relies on alone: k's own state, who holds its
\* rows, the proposal it holds and the balances it holds.
LEMMA OthersKeep ==
  ASSUME TypeOK, TypeOK', NEW k \in Jobs, JobInv(k),
         UNCHANGED <<pc[k], prop[k], due[k], move[k], purse[k], draft[k]>>,
         \A p \in Proposals : propLock'[p] = k <=> propLock[p] = k,
         \A a \in Accounts : balLock'[a] = k <=> balLock[a] = k,
         InTransaction(k) => /\ status'[prop[k]] = status[prop[k]]
                             /\ backed'[prop[k]] = backed[prop[k]],
         \A a \in Accounts : balLock[a] = k => balance'[a] = balance[a]
  PROVE  JobInv(k)'
<1>0. prop[k] \in Proposals /\ (InTransaction(k)' <=> InTransaction(k))
  BY DEF TypeOK, InTransaction
<1>t. InTransaction(k) => Total(prop[k])' = Total(prop[k])
  BY DEF Total
<1>1. OnPath(k)'
  BY DEF JobInv, OnPath
<1>2. Locking(k)'
  BY <1>0 DEF JobInv, Locking
<1>3. Drafting(k)'
  BY <1>0 DEF JobInv, Drafting, Makes, Requires
<1>4. Moving(k)'
  <2>1. Moving(k) /\ (pc[k] \in Busy /\ k.op # "delete" => InTransaction(k))
    BY DEF JobInv, Locking
  <2>2. pc[k] = "write" => balance'[move[k].to] = balance[move[k].to]
    BY <2>1 DEF Moving
  <2>3. pc[k] = "write" => BalanceSeen(k, move[k].to)' = BalanceSeen(k, move[k].to)
    BY <2>2 DEF BalanceSeen
  <2>4. pc[k] = "write" => balLock'[move[k].to] = k
    BY <2>1 DEF Moving
  <2>5. pc[k] \in {"purse", "write"} /\ k.op = "close" => Total(prop[k])' = Total(prop[k])
    BY <1>t, <2>1 DEF Busy
  <2> QED
    BY <2>1, <2>3, <2>4, <2>5 DEF Moving, AuthorPayoutFor
<1>5. Paying(k)'
  <2>1. pc[k] = "commit" /\ k.op = "close" => Total(prop[k])' = Total(prop[k])
    BY <1>t DEF JobInv, Locking, Busy
  <2> QED
    BY <2>1 DEF JobInv, Paying, AuthorPayoutFor
<1>6. Balanced(k)'
  <2> SUFFICES ASSUME NEW a \in Accounts
               PROVE  BalanceSeen(k, a)' = balance'[a] + Change(k, a)'
    BY DEF Balanced
  <2>1. Change(k, a)' = Change(k, a) /\ Change(k, a) \in Int
    BY SeenType DEF Change
  <2>2. BalanceSeen(k, a) = balance[a] + Change(k, a) /\ balance[a] \in Int /\ balance'[a] \in Int
    BY DEF JobInv, Balanced, TypeOK
  <2>3. CASE balLock[a] = k
    BY <2>1, <2>2, <2>3 DEF BalanceSeen
  <2>4. CASE a \notin DOMAIN draft[k].rows
    BY <2>1, <2>2, <2>4 DEF BalanceSeen
  <2> QED
    BY <2>3, <2>4 DEF JobInv, Drafting
<1> QED
  BY <1>1, <1>2, <1>3, <1>4, <1>5, <1>6 DEF JobInv

\* A step of j that commits nothing keeps the invariant when it keeps j's part.
LEMMA QuietKeeps ==
  ASSUME Inv, TypeOK', UNCHANGED rows, NEW j \in Jobs, JobInv(j)',
         \A k \in Jobs \ {j} :
           /\ UNCHANGED <<pc[k], prop[k], due[k], move[k], purse[k], draft[k]>>
           /\ \A p \in Proposals : propLock'[p] = k <=> propLock[p] = k
           /\ \A a \in Accounts : balLock'[a] = k <=> balLock[a] = k
  PROVE  Inv'
<1>1. ASSUME NEW k \in Jobs PROVE JobInv(k)'
  <2>1. CASE k = j
    BY <2>1
  <2>2. CASE k # j
    BY <2>2, OthersKeep DEF Inv
  <2> QED
    BY <2>1, <2>2
<1>2. PaidOnce' /\ Reconciles'
  BY DEF Inv, PaidOnce, Reconciles, Total, AuthorPayoutFor
<1> QED
  BY <1>1, <1>2 DEF Inv

\* A job that holds nothing and has written nothing owes its invariant nothing.
LEMMA EmptyHanded ==
  ASSUME TypeOK', NEW j \in Jobs, OnPath(j)', draft'[j] = NoDraft,
         \A p \in Proposals : propLock'[p] # j, \A a \in Accounts : balLock'[a] # j,
         pc'[j] \notin {"purse", "write", "commit"}, pc'[j] = "refund" => j.op = "delete"
  PROVE  JobInv(j)'
<1>1. /\ NoDraft.status = "same" /\ NoDraft.rows = NoRows /\ NoDraft.refunds = Nothing
      /\ NoDraft.payout = 0 /\ DOMAIN NoRows = {} /\ Nothing \in [Accounts -> Nat]
      /\ \A a \in Accounts : Nothing[a] = 0
  BY DEF NoDraft, NoRows, Nothing
<1>2. prop'[j] \in Proposals /\ ~InTransaction(j)'
  BY DEF TypeOK, InTransaction
<1>3. Locking(j)'
  BY <1>2 DEF Locking, Busy
<1>4. Drafting(j)'
  BY <1>1, <1>2 DEF Drafting
<1>5. Moving(j)'
  BY DEF Moving
<1>6. Paying(j)'
  BY <1>1 DEF Paying
<1>7. Balanced(j)'
  <2>1. j.amount \in Nat /\ \A a \in Accounts : balance'[a] \in Nat
    BY JobParts DEF TypeOK
  <2>2. \A a \in Accounts : Change(j, a)' = 0 /\ BalanceSeen(j, a)' = balance'[a]
    BY <1>1, <2>1 DEF Change, BalanceSeen
  <2> QED
    BY <2>1, <2>2 DEF Balanced
<1> QED
  BY <1>3, <1>4, <1>5, <1>6, <1>7 DEF JobInv

\* A transaction that is rolled back, whatever ended it.
LEMMA RolledBack ==
  ASSUME Inv, TypeOK', NEW j \in Jobs, LetGo(j), Fail(j),
         UNCHANGED <<rows, prop, seen, due, move, purse, left>>
  PROVE  Inv'
<1>1. TypeOK /\ OnPath(j)
  BY DEF Inv, JobInv
<1>2. pc'[j] = (IF j.op = "delete" THEN "start" ELSE "failed") /\ draft'[j] = NoDraft
  <2>1. j \in DOMAIN pc
    BY <1>1 DEF TypeOK
  <2>2. draft' = [draft EXCEPT ![j] = NoDraft] /\ j \in DOMAIN draft
    BY <1>1 DEF LetGo, TypeOK
  <2> QED
    BY <2>1, <2>2 DEF Fail, Goto, LetGo
<1>3. (\A p \in Proposals : propLock'[p] # j) /\ \A a \in Accounts : balLock'[a] # j
  BY JobParts DEF LetGo
<1>4. OnPath(j)'
  BY <1>1, <1>2, JobParts DEF OnPath, Ops
<1>5. JobInv(j)'
  BY <1>2, <1>3, <1>4, EmptyHanded
<1>6. ASSUME NEW k \in Jobs \ {j}
      PROVE  /\ UNCHANGED <<pc[k], prop[k], due[k], move[k], purse[k], draft[k]>>
             /\ \A p \in Proposals : propLock'[p] = k <=> propLock[p] = k
             /\ \A a \in Accounts : balLock'[a] = k <=> balLock[a] = k
  BY <1>1, JobParts DEF LetGo, Fail, Goto, TypeOK
<1> QED
  BY <1>5, <1>6, QuietKeeps

--------------------------------------------------------------------------------
(* Step by step: nothing is committed. *)

\* A job outside the locks has nothing of anyone's.
LEMMA Free ==
  ASSUME Inv, NEW j \in Jobs, pc[j] \notin Busy
  PROVE  /\ draft[j] = NoDraft
         /\ \A p \in Proposals : propLock[p] # j
         /\ \A a \in Accounts : balLock[a] # j
<1>1. Locking(j) /\ prop[j] \in Proposals
  BY DEF Inv, JobInv, TypeOK
<1>2. ~InTransaction(j) /\ pc[j] \notin {"write", "commit"}
  BY <1>1 DEF Locking, InTransaction, Busy
<1> QED
  BY <1>1, <1>2 DEF Locking

\* A step outside the locks moves its own job along its path.
LEMMA FreeStep ==
  ASSUME Inv, TypeOK', NEW j \in Jobs, pc[j] \notin Busy, UNCHANGED <<rows, locks, draft>>,
         OnPath(j)', pc'[j] \notin {"purse", "write", "commit"},
         pc'[j] = "refund" => j.op = "delete",
         \A k \in Jobs \ {j} : UNCHANGED <<pc[k], prop[k], due[k], move[k], purse[k]>>
  PROVE  Inv'
<1>1. JobInv(j)'
  BY Free, EmptyHanded
<1> QED
  BY <1>1, QuietKeeps

\* The steps before the first lock, and between two proposals of a deletion.
LEMMA BeforeLocks ==
  ASSUME Inv, TypeOK', NEW j \in Jobs,
         CheckBackable(j) \/ Begin(j) \/ LoadProposals(j) \/ NextProposal(j)
           \/ FinishDeletion(j) \/ RefuseState(j)
  PROVE  Inv'
<1>0. TypeOK /\ OnPath(j) /\ j \in DOMAIN pc /\ j.op \in Ops
  BY JobParts DEF Inv, JobInv, TypeOK
<1>t. prop \in [Jobs -> Proposals] /\ due \in [Jobs -> [Accounts -> Nat]]
  BY <1>0 DEF TypeOK
<1>1. pc[j] \notin Busy
  BY DEF CheckBackable, Begin, LoadProposals, NextProposal, FinishDeletion, RefuseState, Busy
<1>2. UNCHANGED <<rows, locks, draft, move, purse>>
  BY DEF CheckBackable, Begin, LoadProposals, NextProposal, FinishDeletion, RefuseState
<1>3. \A k \in Jobs \ {j} : UNCHANGED <<pc[k], prop[k], due[k]>>
  <2>1. (\E where : Goto(j, where)) \/ UNCHANGED pc
    BY DEF CheckBackable, Begin, LoadProposals, NextProposal, FinishDeletion, RefuseState, Fail
  <2>2. prop' = [prop EXCEPT ![j] = Min(left[j])] \/ UNCHANGED prop
    BY DEF CheckBackable, Begin, LoadProposals, NextProposal, FinishDeletion, RefuseState
  <2>3. due' = [due EXCEPT ![j] = backed[Min(left[j])]] \/ UNCHANGED due
    BY DEF CheckBackable, Begin, LoadProposals, NextProposal, FinishDeletion, RefuseState
  <2>4. DOMAIN pc = Jobs
    BY <1>0 DEF TypeOK
  <2> QED
    BY <1>t, <2>1, <2>2, <2>3, <2>4 DEF Goto
<1>4. /\ pc'[j] \notin {"purse", "write", "commit"}
      /\ pc'[j] = "refund" => j.op = "delete"
      /\ OnPath(j)'
  <2>1. CASE CheckBackable(j)
    BY <1>0, <2>1 DEF CheckBackable, Goto, OnPath
  <2>2. CASE Begin(j)
    BY <1>0, <2>2 DEF Begin, Goto, OnPath
  <2>3. CASE LoadProposals(j)
    BY <1>0, <2>3 DEF LoadProposals, Goto, OnPath
  <2>4. CASE NextProposal(j)
    <3>1. pc[j] = "next" /\ j.op = "delete"
      BY <1>0, <2>4 DEF NextProposal, OnPath, Ops
    <3>2. pc'[j] \in {"lock", "refund", "next"}
      BY <1>0, <2>4 DEF NextProposal, Goto
    <3> QED
      BY <3>1, <3>2 DEF OnPath
  <2>5. CASE FinishDeletion(j)
    BY <1>0, <2>5 DEF FinishDeletion, Goto, OnPath
  <2>6. CASE RefuseState(j)
    BY <1>0, <2>6 DEF RefuseState, Fail, Goto, OnPath
  <2> QED
    BY <2>1, <2>2, <2>3, <2>4, <2>5, <2>6
<1> QED
  BY <1>1, <1>2, <1>3, <1>4, FreeStep

\* with_lock finds the state it requires, and keeps it.
LEMMA LockedStep ==
  ASSUME Inv, TypeOK', NEW j \in Jobs, LockProposal(j)
  PROVE  Inv'
<1>0. TypeOK /\ JobInv(j) /\ j \in DOMAIN pc /\ j.op \in Ops /\ j.amount \in Nat
      /\ j.who \in Accounts /\ j # NoJob /\ prop[j] \in Proposals
  BY JobParts DEF Inv, TypeOK
<1>t. /\ DOMAIN draft = Jobs /\ DOMAIN move = Jobs /\ propLock \in [Proposals -> Jobs \cup {NoJob}]
      /\ due \in [Jobs -> [Accounts -> Nat]] /\ DOMAIN pc = Jobs
  BY <1>0 DEF TypeOK
<1>f. /\ draft[j] = NoDraft
      /\ \A p \in Proposals : propLock[p] # j
      /\ \A a \in Accounts : balLock[a] # j
  BY Free DEF LockProposal, Busy
<1>n. /\ NoDraft.status = "same" /\ NoDraft.rows = NoRows /\ NoDraft.refunds = Nothing
      /\ NoDraft.payout = 0 /\ DOMAIN NoRows = {} /\ Nothing \in [Accounts -> Nat]
      /\ \A a \in Accounts : Nothing[a] = 0
  BY DEF NoDraft, NoRows, Nothing
<1>1. /\ UNCHANGED <<rows, balLock, prop, purse>>
      /\ propLock[prop[j]] = NoJob /\ propLock' = [propLock EXCEPT ![prop[j]] = j]
      /\ status[prop[j]] = Requires(j)
      /\ draft' = [draft EXCEPT ![j].status = Makes(j)]
  BY DEF LockProposal, ProposalFree, Ready
<1>2. /\ draft'[j].status = Makes(j) /\ draft'[j].rows = NoRows
      /\ draft'[j].refunds = Nothing /\ draft'[j].payout = 0
  BY <1>t, <1>f, <1>1 DEF NoDraft
<1>3. j.op # "action" /\ pc'[j] = (IF j.op = "back" THEN "purse" ELSE "refund")
  BY <1>0 DEF LockProposal, Goto, JobInv, OnPath
<1>4. OnPath(j)'
  BY <1>0, <1>1, <1>3 DEF JobInv, OnPath
<1>5. /\ InTransaction(j)'
      /\ \A p \in Proposals : propLock'[p] = j <=> p = prop[j]
  BY <1>0, <1>t, <1>f, <1>1 DEF InTransaction
<1>6. Locking(j)'
  BY <1>1, <1>3, <1>5 DEF Locking, Busy
<1>7. Drafting(j)'
  <2>1. Makes(j)' = Makes(j) /\ status'[prop'[j]] = Requires(j)'
    BY <1>1 DEF Makes, Requires
  <2>2. draft'[j].rows \in [DOMAIN draft'[j].rows -> Nat] /\ DOMAIN draft'[j].rows = {}
    BY <1>2, <1>n
  <2> QED
    BY <1>2, <1>5, <1>n, <2>1, <2>2 DEF Drafting
<1>8. Moving(j)'
  <2>1. j.op = "back" => move'[j] = [kind |-> "backing", to |-> j.who, amount |-> -j.amount]
    BY <1>t DEF LockProposal
  <2> QED
    BY <1>0, <1>3, <2>1 DEF Moving
<1>9. Paying(j)'
  BY <1>2, <1>3, <1>n DEF Paying
<1>10. Balanced(j)'
  <2>1. \A a \in Accounts : balance'[a] \in Nat
    BY DEF TypeOK
  <2>2. \A a \in Accounts : Change(j, a)' = 0 /\ BalanceSeen(j, a)' = balance'[a]
    BY <1>0, <1>2, <1>3, <1>n DEF Change, BalanceSeen
  <2> QED
    BY <2>1, <2>2 DEF Balanced
<1>11. JobInv(j)'
  BY <1>4, <1>6, <1>7, <1>8, <1>9, <1>10 DEF JobInv
<1>12. ASSUME NEW k \in Jobs \ {j}
       PROVE  /\ UNCHANGED <<pc[k], prop[k], due[k], move[k], purse[k], draft[k]>>
              /\ \A p \in Proposals : propLock'[p] = k <=> propLock[p] = k
  <2>1. UNCHANGED <<pc[k], due[k], move[k]>>
    BY <1>t DEF LockProposal, Goto
  <2> QED
    BY <1>0, <1>t, <1>1, <2>1, JobParts
<1> QED
  BY <1>1, <1>11, <1>12, QuietKeeps

\* The next backer is not due any more, and has nothing in the draft yet.
LEMMA BackerStep ==
  ASSUME Inv, TypeOK', NEW j \in Jobs, NextBacker(j)
  PROVE  Inv'
<1> DEFINE a == Min(Backers(j))
<1>0. TypeOK /\ JobInv(j) /\ j.op \in Ops /\ prop[j] \in Proposals
  BY JobParts DEF Inv, TypeOK
<1>t. /\ due \in [Jobs -> [Accounts -> Nat]] /\ DOMAIN pc = Jobs /\ DOMAIN move = Jobs
      /\ refunded[prop[j]] \in [Accounts -> Nat]
  BY <1>0 DEF TypeOK
<1>a. a \in Accounts /\ due[j][a] > 0
  <2>1. Backers(j) \subseteq Accounts /\ Backers(j) # {}
    BY DEF Backers, NextBacker
  <2>2. a \in Backers(j)
    BY <2>1, MinIn
  <2> QED
    BY <2>2 DEF Backers
<1> HIDE DEF a
<1>1. /\ pc[j] = "refund" /\ UNCHANGED <<rows, locks, prop, purse, draft>>
      /\ due' = [due EXCEPT ![j][a] = 0]
      /\ \/ /\ OwedNow(j, a) > 0
            /\ move' = [move EXCEPT ![j] = [kind |-> "refund", to |-> a, amount |-> OwedNow(j, a)]]
            /\ Goto(j, "purse")
         \/ UNCHANGED <<move, pc>>
  BY DEF NextBacker, a
<1>2. /\ \A b \in Accounts : due'[j][b] = (IF b = a THEN 0 ELSE due[j][b])
      /\ j.op # "back" /\ draft[j].refunds[a] = 0
  BY <1>0, <1>a, <1>1, <1>t DEF JobInv, OnPath, Paying
<1>3. pc'[j] \in {"refund", "purse"} /\ (InTransaction(j)' <=> InTransaction(j))
  BY <1>1, <1>t DEF Goto, InTransaction
<1>4. OnPath(j)'
  BY <1>0, <1>1, <1>2, <1>3 DEF JobInv, OnPath
<1>5. Locking(j)'
  BY <1>0, <1>1, <1>3 DEF JobInv, Locking, Busy
<1>6. Drafting(j)'
  BY <1>0, <1>1, <1>3 DEF JobInv, Drafting, Makes, Requires
<1>7. Moving(j)'
  <2>1. OwedNow(j, a) \in Int
    BY <1>a, <1>t DEF OwedNow
  <2>2. pc'[j] = "purse" =>
          move'[j] = [kind |-> "refund", to |-> a, amount |-> OwedNow(j, a)] /\ OwedNow(j, a) > 0
    BY <1>1, <1>t DEF Goto
  <2> QED
    BY <1>1, <1>2, <1>3, <1>a, <2>1, <2>2 DEF Moving
<1>8. Paying(j)'
  BY <1>0, <1>1, <1>2, <1>3 DEF JobInv, Paying
<1>9. Balanced(j)'
  BY <1>0, <1>1, <1>3 DEF JobInv, Balanced, BalanceSeen, Change
<1>10. JobInv(j)'
  BY <1>4, <1>5, <1>6, <1>7, <1>8, <1>9 DEF JobInv
<1>11. \A k \in Jobs \ {j} : UNCHANGED <<pc[k], prop[k], due[k], move[k], purse[k], draft[k]>>
  BY <1>1, <1>t DEF Goto
<1> QED
  BY <1>1, <1>10, <1>11, QuietKeeps

\* A close that has refunded everyone has not paid its author yet.
LEMMA RefundedStep ==
  ASSUME Inv, TypeOK', NEW j \in Jobs, RefundsDone(j)
  PROVE  Inv'
<1>0. TypeOK /\ JobInv(j) /\ j.op \in Ops /\ prop[j] \in Proposals
  BY JobParts DEF Inv, TypeOK
<1>t. DOMAIN pc = Jobs /\ DOMAIN move = Jobs /\ Author[prop[j]] \in Accounts
  BY <1>0, AuthorAssumption DEF TypeOK
<1>1. pc[j] = "refund" /\ UNCHANGED <<rows, locks, prop, due, purse, draft>> /\ j.op # "back"
  BY <1>0 DEF RefundsDone, JobInv, OnPath
<1>2. InTransaction(j) \/ j.op = "delete"
  BY <1>0, <1>1 DEF JobInv, Locking, Busy
<1>3. j.op = "close" => PaysAuthor(j)
  <2>1. j.op = "close" => status[prop[j]] = "actioned"
    BY <1>0, <1>2 DEF JobInv, Drafting, Requires
  <2> QED
    BY <1>0, <2>1 DEF Inv, PaidOnce, PaysAuthor
<1>4. \/ /\ j.op = "close" /\ pc'[j] = "purse"
         /\ move'[j] = [kind |-> "payout", to |-> Author[prop[j]],
                        amount |-> AuthorPayoutFor(Total(prop[j]))]
      \/ /\ j.op # "close" /\ pc'[j] = (IF InTransaction(j) THEN "commit" ELSE "next")
  BY <1>3, <1>t DEF RefundsDone, Goto, PaysAuthor
<1>5. InTransaction(j)' <=> InTransaction(j)
  BY <1>1 DEF InTransaction
<1>6. OnPath(j)'
  BY <1>0, <1>1, <1>2, <1>4 DEF JobInv, OnPath
<1>7. Locking(j)'
  BY <1>0, <1>1, <1>4, <1>5 DEF JobInv, Locking, InTransaction, Busy
<1>8. Drafting(j)'
  BY <1>0, <1>1, <1>5 DEF JobInv, Drafting, Makes, Requires
<1>9. Moving(j)'
  <2>1. Total(prop[j])' = Total(prop[j])
    BY <1>1 DEF Total
  <2> QED
    BY <1>1, <1>4, <1>t, <2>1 DEF Moving, AuthorPayoutFor
<1>10. Paying(j)'
  BY <1>0, <1>1, <1>4 DEF JobInv, Paying
<1>11. Balanced(j)'
  BY <1>0, <1>1 DEF JobInv, Balanced, BalanceSeen, Change
<1>12. JobInv(j)'
  BY <1>6, <1>7, <1>8, <1>9, <1>10, <1>11 DEF JobInv
<1>13. \A k \in Jobs \ {j} : UNCHANGED <<pc[k], prop[k], due[k], move[k], purse[k], draft[k]>>
  BY <1>1, <1>t DEF RefundsDone, Goto
<1> QED
  BY <1>1, <1>12, <1>13, QuietKeeps

\* lock_balance: what is read under the lock is what it will be added to.
LEMMA PurseStep ==
  ASSUME Inv, TypeOK', NEW j \in Jobs, LockBalance(j)
  PROVE  Inv'
<1>0. TypeOK /\ JobInv(j) /\ prop[j] \in Proposals
  BY DEF Inv, TypeOK
<1>t. /\ DOMAIN pc = Jobs /\ DOMAIN purse = Jobs
      /\ balLock \in [Accounts -> Jobs \cup {NoJob}]
  BY <1>0 DEF TypeOK
<1>1. /\ pc[j] = "purse" /\ UNCHANGED <<rows, propLock, prop, due, move, draft>>
      /\ balLock[move[j].to] \in {NoJob, j} /\ balLock' = [balLock EXCEPT ![move[j].to] = j]
      /\ purse' = [purse EXCEPT ![j] = BalanceSeen(j, move[j].to)] /\ Goto(j, "write")
  BY DEF LockBalance, BalanceFree
<1>2. move[j].to \in Accounts
  BY <1>0, <1>1 DEF JobInv, Moving
<1>3. pc'[j] = "write" /\ (InTransaction(j)' <=> InTransaction(j))
  BY <1>1, <1>t DEF Goto, InTransaction
<1>4. /\ \A a \in Accounts : balLock'[a] = (IF a = move[j].to THEN j ELSE balLock[a])
      /\ \A a \in Accounts : BalanceSeen(j, a)' = BalanceSeen(j, a)
  BY <1>1, <1>2, <1>t DEF BalanceSeen
<1>5. OnPath(j)'
  BY <1>0, <1>1, <1>3 DEF JobInv, OnPath
<1>6. Locking(j)'
  BY <1>0, <1>1, <1>3 DEF JobInv, Locking, Busy
<1>7. Drafting(j)'
  BY <1>0, <1>1, <1>3, <1>4 DEF JobInv, Drafting, Makes, Requires
<1>8. Moving(j)'
  <2>1. Total(prop[j])' = Total(prop[j])
    BY <1>1 DEF Total
  <2>2. purse'[j] = BalanceSeen(j, move[j].to)'
    BY <1>1, <1>2, <1>4, <1>t DEF BalanceSeen
  <2> QED
    BY <1>0, <1>1, <1>2, <1>3, <1>4, <2>1, <2>2 DEF JobInv, Moving, AuthorPayoutFor
<1>9. Paying(j)'
  BY <1>0, <1>1, <1>3 DEF JobInv, Paying
<1>10. Balanced(j)'
  BY <1>0, <1>1, <1>3 DEF JobInv, Balanced, BalanceSeen, Change
<1>11. JobInv(j)'
  BY <1>5, <1>6, <1>7, <1>8, <1>9, <1>10 DEF JobInv
<1>12. \A k \in Jobs \ {j} :
         /\ UNCHANGED <<pc[k], prop[k], due[k], move[k], purse[k], draft[k]>>
         /\ \A a \in Accounts : balLock'[a] = k <=> balLock[a] = k
  BY <1>1, <1>2, <1>4, <1>t, JobParts DEF Goto
<1> QED
  BY <1>1, <1>11, <1>12, QuietKeeps

\* What a write puts in the draft is what it adds to the balance.
LEMMA WriteStep ==
  ASSUME Inv, TypeOK', NEW j \in Jobs, Write(j)
  PROVE  Inv'
<1> DEFINE m == move[j]
           d == draft[j]
           e == draft'[j]
<1>0. TypeOK /\ JobInv(j) /\ prop[j] \in Proposals /\ j.op \in Ops /\ j.amount \in Nat
  BY JobParts DEF Inv, TypeOK
<1>t. DOMAIN pc = Jobs /\ DOMAIN draft = Jobs /\ purse[j] \in Nat
  BY <1>0 DEF TypeOK
<1>1. /\ pc[j] = "write" /\ UNCHANGED <<rows, locks, prop, due, move, purse>>
      /\ Enough(j) /\ Goto(j, IF Nested(j) THEN "refund" ELSE "commit")
  BY DEF Write
<1>m. /\ m.to \in Accounts /\ balLock[m.to] = j /\ purse[j] = BalanceSeen(j, m.to)
      /\ m.amount \in Int
      /\ \/ /\ m.kind = "refund" /\ j.op # "back" /\ m.amount \in Nat \ {0}
            /\ d.refunds[m.to] = 0 /\ due[j][m.to] = 0
         \/ /\ m.kind = "payout" /\ j.op = "close" /\ m.to = Author[prop[j]]
            /\ m.amount = AuthorPayoutFor(Total(prop[j])) /\ m.amount \in Nat \ {0}
         \/ m.kind = "backing" /\ j.op = "back" /\ m.to = j.who /\ m.amount = -j.amount
  BY <1>0, <1>1, RewardType DEF JobInv, Moving
<1>2. /\ InTransaction(j)' <=> InTransaction(j)
      /\ pc'[j] = (IF Nested(j) THEN "refund" ELSE "commit")
      /\ j.op = "close" => (pc'[j] = "commit" <=> m.kind = "payout")
      /\ j.op # "delete" => InTransaction(j)
  BY <1>0, <1>1, <1>m, <1>t DEF Goto, InTransaction, Nested, JobInv, Locking, Busy
<1>3. /\ e.status = d.status
      /\ DOMAIN e.rows = DOMAIN d.rows \cup {m.to}
      /\ \A a \in DOMAIN e.rows : e.rows[a] = (IF a = m.to THEN purse[j] + m.amount ELSE d.rows[a])
      /\ e.rows = [a \in DOMAIN d.rows \cup {m.to} |->
                     IF a = m.to THEN purse[j] + m.amount ELSE d.rows[a]]
      /\ e.refunds = IF m.kind = "refund" THEN [d.refunds EXCEPT ![m.to] = m.amount] ELSE d.refunds
      /\ e.payout = IF m.kind = "payout" THEN m.amount ELSE d.payout
  <2> DEFINE w == [d EXCEPT !.rows = [a \in DOMAIN d.rows \cup {m.to} |->
                                        IF a = m.to THEN purse[j] + m.amount ELSE d.rows[a]]]
  <2>1. e = (CASE m.kind = "refund" -> [w EXCEPT !.refunds[m.to] = m.amount]
               [] m.kind = "payout" -> [w EXCEPT !.payout = m.amount]
               [] m.kind = "backing" -> w)
    BY <1>t DEF Write
  <2>2. CASE m.kind = "refund"
    <3>1. e = [w EXCEPT !.refunds[m.to] = m.amount]
      BY <2>1, <2>2
    <3> QED
      BY <2>2, <3>1
  <2>3. CASE m.kind = "payout"
    <3>1. e = [w EXCEPT !.payout = m.amount]
      BY <2>1, <2>3
    <3> QED
      BY <2>3, <3>1
  <2>4. CASE m.kind = "backing"
    <3>1. e = w
      BY <2>1, <2>4
    <3> QED
      BY <2>4, <3>1
  <2> QED
    BY <1>m, <2>2, <2>3, <2>4
<1>4. d.refunds \in [Accounts -> Nat] /\ purse[j] + m.amount \in Nat
  BY <1>0, <1>1, <1>m, <1>t DEF JobInv, Drafting, Enough
<1>5. OnPath(j)'
  BY <1>0, <1>1, <1>2, <1>m DEF JobInv, OnPath, Nested
<1>6. Locking(j)'
  BY <1>0, <1>1, <1>2 DEF JobInv, Locking, Busy, Nested
<1>7. Drafting(j)'
  <2>1. Makes(j)' = Makes(j) /\ Requires(j)' = Requires(j)
    BY DEF Makes, Requires
  <2>2. e.rows \in [DOMAIN e.rows -> Nat]
    BY <1>0, <1>3, <1>4 DEF JobInv, Drafting
  <2>3. e.refunds \in [Accounts -> Nat]
    BY <1>3, <1>4, <1>m
  <2> QED
    BY <1>0, <1>1, <1>2, <1>3, <1>m, <2>1, <2>2, <2>3 DEF JobInv, Drafting
<1>8. Moving(j)'
  BY <1>2 DEF Moving
<1>9. Paying(j)'
  <2>1. Total(prop[j])' = Total(prop[j])
    BY <1>1 DEF Total
  <2>2. \A a \in Accounts : j.op = "back" \/ due[j][a] > 0 => e.refunds[a] = 0
    BY <1>0, <1>3, <1>4, <1>m DEF JobInv, Paying
  <2>3. e.payout = IF j.op = "close" /\ pc'[j] = "commit"
                   THEN AuthorPayoutFor(Total(prop[j])) ELSE 0
    BY <1>0, <1>1, <1>2, <1>3, <1>m DEF JobInv, Paying
  <2> QED
    BY <1>1, <2>1, <2>2, <2>3 DEF Paying, AuthorPayoutFor
<1>10. Balanced(j)'
  <2> SUFFICES ASSUME NEW a \in Accounts
               PROVE  BalanceSeen(j, a)' = balance'[a] + Change(j, a)'
    BY DEF Balanced
  <2>1. /\ BalanceSeen(j, a) = balance[a] + Change(j, a)
        /\ BalanceSeen(j, a) \in Nat /\ balance[a] \in Nat /\ Change(j, a) \in Int
        /\ d.refunds[a] \in Nat /\ d.payout \in Nat
    BY <1>0, SeenType DEF JobInv, Balanced
  <2>2. BalanceSeen(j, a)' = (IF a = m.to THEN purse[j] + m.amount ELSE BalanceSeen(j, a))
    BY <1>1, <1>3 DEF BalanceSeen
  <2>3. Change(j, a)' = (IF a = m.to THEN Change(j, a) + m.amount ELSE Change(j, a))
    <3>1. m.kind \in {"refund", "payout"} =>
            d.payout = 0 /\ (j.op # "back") /\ Author[prop'[j]] = Author[prop[j]]
      BY <1>0, <1>1, <1>m DEF JobInv, Paying
    <3>2. e.refunds[a] = (IF m.kind = "refund" /\ a = m.to THEN m.amount ELSE d.refunds[a])
      BY <1>3, <1>4, <1>m
    <3>3. CASE m.kind = "refund"
      BY <1>1, <1>3, <1>m, <2>1, <3>1, <3>2, <3>3 DEF Change
    <3>4. CASE m.kind = "payout"
      BY <1>1, <1>3, <1>m, <2>1, <3>1, <3>2, <3>4 DEF Change
    <3>5. CASE m.kind = "backing"
      <4>1. pc'[j] = "commit" /\ j.op = "back" /\ m.to = j.who /\ m.amount = -j.amount
        BY <1>2, <1>m, <3>5 DEF Nested
      <4>2. e.refunds[a] = d.refunds[a] /\ e.payout = d.payout
        BY <1>3, <3>2, <3>5
      <4> QED
        BY <1>0, <1>1, <2>1, <4>1, <4>2 DEF Change
    <3> QED
      BY <1>m, <3>3, <3>4, <3>5
  <2> QED
    BY <1>1, <1>4, <1>m, <2>1, <2>2, <2>3
<1>11. JobInv(j)'
  BY <1>5, <1>6, <1>7, <1>8, <1>9, <1>10 DEF JobInv
<1>12. \A k \in Jobs \ {j} : UNCHANGED <<pc[k], draft[k]>>
  BY <1>1, <1>t DEF Goto, Write
<1> QED
  BY <1>1, <1>11, <1>12, QuietKeeps

--------------------------------------------------------------------------------
(* Step by step: what is committed. *)

\* action! takes nobody's lock: whoever holds the proposal has it as it found it.
LEMMA ActionStep ==
  ASSUME Inv, TypeOK', NEW j \in Jobs, Action(j)
  PROVE  Inv'
<1>0. TypeOK /\ j.op = "action" /\ j.prop \in Proposals /\ pc[j] \notin Busy
  BY JobParts DEF Inv, Action, Busy
<1>t. DOMAIN pc = Jobs /\ DOMAIN status = Proposals /\ \A k \in Jobs : prop[k] \in Proposals
  BY <1>0 DEF TypeOK
<1>1. /\ UNCHANGED <<balance, backed, refunded, payout, locks, prop, due, move, purse, draft>>
      /\ propLock[j.prop] = NoJob
      /\ pc' = [pc EXCEPT ![j] = IF status[j.prop] = "open" THEN "done" ELSE "failed"]
      /\ status' = (IF status[j.prop] = "open"
                    THEN [status EXCEPT ![j.prop] = "actioned"] ELSE status)
  BY DEF Action, Goto
<1>2. ASSUME NEW k \in Jobs PROVE JobInv(k)'
  <2>1. CASE k = j
    <3>1. OnPath(j)' /\ pc'[j] \in {"done", "failed"}
      BY <1>0, <1>1, <1>t DEF Inv, JobInv, OnPath
    <3> QED
      BY <1>0, <1>1, <2>1, <3>1, Free, EmptyHanded
  <2>2. CASE k # j
    <3>1. InTransaction(k) => status'[prop[k]] = status[prop[k]]
      BY <1>1, <1>t, JobParts DEF InTransaction
    <3> QED
      BY <1>0, <1>1, <1>t, <2>2, <3>1, OthersKeep DEF Inv
  <2> QED
    BY <2>1, <2>2
<1>3. PaidOnce'
  <2>1. \A p \in Proposals : Total(p)' = Total(p) /\ (status'[p] = "closed" <=> status[p] = "closed")
    BY <1>0, <1>1, <1>t DEF Total
  <2> QED
    BY <1>1, <2>1 DEF Inv, PaidOnce, AuthorPayoutFor
<1>4. Reconciles'
  BY <1>1 DEF Inv, Reconciles
<1> QED
  BY <1>2, <1>3, <1>4 DEF Inv

\* What a commit does to the proposal it is about, and that it does no more.
LEMMA CommitEffect ==
  ASSUME Inv, NEW j \in Jobs, Commit(j)
  PROVE  /\ prop[j] \in Proposals /\ j.op \in Ops \ {"action"}
         /\ \A p \in Proposals : p # prop[j] =>
              UNCHANGED <<status[p], backed[p], refunded[p], payout[p]>>
         /\ status'[prop[j]] = IF draft[j].status = "same" THEN status[prop[j]] ELSE draft[j].status
         /\ refunded'[prop[j]] = [a \in Accounts |-> refunded[prop[j]][a] + draft[j].refunds[a]]
         /\ payout'[prop[j]] = payout[prop[j]] + draft[j].payout
         /\ backed'[prop[j]] = IF j.op = "back"
                               THEN [backed[prop[j]] EXCEPT ![j.who] = @ + j.amount]
                               ELSE backed[prop[j]]
         /\ ~InTransaction(j) => j.op = "delete" /\ draft[j].status = "same"
         /\ draft[j].payout = IF j.op = "close" THEN AuthorPayoutFor(Total(prop[j])) ELSE 0
         /\ draft[j].payout \in Nat /\ draft[j].refunds \in [Accounts -> Nat]
<1>0. TypeOK /\ JobInv(j) /\ j.op \in Ops /\ pc[j] = "commit"
  BY JobParts DEF Inv, Commit
<1>1. /\ prop[j] \in Proposals /\ DOMAIN status = Proposals /\ DOMAIN backed = Proposals
      /\ DOMAIN refunded = Proposals /\ DOMAIN payout = Proposals
  BY <1>0 DEF TypeOK
<1>2. j.op # "action" /\ (~InTransaction(j) => j.op = "delete" /\ draft[j].status = "same")
  BY <1>0 DEF JobInv, OnPath, Locking, Drafting, Busy
<1>3. draft[j].payout = IF j.op = "close" THEN AuthorPayoutFor(Total(prop[j])) ELSE 0
  BY <1>0 DEF JobInv, Paying
<1>4. /\ \A p \in Proposals : p # prop[j] =>
              UNCHANGED <<status[p], backed[p], refunded[p], payout[p]>>
      /\ status'[prop[j]] = IF draft[j].status = "same" THEN status[prop[j]] ELSE draft[j].status
      /\ payout'[prop[j]] = payout[prop[j]] + draft[j].payout
      /\ refunded'[prop[j]] = [a \in Accounts |-> refunded[prop[j]][a] + draft[j].refunds[a]]
      /\ backed'[prop[j]] = IF j.op = "back"
                            THEN [backed[prop[j]] EXCEPT ![j.who] = @ + j.amount]
                            ELSE backed[prop[j]]
  BY <1>1 DEF Commit
<1>5. draft[j].payout \in Nat /\ draft[j].refunds \in [Accounts -> Nat]
  BY <1>0, <1>1, <1>3, RewardType DEF JobInv, Drafting
<1> QED
  BY <1>0, <1>1, <1>2, <1>3, <1>4, <1>5

\* A commit moves balances only its job has locked.
LEMMA CommitLocked ==
  ASSUME Inv, NEW j \in Jobs, Commit(j), NEW a \in Accounts
  PROVE  /\ balance'[a] = balance[a] + Change(j, a)
         /\ balLock[a] # j => balance'[a] = balance[a]
<1>1. balance'[a] = BalanceSeen(j, a)
  BY DEF Commit
<1>2. JobInv(j)
  BY DEF Inv
<1> QED
  BY <1>1, <1>2 DEF JobInv, Balanced, Drafting, BalanceSeen

\* The author of a closed proposal, and of no other, is paid.
LEMMA CommitPays ==
  ASSUME Inv, NEW j \in Jobs, Commit(j)
  PROVE  PaidOnce'
<1> SUFFICES ASSUME NEW p \in Proposals
             PROVE  payout'[p] = IF status'[p] = "closed" THEN AuthorPayoutFor(Total(p))' ELSE 0
  BY DEF PaidOnce
<1>0. TypeOK /\ JobInv(j) /\ payout[p] = IF status[p] = "closed" THEN AuthorPayoutFor(Total(p)) ELSE 0
  BY DEF Inv, PaidOnce
<1>1. p # prop[j] \/ j.op # "back" => AuthorPayoutFor(Total(p))' = AuthorPayoutFor(Total(p))
  BY CommitEffect DEF Total, AuthorPayoutFor
<1>2. CASE p # prop[j]
  BY <1>0, <1>1, <1>2, CommitEffect
<1>3. CASE p = prop[j] /\ ~InTransaction(j)
  <2>1. j.op = "delete" /\ draft[j].status = "same" /\ draft[j].payout = 0
    <3>1. j.op = "delete" /\ draft[j].status = "same"
      BY <1>3, CommitEffect
    <3>2. draft[j].payout = (IF j.op = "close" THEN AuthorPayoutFor(Total(prop[j])) ELSE 0)
      BY CommitEffect
    <3> QED
      BY <3>1, <3>2
  <2>2. payout'[p] = payout[p] + draft[j].payout /\ status'[p] = status[p]
    BY <1>3, <2>1, CommitEffect
  <2>3. payout[p] \in Nat
    BY <1>0 DEF TypeOK
  <2> QED
    BY <1>0, <1>1, <1>3, <2>1, <2>2, <2>3
<1>4. CASE p = prop[j] /\ InTransaction(j)
  <2>1. /\ status[p] = Requires(j) /\ draft[j].status = Makes(j)
        /\ status'[p] = (IF Makes(j) = "same" THEN status[p] ELSE Makes(j))
        /\ payout[p] = 0
    BY <1>0, <1>4, CommitEffect DEF JobInv, Drafting, Requires
  <2>2. payout'[p] = draft[j].payout
    <3>1. draft[j].payout \in Nat /\ payout'[p] = payout[p] + draft[j].payout
      BY <1>4, CommitEffect
    <3> QED
      BY <2>1, <3>1
  <2>3. CASE j.op = "close"
    BY <1>1, <1>4, <2>1, <2>2, <2>3, CommitEffect DEF Makes
  <2>4. CASE j.op # "close"
    BY <1>4, <2>1, <2>2, <2>4, CommitEffect DEF Makes, Requires, Ops
  <2> QED
    BY <2>3, <2>4
<1> QED
  BY <1>2, <1>3, <1>4

\* What a commit adds to a balance is what it puts on record.
LEMMA CommitReconciles ==
  ASSUME Inv, TypeOK', NEW j \in Jobs, Commit(j)
  PROVE  Reconciles'
<1> SUFFICES ASSUME NEW a \in Accounts
             PROVE  balance'[a] = StartingBalance
                      + SumOver(Proposals, [p \in Proposals |-> refunded'[p][a] - backed'[p][a]])
                      + SumOver({p \in Proposals : Author[p] = a}, payout')
  BY DEF Reconciles
<1> DEFINE f == [p \in Proposals |-> refunded[p][a] - backed[p][a]]
           g == [p \in Proposals |-> refunded'[p][a] - backed'[p][a]]
           Mine == {p \in Proposals : Author[p] = a}
           q == prop[j]
           staked == IF j.op = "back" /\ a = j.who THEN j.amount ELSE 0
           paid == IF a = Author[q] THEN draft[j].payout ELSE 0
<1>0. TypeOK /\ JobInv(j) /\ j.amount \in Nat /\ j.who \in Accounts /\ q \in Proposals
  BY JobParts DEF Inv, TypeOK
<1>1. balance[a] = StartingBalance + SumOf(Proposals, f) + SumOf(Mine, payout)
  <2>1. balance[a] = StartingBalance + SumOver(Proposals, f) + SumOver(Mine, payout)
    BY DEF Inv, Reconciles
  <2> HIDE DEF f, Mine
  <2> QED
    BY <2>1, SumOverIs
<1>2. balance'[a] = balance[a] + (draft[j].refunds[a] + paid - staked)
  BY CommitLocked DEF Change, Commit
<1>t. /\ backed \in [Proposals -> [Accounts -> Nat]] /\ refunded \in [Proposals -> [Accounts -> Nat]]
      /\ backed' \in [Proposals -> [Accounts -> Nat]] /\ refunded' \in [Proposals -> [Accounts -> Nat]]
      /\ payout \in [Proposals -> Nat] /\ payout' \in [Proposals -> Nat]
  BY <1>0 DEF TypeOK
<1>n. draft[j].refunds[a] \in Nat /\ draft[j].payout \in Nat /\ balance[a] \in Nat
  BY <1>0, SeenType
<1>3. /\ \A p \in Proposals : f[p] \in Int /\ g[p] \in Int
      /\ \A p \in Proposals \ {q} : f[p] = g[p]
      /\ g[q] - f[q] = draft[j].refunds[a] - staked
  <2>1. /\ \A p \in Proposals : f[p] \in Int /\ g[p] \in Int
        /\ \A p \in Proposals \ {q} : f[p] = g[p]
    <3>1. \A p \in Proposals : f[p] \in Int /\ g[p] \in Int
      BY <1>t
    <3>2. \A p \in Proposals \ {q} : backed'[p] = backed[p] /\ refunded'[p] = refunded[p]
      BY CommitEffect
    <3> QED
      BY <3>1, <3>2
  <2>2. refunded'[q][a] = refunded[q][a] + draft[j].refunds[a]
    <3>1. refunded'[q] = [b \in Accounts |-> refunded[q][b] + draft[j].refunds[b]]
      BY CommitEffect
    <3> QED
      BY <3>1
  <2>3. backed'[q][a] = backed[q][a] + staked
    <3>1. backed'[q] = IF j.op = "back" THEN [backed[q] EXCEPT ![j.who] = @ + j.amount]
                       ELSE backed[q]
      BY CommitEffect
    <3>2. backed[q] \in [Accounts -> Nat]
      BY <1>0, <1>t
    <3> QED
      BY <1>0, <3>1, <3>2
  <2>4. refunded[q][a] \in Nat /\ backed[q][a] \in Nat /\ staked \in Nat
    BY <1>0, <1>t
  <2> QED
    BY <1>0, <1>n, <2>1, <2>2, <2>3, <2>4
<1>4. SumOf(Proposals, g) = SumOf(Proposals, f) + (draft[j].refunds[a] - staked)
  <2> HIDE DEF f, g, q, staked
  <2> QED
    BY <1>0, <1>3, FiniteAssumption, SumChange
<1>5. SumOf(Mine, payout') = SumOf(Mine, payout) + paid
  <2>1. IsFiniteSet(Mine) /\ Mine \subseteq Proposals
    BY FiniteAssumption, FS_Subset
  <2>2. /\ \A p \in Mine : payout[p] \in Int /\ payout'[p] \in Int
        /\ \A p \in Mine \ {q} : payout[p] = payout'[p]
    <3>1. \A p \in Proposals : payout[p] \in Int /\ payout'[p] \in Int
      BY <1>t
    <3>2. \A p \in Proposals \ {q} : payout'[p] = payout[p]
      BY CommitEffect
    <3> QED
      BY <3>1, <3>2
  <2>3. CASE q \in Mine
    <3>1. payout'[q] - payout[q] = paid
      <4>1. payout'[q] = payout[q] + draft[j].payout
        BY CommitEffect
      <4>2. payout[q] \in Nat /\ paid = draft[j].payout
        BY <1>0, <1>t, <2>3
      <4> QED
        BY <1>n, <4>1, <4>2
    <3> HIDE DEF Mine, q, paid
    <3> QED
      BY <2>1, <2>2, <2>3, <3>1, SumChange
  <2>4. CASE q \notin Mine
    <3>1. paid = 0
      BY <1>0, <2>4
    <3>2. \A p \in Mine : payout[p] = payout'[p]
      BY <2>2, <2>4
    <3> HIDE DEF Mine, q, paid
    <3> QED
      BY <2>1, <2>2, <3>1, <3>2, SumSame, SumInt
  <2> QED
    BY <2>3, <2>4
<1>6. balance'[a] = StartingBalance + SumOf(Proposals, g) + SumOf(Mine, payout')
  <2>1. SumOf(Proposals, f) \in Int /\ SumOf(Mine, payout) \in Int
    <3>1. IsFiniteSet(Mine) /\ (\A p \in Mine : payout[p] \in Int) /\ \A p \in Proposals : f[p] \in Int
      BY <1>3, <1>t, FiniteAssumption, FS_Subset
    <3> HIDE DEF f, Mine
    <3> QED
      BY <3>1, FiniteAssumption, SumInt
  <2>2. staked \in Int /\ paid \in Int /\ draft[j].refunds[a] \in Int /\ StartingBalance \in Int
    BY <1>0, <1>n, StartAssumption
  <2> HIDE DEF f, g, Mine, staked, paid, q
  <2> QED
    BY <1>1, <1>2, <1>4, <1>5, <2>1, <2>2
<1>7. balance'[a] = StartingBalance + SumOver(Proposals, g) + SumOver(Mine, payout')
  <2> HIDE DEF g, Mine
  <2> QED
    BY <1>6, SumOverIs
<1> QED
  BY <1>7

\* Whoever else is in a transaction has locked what it relies on against this one.
LEMMA CommitStep ==
  ASSUME Inv, TypeOK', NEW j \in Jobs, Commit(j)
  PROVE  Inv'
<1>0. TypeOK /\ JobInv(j) /\ pc[j] = "commit" /\ j.op \in Ops /\ j # NoJob
  BY JobParts DEF Inv, Commit
<1>t. DOMAIN pc = Jobs /\ DOMAIN draft = Jobs /\ \A k \in Jobs : prop[k] \in Proposals
  BY <1>0 DEF TypeOK
<1>1. /\ UNCHANGED <<prop, due, move, purse>>
      /\ propLock' = [p \in Proposals |-> IF propLock[p] = j THEN NoJob ELSE propLock[p]]
      /\ balLock' = [a \in Accounts |-> IF balLock[a] = j THEN NoJob ELSE balLock[a]]
      /\ draft' = [draft EXCEPT ![j] = NoDraft]
      /\ pc' = [pc EXCEPT ![j] = CASE j.op # "delete" -> "done"
                                   [] j.op = "delete" /\ InTransaction(j) -> "next"
                                   [] j.op = "delete" /\ ~InTransaction(j) -> "refund"]
  BY DEF Commit, LetGo, Goto
<1>2. ASSUME NEW k \in Jobs PROVE JobInv(k)'
  <2>1. CASE k = j
    <3>1. /\ draft'[j] = NoDraft /\ \A p \in Proposals : propLock'[p] # j
          /\ \A a \in Accounts : balLock'[a] # j
      BY <1>0, <1>1, <1>t
    <3>2. /\ j.op # "delete" => pc'[j] = "done"
          /\ j.op = "delete" => pc'[j] \in {"next", "refund"}
      BY <1>1, <1>t
    <3>3. OnPath(j)'
      BY <1>0, <1>1, <3>2 DEF JobInv, OnPath
    <3> QED
      BY <2>1, <3>1, <3>2, <3>3, EmptyHanded
  <2>2. CASE k # j
    <3>1. JobInv(k) /\ k # NoJob /\ j # NoJob
      BY JobParts DEF Inv
    <3>2. UNCHANGED <<pc[k], prop[k], due[k], move[k], purse[k], draft[k]>>
      BY <1>1, <1>t, <2>2
    <3>3. /\ \A p \in Proposals : propLock'[p] = k <=> propLock[p] = k
          /\ \A a \in Accounts : balLock'[a] = k <=> balLock[a] = k
      BY <1>1, <2>2, <3>1
    <3>4. InTransaction(k) => /\ status'[prop[k]] = status[prop[k]]
                              /\ backed'[prop[k]] = backed[prop[k]]
      <4>1. CASE prop[k] # prop[j]
        BY <1>t, <4>1, CommitEffect
      <4>2. CASE prop[k] = prop[j]
        <5>1. InTransaction(k) => ~InTransaction(j)
          BY <2>2, <4>2 DEF InTransaction
        <5> QED
          BY <4>2, <5>1, CommitEffect
      <4> QED
        BY <4>1, <4>2
    <3>5. \A a \in Accounts : balLock[a] = k => balance'[a] = balance[a]
      BY <2>2, CommitLocked
    <3> QED
      BY <1>0, <3>1, <3>2, <3>3, <3>4, <3>5, OthersKeep
  <2> QED
    BY <2>1, <2>2
<1> QED
  BY <1>2, CommitPays, CommitReconciles DEF Inv

--------------------------------------------------------------------------------
(* The first three theorems. *)

LEMMA Starts ==
  ASSUME Init
  PROVE  Inv
<1>1. TypeOK
  <2>1. \A j \in Jobs : j.prop \in Proposals
    BY JobParts
  <2> QED
    BY <2>1, StartAssumption, CrashesAssumption DEF Init, TypeOK, Nothing, NoJob
<1>2. PaidOnce
  BY DEF Init, PaidOnce
<1>3. Reconciles
  <2> SUFFICES ASSUME NEW a \in Accounts
               PROVE  balance[a] = StartingBalance
                        + SumOver(Proposals, [p \in Proposals |-> refunded[p][a] - backed[p][a]])
                        + SumOver({p \in Proposals : Author[p] = a}, payout)
    BY DEF Reconciles
  <2> DEFINE f == [p \in Proposals |-> refunded[p][a] - backed[p][a]]
             Mine == {p \in Proposals : Author[p] = a}
  <2>1. (\A p \in Proposals : f[p] = 0) /\ \A p \in Mine : payout[p] = 0
    BY DEF Init, Nothing
  <2>2. IsFiniteSet(Mine)
    BY FiniteAssumption, FS_Subset
  <2>3. SumOver(Proposals, f) = 0 /\ SumOver(Mine, payout) = 0
    <3> HIDE DEF f, Mine
    <3>1. SumOf(Proposals, f) = 0 /\ SumOf(Mine, payout) = 0
      BY <2>1, <2>2, FiniteAssumption, SumZero
    <3> QED
      BY <3>1, SumOverIs
  <2>4. balance[a] = StartingBalance
    BY DEF Init
  <2> HIDE DEF f, Mine
  <2>5. balance[a] = StartingBalance + SumOver(Proposals, f) + SumOver(Mine, payout)
    BY <2>3, <2>4, StartAssumption
  <2> QED
    BY <2>5 DEF f, Mine
<1>4. ASSUME NEW j \in Jobs PROVE JobInv(j)
  <2>1. /\ pc[j] = "start" /\ prop[j] = j.prop /\ draft[j] = NoDraft
        /\ due[j] = Nothing
        /\ \A p \in Proposals : propLock[p] # j
        /\ \A a \in Accounts : balLock[a] # j
        /\ j.prop \in Proposals /\ j.amount \in Nat
    BY JobParts DEF Init
  <2>2. /\ NoDraft.status = "same" /\ NoDraft.rows = NoRows /\ NoDraft.refunds = Nothing
        /\ NoDraft.payout = 0 /\ DOMAIN NoRows = {} /\ Nothing \in [Accounts -> Nat]
        /\ \A a \in Accounts : Nothing[a] = 0
    BY DEF NoDraft, NoRows, Nothing
  <2>3. OnPath(j) /\ Locking(j) /\ ~InTransaction(j)
    BY <2>1 DEF OnPath, Locking, InTransaction, Busy
  <2>4. Drafting(j) /\ Moving(j) /\ Paying(j)
    BY <2>1, <2>2, <2>3 DEF Drafting, Moving, Paying
  <2>5. Balanced(j)
    <3>1. \A a \in Accounts : balance[a] \in Nat
      BY <1>1 DEF TypeOK
    <3>2. \A a \in Accounts : Change(j, a) = 0 /\ BalanceSeen(j, a) = balance[a]
      BY <2>1, <2>2 DEF Change, BalanceSeen
    <3> QED
      BY <3>1, <3>2 DEF Balanced
  <2> QED
    BY <2>3, <2>4, <2>5 DEF JobInv
<1> QED
  BY <1>1, <1>2, <1>3, <1>4 DEF Inv

LEMMA Inductive ==
  ASSUME Inv, [Next]_vars
  PROVE  Inv'
<1>0. TypeOK'
  BY TypeInductive
<1>1. ASSUME NEW j \in Jobs, Step(j) PROVE Inv'
  <2>1. CASE \/ CheckBackable(j) \/ Begin(j) \/ LoadProposals(j) \/ NextProposal(j)
             \/ FinishDeletion(j) \/ RefuseState(j)
    BY <1>0, <2>1, BeforeLocks
  <2>2. CASE Action(j)
    BY <1>0, <2>2, ActionStep
  <2>3. CASE LockProposal(j)
    BY <1>0, <2>3, LockedStep
  <2>4. CASE NextBacker(j)
    BY <1>0, <2>4, BackerStep
  <2>5. CASE RefundsDone(j)
    BY <1>0, <2>5, RefundedStep
  <2>6. CASE LockBalance(j)
    BY <1>0, <2>6, PurseStep
  <2>7. CASE RefuseBalance(j)
    BY <1>0, <2>7, RolledBack DEF RefuseBalance
  <2>8. CASE Write(j)
    BY <1>0, <2>8, WriteStep
  <2>9. CASE Commit(j)
    BY <1>0, <2>9, CommitStep
  <2> QED
    BY <1>1, <2>1, <2>2, <2>3, <2>4, <2>5, <2>6, <2>7, <2>8, <2>9 DEF Step
<1>2. ASSUME NEW j \in Jobs, DeadlockVictim(j) PROVE Inv'
  BY <1>0, <1>2, RolledBack DEF DeadlockVictim
<1>3. ASSUME NEW j \in Jobs, Crash(j) PROVE Inv'
  BY <1>0, <1>3, RolledBack DEF Crash
<1>4. CASE UNCHANGED vars
  <2>1. PaidOnce' /\ Reconciles'
    BY <1>4 DEF Inv, vars, PaidOnce, Reconciles, Total, AuthorPayoutFor
  <2>2. ASSUME NEW j \in Jobs PROVE JobInv(j)'
    <3>1. TypeOK /\ JobInv(j)
      BY DEF Inv
    <3> QED
      BY <1>0, <1>4, <3>1, OthersKeep DEF vars
  <2> QED
    BY <1>0, <2>1, <2>2 DEF Inv
<1> QED
  BY <1>1, <1>2, <1>3, <1>4 DEF Next

LEMMA Invariance == Spec => []Inv
BY Starts, Inductive, PTL DEF Spec

\* No committed balance is ever negative, whatever was backed at once.
THEOREM TypeCorrect == Spec => []TypeOK
BY Invariance, PTL DEF Inv

\* ProposalStates.close! pays the author of a closed proposal the reward once, and
\* nobody pays any other author anything, whoever closes, backs, annuls and deletes
\* at once and whatever is rolled back or killed.
THEOREM AuthorPaidOnce == Spec => []PaidOnce
BY Invariance, PTL DEF Inv

\* "A balance can never drift from its audit trail": what is committed in a balance
\* is the start, less its backings, plus its refunds and its rewards, in any
\* interleaving of the statements of any jobs.
THEOREM EveryBalanceReconciles == Spec => []Reconciles
BY Invariance, PTL DEF Inv

--------------------------------------------------------------------------------
(* While nobody closes behind a deletion. *)

\* Two jobs are never at the same proposal's tokens: whoever has locked it found a
\* state no unlocked refund is made in, and only its proposer could have both.
LEMMA NoRivals ==
  ASSUME OneSettles, SettlementInv, NEW j \in Jobs, NEW k \in Jobs, j # k,
         pc[j] \in Busy, pc[k] \in Busy
  PROVE  prop[j] # prop[k]
<1> SUFFICES ASSUME prop[j] = prop[k] PROVE FALSE
  OBVIOUS
<1>0. /\ JobInv(j) /\ SettleInv(j) /\ j.op \in Ops /\ JobInv(k) /\ SettleInv(k) /\ k.op \in Ops
  BY JobParts DEF SettlementInv, Inv
<1>1. ~(InTransaction(j) /\ InTransaction(k))
  BY DEF InTransaction
<1>2. /\ ~InTransaction(j) => j.op = "delete" /\ status[prop[j]] = "actioned"
      /\ ~InTransaction(k) => k.op = "delete" /\ status[prop[k]] = "actioned"
  BY <1>0 DEF JobInv, Locking, SettleInv, Unlocked
<1>3. /\ InTransaction(j) => status[prop[j]] = Requires(j)
      /\ InTransaction(k) => status[prop[k]] = Requires(k)
  BY <1>0 DEF JobInv, Drafting
<1>4. j.op \in {"close", "delete"} /\ k.op \in {"close", "delete"}
      /\ (j.op = "delete" \/ k.op = "delete")
  BY <1>1, <1>2, <1>3 DEF Requires
<1>5. Author[prop[j]] = j.who /\ Author[prop[k]] = k.who
  BY <1>0, <1>4 DEF SettleInv, Entitled
<1> QED
  BY <1>4, <1>5 DEF OneSettles

\* A state only moves on, and not to closed behind a deletion.
Forward ==
  \A p \in Proposals :
    \/ status'[p] = status[p]
    \/ status[p] = "open" /\ status'[p] \in {"actioned", "annulled"}
    \/ status[p] = "actioned" /\ status'[p] = "closed"

\* A step of another job leaves a settlement where it is.
LEMMA OthersSettle ==
  ASSUME TypeOK, NEW k \in Jobs, SettleInv(k), Forward,
         UNCHANGED <<pc[k], prop[k], seen[k], due[k], move[k], draft[k], left[k]>>,
         propLock'[prop[k]] = k <=> propLock[prop[k]] = k,
         k.op = "delete" =>
           \A p \in Proposals : Author[p] = k.who /\ status'[p] = "closed" => status[p] = "closed",
         pc[k] \in Busy => UNCHANGED <<backed[prop[k]], refunded[prop[k]]>>,
         \A p \in Proposals : Settled(p) => Settled(p)'
  PROVE  SettleInv(k)'
<1>0. prop[k] \in Proposals /\ (InTransaction(k)' <=> InTransaction(k))
  BY DEF TypeOK, InTransaction
<1>1. Entitled(k)'
  BY DEF SettleInv, Entitled
<1>2. Loaded(k)'
  BY DEF SettleInv, Loaded, Forward, TERMINAL_STATES
<1>3. Unlocked(k)'
  <2>1. k.op = "delete" /\ pc[k] \in Busy => Author[prop[k]] = k.who
    BY DEF SettleInv, Entitled
  <2>2. k.op = "delete" /\ pc[k] \in Busy /\ ~InTransaction(k) => status[prop[k]] = "actioned"
    BY DEF SettleInv, Unlocked
  <2> QED
    BY <1>0, <2>1, <2>2 DEF Unlocked, Forward
<1>4. Accounted(k)'
  BY <1>0 DEF SettleInv, Accounted, InHand
<1>5. AllPaid(k)'
  BY <1>0 DEF SettleInv, AllPaid
<1>6. Visited(k)'
  BY DEF SettleInv, Visited
<1> QED
  BY <1>1, <1>2, <1>3, <1>4, <1>5, <1>6 DEF SettleInv

\* A step of j that commits nothing keeps the settlements when it keeps j's own.
LEMMA QuietSettles ==
  ASSUME SettlementInv, Inv', UNCHANGED rows, NEW j \in Jobs, SettleInv(j)',
         \A k \in Jobs \ {j} :
           /\ UNCHANGED <<pc[k], prop[k], seen[k], due[k], move[k], draft[k], left[k]>>
           /\ \A p \in Proposals : propLock'[p] = k <=> propLock[p] = k
  PROVE  SettlementInv'
<1>0. TypeOK /\ RefundState'
  BY DEF SettlementInv, Inv, RefundState
<1>1. Forward /\ \A p \in Proposals : Settled(p) => Settled(p)'
  BY DEF Forward, Settled
<1>2. ASSUME NEW k \in Jobs PROVE SettleInv(k)'
  <2>1. CASE k = j
    BY <2>1
  <2>2. CASE k # j
    <3>1. SettleInv(k) /\ prop[k] \in Proposals
      BY <1>0 DEF SettlementInv, TypeOK
    <3> QED
      BY <1>0, <1>1, <2>2, <3>1, OthersSettle
  <2> QED
    BY <2>1, <2>2
<1> QED
  BY <1>0, <1>2 DEF SettlementInv

\* Outside the locks a job's part is what it may do and what it has done.
LEMMA Outside ==
  ASSUME NEW j \in Jobs, pc'[j] \notin Busy, Entitled(j)', Loaded(j)', Visited(j)'
  PROVE  SettleInv(j)'
BY DEF SettleInv, Unlocked, Accounted, AllPaid, Busy

\* A transaction that is rolled back leaves a deletion to begin again.
LEMMA SettleRolledBack ==
  ASSUME SettlementInv, Inv', NEW j \in Jobs, LetGo(j), Fail(j),
         UNCHANGED <<rows, prop, seen, due, move, purse, left>>
  PROVE  SettlementInv'
<1>0. TypeOK /\ SettleInv(j) /\ DOMAIN pc = Jobs /\ DOMAIN draft = Jobs
  BY DEF SettlementInv, Inv, TypeOK
<1>1. /\ pc' = [pc EXCEPT ![j] = IF j.op = "delete" THEN "start" ELSE "failed"]
      /\ draft' = [draft EXCEPT ![j] = NoDraft]
      /\ propLock' = [p \in Proposals |-> IF propLock[p] = j THEN NoJob ELSE propLock[p]]
  BY DEF Fail, Goto, LetGo
<1>2. pc'[j] \in {"start", "failed"} /\ (j.op = "delete" => pc'[j] = "start")
  BY <1>0, <1>1
<1>3. Entitled(j)' /\ Loaded(j)' /\ Visited(j)'
  BY <1>0, <1>2 DEF SettleInv, Entitled, Loaded, Visited, Busy
<1>4. SettleInv(j)'
  BY <1>2, <1>3, Outside DEF Busy
<1>5. ASSUME NEW k \in Jobs \ {j}
      PROVE  /\ UNCHANGED <<pc[k], draft[k]>>
             /\ \A p \in Proposals : propLock'[p] = k <=> propLock[p] = k
  BY <1>0, <1>1, JobParts
<1> QED
  BY <1>4, <1>5, QuietSettles

\* The steps before the first lock, and the end of a deletion.
LEMMA SettleBefore ==
  ASSUME SettlementInv, Inv', NEW j \in Jobs,
         CheckBackable(j) \/ Begin(j) \/ LoadProposals(j) \/ FinishDeletion(j) \/ RefuseState(j)
  PROVE  SettlementInv'
<1>0. /\ TypeOK /\ SettleInv(j) /\ JobInv(j) /\ DOMAIN pc = Jobs /\ j.op \in Ops
      /\ DOMAIN seen = Jobs /\ DOMAIN left = Jobs
  BY JobParts DEF SettlementInv, Inv, TypeOK
<1>1. UNCHANGED <<rows, locks, prop, due, move, purse, draft>>
  BY DEF CheckBackable, Begin, LoadProposals, FinishDeletion, RefuseState
<1>2. \A k \in Jobs \ {j} : UNCHANGED <<pc[k], seen[k], left[k]>>
  <2>1. (\E where : Goto(j, where)) \/ UNCHANGED pc
    BY DEF CheckBackable, Begin, LoadProposals, FinishDeletion, RefuseState, Fail
  <2>2. /\ seen' = [seen EXCEPT ![j] = status] \/ UNCHANGED seen
        /\ left' = [left EXCEPT ![j] = {p \in Proposals : Author[p] = j.who}] \/ UNCHANGED left
    BY DEF CheckBackable, Begin, LoadProposals, FinishDeletion, RefuseState
  <2> QED
    BY <1>0, <2>1, <2>2 DEF Goto
<1>3. SettleInv(j)'
  <2>1. CASE CheckBackable(j)
    <3>1. j.op = "back" /\ pc'[j] \in {"lock", "failed"} /\ UNCHANGED <<seen, left>>
      BY <1>0, <2>1 DEF CheckBackable, Goto
    <3> QED
      BY <1>0, <1>1, <3>1, Outside DEF SettleInv, Entitled, Loaded, Visited, Busy
  <2>2. CASE Begin(j)
    <3>1. /\ j.op \in {"close", "annul"} /\ pc'[j] \in {"lock", "failed"} /\ UNCHANGED <<seen, left>>
          /\ j.op = "close" /\ pc'[j] = "lock" => Author[j.prop] = j.who
      BY <1>0, <2>2 DEF Begin, Goto
    <3>2. prop'[j] = j.prop
      BY <1>0, <1>1, <3>1 DEF JobInv, OnPath
    <3> QED
      BY <1>0, <1>1, <3>1, <3>2, Outside DEF SettleInv, Entitled, Loaded, Visited, Busy
  <2>3. CASE LoadProposals(j)
    <3>1. /\ pc'[j] = "next" /\ seen'[j] = status
          /\ left'[j] = {p \in Proposals : Author[p] = j.who}
      BY <1>0, <2>3 DEF LoadProposals, Goto
    <3>2. Loaded(j)'
      BY <1>1, <3>1 DEF Loaded
    <3>3. Entitled(j)' /\ Visited(j)'
      BY <1>0, <1>1, <3>1 DEF SettleInv, Entitled, Visited, Busy
    <3> QED
      BY <3>1, <3>2, <3>3, Outside DEF Busy
  <2>4. CASE FinishDeletion(j)
    <3>1. pc[j] = "next" /\ pc'[j] = "done" /\ left[j] = {} /\ UNCHANGED <<seen, left>>
      BY <1>0, <2>4 DEF FinishDeletion, Goto
    <3>2. Entitled(j)' /\ Loaded(j)'
      BY <1>0, <1>1, <3>1 DEF SettleInv, Entitled, Loaded, Busy
    <3>3. Visited(j)'
      <4>1. \A p \in Proposals : Settled(p)' <=> Settled(p)
        BY <1>1 DEF Settled
      <4> QED
        BY <1>0, <1>1, <3>1, <4>1 DEF SettleInv, Visited, Busy
    <3> QED
      BY <3>1, <3>2, <3>3, Outside DEF Busy
  <2>5. CASE RefuseState(j)
    <3>1. /\ pc'[j] \in {"start", "failed"} /\ (j.op = "delete" => pc'[j] = "start")
          /\ UNCHANGED <<seen, left>>
      BY <1>0, <2>5 DEF RefuseState, Fail, Goto
    <3>2. Entitled(j)' /\ Loaded(j)' /\ Visited(j)'
      BY <1>0, <1>1, <3>1 DEF SettleInv, Entitled, Loaded, Visited, Busy
    <3> QED
      BY <3>1, <3>2, Outside DEF Busy
  <2> QED
    BY <2>1, <2>2, <2>3, <2>4, <2>5
<1> QED
  BY <1>1, <1>2, <1>3, QuietSettles

\* A deletion goes to the next proposal of its batch: one it finds actioned still is,
\* and one it finds decided is settled.
LEMMA SettleNext ==
  ASSUME SettlementInv, Inv', NEW j \in Jobs, NextProposal(j)
  PROVE  SettlementInv'
<1> DEFINE p == Min(left[j])
<1>0. /\ TypeOK /\ SettleInv(j) /\ JobInv(j) /\ DOMAIN pc = Jobs /\ j.op \in Ops
      /\ DOMAIN left = Jobs /\ DOMAIN prop = Jobs /\ DOMAIN due = Jobs
  BY JobParts DEF SettlementInv, Inv, TypeOK
<1>1. /\ UNCHANGED <<rows, locks, seen, move, purse, draft>> /\ pc[j] = "next" /\ left[j] # {}
      /\ left' = [left EXCEPT ![j] = left[j] \ {p}] /\ prop' = [prop EXCEPT ![j] = p]
      /\ \/ seen[j][p] = "open" /\ pc' = [pc EXCEPT ![j] = "lock"] /\ UNCHANGED due
         \/ /\ seen[j][p] = "actioned"
            /\ due' = [due EXCEPT ![j] = backed[p]] /\ pc' = [pc EXCEPT ![j] = "refund"]
         \/ seen[j][p] \in TERMINAL_STATES /\ UNCHANGED <<pc, due>>
  BY DEF NextProposal, Goto
<1>2. p \in left[j] /\ p \in Proposals
  <2>1. left[j] \subseteq Proposals
    BY <1>0 DEF TypeOK
  <2>2. p \in left[j]
    BY <1>1, <2>1, MinIn
  <2> QED
    BY <2>1, <2>2
<1> HIDE DEF p
<1>3. j.op = "delete" /\ Author[p] = j.who
  <2>1. j.op = "delete"
    BY <1>0, <1>1 DEF JobInv, OnPath, Ops
  <2> QED
    BY <1>0, <1>1, <1>2, <2>1 DEF SettleInv, Visited
<1>4. left'[j] = left[j] \ {p} /\ prop'[j] = p /\ pc'[j] \in {"lock", "refund", "next"}
  BY <1>0, <1>1
<1>f. /\ draft[j] = NoDraft /\ \A q \in Proposals : propLock[q] # j
  BY <1>1, Free DEF SettlementInv, Busy
<1>5. Entitled(j)'
  BY <1>0, <1>1, <1>3, <1>4 DEF SettleInv, Entitled
<1>6. Loaded(j)'
  BY <1>0, <1>1 DEF SettleInv, Loaded
<1>7. pc'[j] = "refund" => status[p] = "actioned" /\ due'[j] = backed[p]
  <2>1. pc'[j] = "refund" => seen[j][p] = "actioned" /\ due'[j] = backed[p]
    BY <1>0, <1>1
  <2>2. seen[j][p] = "actioned" => status[p] \in {"actioned", "closed"}
    BY <1>0, <1>2 DEF SettleInv, Loaded
  <2>3. status[p] # "closed"
    BY <1>0, <1>2, <1>3 DEF SettleInv, Entitled
  <2> QED
    BY <2>1, <2>2, <2>3
<1>8. Unlocked(j)'
  BY <1>1, <1>4, <1>7 DEF Unlocked, Busy
<1>9. Accounted(j)'
  <2> SUFFICES ASSUME pc'[j] = "refund", NEW a \in Accounts
               PROVE  /\ due'[j][a] \in {0, backed'[prop'[j]][a]}
                      /\ due'[j][a] = 0 =>
                           refunded'[prop'[j]][a] + draft'[j].refunds[a] = backed'[prop'[j]][a]
    BY <1>4 DEF Accounted, InHand, Busy
  <2>1. refunded[p][a] \in {0, backed[p][a]} /\ refunded[p][a] \in Nat
    BY <1>0, <1>2 DEF SettlementInv, RefundState, TypeOK
  <2>2. draft'[j].refunds[a] = 0
    BY <1>1, <1>f DEF NoDraft, Nothing
  <2> QED
    BY <1>1, <1>4, <1>7, <2>1, <2>2
<1>10. AllPaid(j)'
  BY <1>1, <1>2, <1>4, <1>f DEF AllPaid, InTransaction
<1>11. Visited(j)'
  <2>1. \A q \in Proposals : Settled(q)' <=> Settled(q)
    BY <1>1 DEF Settled
  <2>2. pc'[j] = "next" => Settled(p)
    <3>1. pc'[j] = "next" => seen[j][p] \in TERMINAL_STATES
      BY <1>0, <1>1
    <3>2. seen[j][p] \in TERMINAL_STATES => status[p] \in TERMINAL_STATES
      BY <1>0, <1>2 DEF SettleInv, Loaded
    <3> QED
      BY <1>2, <3>1, <3>2 DEF SettlementInv, RefundState, Settled, TERMINAL_STATES
  <2>3. /\ \A q \in left[j] : Author[q] = j.who
        /\ \A q \in Proposals : Author[q] = j.who /\ q \notin left[j] => Settled(q)
    BY <1>0, <1>1, <1>3 DEF SettleInv, Visited, Busy
  <2> QED
    BY <1>4, <2>1, <2>2, <2>3 DEF Visited, Busy
<1>12. SettleInv(j)'
  BY <1>5, <1>6, <1>8, <1>9, <1>10, <1>11 DEF SettleInv
<1>13. \A k \in Jobs \ {j} : UNCHANGED <<pc[k], prop[k], due[k], left[k]>>
  BY <1>0, <1>1
<1> QED
  BY <1>1, <1>12, <1>13, QuietSettles

\* Under the lock, before anything is refunded, everyone is due what they staked.
LEMMA SettleLocked ==
  ASSUME SettlementInv, Inv', NEW j \in Jobs, LockProposal(j)
  PROVE  SettlementInv'
<1>0. /\ TypeOK /\ SettleInv(j) /\ JobInv(j) /\ DOMAIN pc = Jobs /\ j.op \in Ops /\ j # NoJob
      /\ DOMAIN move = Jobs /\ DOMAIN due = Jobs /\ DOMAIN draft = Jobs /\ prop[j] \in Proposals
      /\ DOMAIN propLock = Proposals
  BY JobParts DEF SettlementInv, Inv, TypeOK
<1>1. /\ UNCHANGED <<rows, balLock, prop, seen, purse, left>> /\ pc[j] = "lock"
      /\ propLock[prop[j]] = NoJob /\ propLock' = [propLock EXCEPT ![prop[j]] = j]
      /\ status[prop[j]] = Requires(j)
      /\ draft' = [draft EXCEPT ![j].status = Makes(j)]
      /\ \/ /\ j.op = "back" /\ pc' = [pc EXCEPT ![j] = "purse"] /\ UNCHANGED due
            /\ move' = [move EXCEPT ![j] = [kind |-> "backing", to |-> j.who, amount |-> -j.amount]]
         \/ /\ j.op # "back" /\ pc' = [pc EXCEPT ![j] = "refund"] /\ UNCHANGED move
            /\ due' = [due EXCEPT ![j] = backed[prop[j]]]
  BY DEF LockProposal, ProposalFree, Ready, Goto
<1>2. /\ j.op = "back" => pc'[j] = "purse"
      /\ j.op # "back" => pc'[j] = "refund" /\ due'[j] = backed[prop[j]]
      /\ draft'[j].refunds = Nothing
      /\ InTransaction(j)'
  <2>1. draft[j] = NoDraft
    BY <1>1, Free DEF SettlementInv, Busy
  <2> QED
    BY <1>0, <1>1, <2>1 DEF NoDraft, InTransaction
<1>3. Entitled(j)' /\ Loaded(j)' /\ Unlocked(j)' /\ AllPaid(j)'
  BY <1>0, <1>1, <1>2 DEF SettleInv, Entitled, Loaded, Unlocked, AllPaid
<1>4. Accounted(j)'
  <2> SUFFICES ASSUME j.op # "back", NEW a \in Accounts
               PROVE  /\ due'[j][a] \in {0, backed'[prop'[j]][a]}
                      /\ due'[j][a] = 0 =>
                           refunded'[prop'[j]][a] + draft'[j].refunds[a] = backed'[prop'[j]][a]
    BY <1>2 DEF Accounted, InHand
  <2>1. refunded[prop[j]][a] \in {0, backed[prop[j]][a]} /\ refunded[prop[j]][a] \in Nat
    BY <1>0 DEF SettlementInv, RefundState, TypeOK
  <2>2. draft'[j].refunds[a] = 0
    BY <1>2 DEF Nothing
  <2> QED
    BY <1>1, <1>2, <2>1, <2>2
<1>5. Visited(j)'
  <2>1. \A q \in Proposals : Settled(q)' <=> Settled(q)
    BY <1>1 DEF Settled
  <2> QED
    BY <1>0, <1>1, <1>2, <2>1 DEF SettleInv, Visited, Busy
<1>6. SettleInv(j)'
  BY <1>3, <1>4, <1>5 DEF SettleInv
<1>7. ASSUME NEW k \in Jobs \ {j}
      PROVE  /\ UNCHANGED <<pc[k], due[k], move[k], draft[k]>>
             /\ \A p \in Proposals : propLock'[p] = k <=> propLock[p] = k
  BY <1>0, <1>1, JobParts
<1> QED
  BY <1>1, <1>6, <1>7, QuietSettles

\* Who is not owed anything has been refunded; who is, is in hand for their whole stake.
LEMMA SettleBacker ==
  ASSUME SettlementInv, Inv', NEW j \in Jobs, NextBacker(j)
  PROVE  SettlementInv'
<1> DEFINE a == Min(Backers(j))
           q == prop[j]
<1>0. /\ TypeOK /\ SettleInv(j) /\ JobInv(j) /\ DOMAIN pc = Jobs /\ DOMAIN move = Jobs
      /\ j.op \in Ops /\ q \in Proposals
  BY JobParts DEF SettlementInv, Inv, TypeOK
<1>t. /\ due \in [Jobs -> [Accounts -> Nat]] /\ backed[q] \in [Accounts -> Nat]
      /\ refunded[q] \in [Accounts -> Nat]
  BY <1>0 DEF TypeOK
<1>a. a \in Accounts /\ due[j][a] > 0
  <2>1. Backers(j) \subseteq Accounts /\ Backers(j) # {}
    BY DEF Backers, NextBacker
  <2>2. a \in Backers(j)
    BY <2>1, MinIn
  <2> QED
    BY <2>2 DEF Backers
<1> HIDE DEF a
<1>1. /\ pc[j] = "refund" /\ UNCHANGED <<rows, locks, prop, seen, purse, draft, left>>
      /\ due' = [due EXCEPT ![j][a] = 0]
      /\ \/ /\ due[j][a] - refunded[q][a] > 0
            /\ move' = [move EXCEPT ![j] = [kind |-> "refund", to |-> a,
                                            amount |-> due[j][a] - refunded[q][a]]]
            /\ pc' = [pc EXCEPT ![j] = "purse"]
         \/ ~(due[j][a] - refunded[q][a] > 0) /\ UNCHANGED <<move, pc>>
  BY DEF NextBacker, OwedNow, Goto, a
<1>2. /\ \A b \in Accounts : due'[j][b] = (IF b = a THEN 0 ELSE due[j][b])
      /\ j.op # "back" /\ draft[j].refunds[a] = 0
      /\ (InTransaction(j)' <=> InTransaction(j))
  BY <1>0, <1>a, <1>1, <1>t DEF JobInv, OnPath, Paying, InTransaction
<1>3. \/ /\ due[j][a] - refunded[q][a] > 0 /\ pc'[j] = "purse"
         /\ move'[j] = [kind |-> "refund", to |-> a, amount |-> due[j][a] - refunded[q][a]]
      \/ ~(due[j][a] - refunded[q][a] > 0) /\ pc'[j] = "refund"
  BY <1>0, <1>1
<1>4. Entitled(j)' /\ Loaded(j)' /\ Unlocked(j)' /\ AllPaid(j)'
  BY <1>0, <1>1, <1>2, <1>3 DEF SettleInv, Entitled, Loaded, Unlocked, AllPaid, Busy
<1>5. Accounted(j)'
  <2> SUFFICES ASSUME NEW b \in Accounts
               PROVE  /\ due'[j][b] \in {0, backed[q][b]}
                      /\ InHand(j, b)' => /\ due'[j][b] = 0
                                          /\ refunded[q][b] + move'[j].amount = backed[q][b]
                      /\ due'[j][b] = 0 /\ ~InHand(j, b)' =>
                           refunded[q][b] + draft[j].refunds[b] = backed[q][b]
    BY <1>1 DEF Accounted
  <2>1. /\ due[j][b] \in {0, backed[q][b]}
        /\ due[j][b] = 0 => refunded[q][b] + draft[j].refunds[b] = backed[q][b]
    BY <1>0, <1>1, <1>2 DEF SettleInv, Accounted, InHand, Busy
  <2>2. InHand(j, b)' <=> (pc'[j] = "purse" /\ b = a)
    BY <1>3 DEF InHand
  <2>3. refunded[q][b] \in {0, backed[q][b]}
    BY <1>0 DEF SettlementInv, RefundState
  <2>4. CASE b # a
    BY <1>2, <2>1, <2>2, <2>4
  <2>5. CASE b = a /\ pc'[j] = "purse"
    <3>1. due[j][a] = backed[q][a] /\ move'[j].amount = due[j][a] - refunded[q][a]
      BY <1>a, <1>3, <2>1, <2>5
    <3> QED
      BY <1>2, <1>a, <1>t, <2>2, <2>5, <3>1
  <2>6. CASE b = a /\ pc'[j] = "refund"
    <3>1. due[j][a] = backed[q][a] /\ ~(due[j][a] - refunded[q][a] > 0)
      BY <1>a, <1>3, <2>1, <2>6
    <3>2. refunded[q][a] = backed[q][a]
      BY <1>a, <1>t, <2>3, <2>6, <3>1
    <3> QED
      BY <1>2, <1>a, <1>t, <2>2, <2>6, <3>2
  <2> QED
    BY <1>3, <2>4, <2>5, <2>6
<1>6. Visited(j)'
  <2>1. \A p \in Proposals : Settled(p)' <=> Settled(p)
    BY <1>1 DEF Settled
  <2> QED
    BY <1>0, <1>1, <1>3, <2>1 DEF SettleInv, Visited, Busy
<1>7. SettleInv(j)'
  BY <1>4, <1>5, <1>6 DEF SettleInv
<1>8. \A k \in Jobs \ {j} : UNCHANGED <<pc[k], due[k], move[k]>>
  BY <1>0, <1>1, <1>t
<1> QED
  BY <1>1, <1>7, <1>8, QuietSettles

\* Nobody is due: a close goes on to the payout, the others are done with the proposal.
LEMMA SettleRefunded ==
  ASSUME SettlementInv, Inv', NEW j \in Jobs, RefundsDone(j)
  PROVE  SettlementInv'
<1> DEFINE q == prop[j]
<1>0. /\ TypeOK /\ SettleInv(j) /\ JobInv(j) /\ DOMAIN pc = Jobs /\ DOMAIN move = Jobs
      /\ j.op \in Ops /\ q \in Proposals
  BY JobParts DEF SettlementInv, Inv, TypeOK
<1>1. /\ pc[j] = "refund" /\ UNCHANGED <<rows, locks, prop, seen, due, purse, draft, left>>
      /\ \/ /\ pc' = [pc EXCEPT ![j] = "purse"]
            /\ move' = [move EXCEPT ![j] = [kind |-> "payout", to |-> Author[q],
                                            amount |-> AuthorPayoutFor(Total(q))]]
         \/ pc' = [pc EXCEPT ![j] = IF InTransaction(j) THEN "commit" ELSE "next"] /\ UNCHANGED move
  BY DEF RefundsDone, Goto
<1>2. /\ j.op # "back" /\ (InTransaction(j)' <=> InTransaction(j))
      /\ \/ pc'[j] = "purse" /\ move'[j].kind = "payout"
         \/ pc'[j] = "commit" /\ InTransaction(j)
         \/ pc'[j] = "next" /\ ~InTransaction(j)
  BY <1>0, <1>1 DEF JobInv, OnPath, InTransaction
<1>3. \A a \in Accounts : due[j][a] = 0 /\ refunded[q][a] + draft[j].refunds[a] = backed[q][a]
  <2>1. due[j] \in [Accounts -> Nat] /\ Backers(j) = {}
    BY <1>0 DEF TypeOK, RefundsDone
  <2>2. \A a \in Accounts : due[j][a] = 0
    BY <2>1 DEF Backers
  <2>3. \A a \in Accounts : ~InHand(j, a)
    BY <1>1 DEF InHand
  <2> QED
    BY <1>0, <1>1, <1>2, <2>2, <2>3 DEF SettleInv, Accounted, Busy
<1>4. Entitled(j)' /\ Loaded(j)' /\ Unlocked(j)' /\ AllPaid(j)'
  BY <1>0, <1>1, <1>2, <1>3 DEF SettleInv, Entitled, Loaded, Unlocked, AllPaid, Busy
<1>5. Accounted(j)'
  <2>1. \A a \in Accounts : ~InHand(j, a)'
    BY <1>2 DEF InHand
  <2> QED
    BY <1>1, <1>3, <2>1 DEF Accounted
<1>6. Visited(j)'
  <2>1. \A p \in Proposals : Settled(p)' <=> Settled(p)
    BY <1>1 DEF Settled
  <2>2. j.op = "delete" /\ pc'[j] = "next" => Settled(q)
    <3> SUFFICES ASSUME j.op = "delete", pc'[j] = "next" PROVE Settled(q)
      OBVIOUS
    <3>1. status[q] = "actioned" /\ draft[j] = NoDraft
      BY <1>0, <1>1, <1>2 DEF SettleInv, Unlocked, JobInv, Locking, Busy
    <3>2. refunded[q] \in [Accounts -> Nat] /\ backed[q] \in [Accounts -> Nat]
      BY <1>0 DEF TypeOK
    <3>3. \A a \in Accounts : refunded[q][a] = backed[q][a]
      BY <1>3, <3>1, <3>2 DEF NoDraft, Nothing
    <3>4. refunded[q] = backed[q]
      BY <3>2, <3>3
    <3> QED
      BY <3>1, <3>4 DEF Settled
  <2> QED
    BY <1>0, <1>1, <1>2, <2>1, <2>2 DEF SettleInv, Visited, Busy
<1>7. SettleInv(j)'
  BY <1>4, <1>5, <1>6 DEF SettleInv
<1>8. \A k \in Jobs \ {j} : UNCHANGED <<pc[k], move[k]>>
  BY <1>0, <1>1
<1> QED
  BY <1>1, <1>7, <1>8, QuietSettles

\* Locking a balance settles nothing.
LEMMA SettlePurse ==
  ASSUME SettlementInv, Inv', NEW j \in Jobs, LockBalance(j)
  PROVE  SettlementInv'
<1>0. TypeOK /\ SettleInv(j) /\ DOMAIN pc = Jobs
  BY DEF SettlementInv, Inv, TypeOK
<1>1. /\ pc[j] = "purse" /\ UNCHANGED <<rows, propLock, prop, seen, due, move, draft, left>>
      /\ pc' = [pc EXCEPT ![j] = "write"]
  BY DEF LockBalance, Goto
<1>2. pc'[j] = "write" /\ (InTransaction(j)' <=> InTransaction(j))
  BY <1>0, <1>1 DEF InTransaction
<1>3. \A p \in Proposals : Settled(p)' <=> Settled(p)
  BY <1>1 DEF Settled
<1>4. Entitled(j)' /\ Loaded(j)' /\ Unlocked(j)' /\ AllPaid(j)' /\ Visited(j)'
  BY <1>0, <1>1, <1>2, <1>3 DEF SettleInv, Entitled, Loaded, Unlocked, AllPaid, Visited, Busy
<1>5. Accounted(j)'
  BY <1>0, <1>1, <1>2 DEF SettleInv, Accounted, InHand, Busy
<1>6. SettleInv(j)'
  BY <1>4, <1>5 DEF SettleInv
<1>7. \A k \in Jobs \ {j} : UNCHANGED pc[k]
  BY <1>0, <1>1
<1> QED
  BY <1>1, <1>6, <1>7, QuietSettles

\* A refund that is written is in hand no more, and in the draft.
LEMMA SettleWrite ==
  ASSUME SettlementInv, Inv', NEW j \in Jobs, Write(j)
  PROVE  SettlementInv'
<1> DEFINE m == move[j]
           e == draft'[j]
<1>0. /\ TypeOK /\ SettleInv(j) /\ JobInv(j) /\ DOMAIN pc = Jobs /\ DOMAIN draft = Jobs
  BY DEF SettlementInv, Inv, TypeOK
<1>1. /\ pc[j] = "write" /\ UNCHANGED <<rows, locks, prop, seen, due, move, purse, left>>
      /\ pc' = [pc EXCEPT ![j] = IF Nested(j) THEN "refund" ELSE "commit"]
  BY DEF Write, Goto
<1>2. /\ pc'[j] = (IF Nested(j) THEN "refund" ELSE "commit")
      /\ (InTransaction(j)' <=> InTransaction(j))
      /\ m.kind \in {"refund", "payout", "backing"} /\ (m.kind = "backing" <=> j.op = "back")
      /\ m.to \in Accounts
  BY <1>0, <1>1 DEF InTransaction, JobInv, Moving
<1>3. /\ draft[j].refunds \in [Accounts -> Nat]
      /\ e.refunds = IF m.kind = "refund" THEN [draft[j].refunds EXCEPT ![m.to] = m.amount]
                     ELSE draft[j].refunds
  BY <1>0, <1>2 DEF Write, JobInv, Drafting
<1>4. \A p \in Proposals : Settled(p)' <=> Settled(p)
  BY <1>1 DEF Settled
<1>5. AllPaid(j)'
  <2>1. pc'[j] = "commit" /\ InTransaction(j) /\ j.op # "back" => m.kind = "payout"
    BY <1>2 DEF Nested
  <2> QED
    BY <1>0, <1>1, <1>2, <2>1 DEF SettleInv, AllPaid
<1>6. Entitled(j)' /\ Loaded(j)' /\ Unlocked(j)' /\ Visited(j)'
  BY <1>0, <1>1, <1>2, <1>4 DEF SettleInv, Entitled, Loaded, Unlocked, Visited, Busy
<1>7. Accounted(j)'
  <2> SUFFICES ASSUME j.op # "back", NEW a \in Accounts
               PROVE  /\ due[j][a] \in {0, backed[prop[j]][a]}
                      /\ due[j][a] = 0 =>
                           refunded[prop[j]][a] + e.refunds[a] = backed[prop[j]][a]
    BY <1>1, <1>2 DEF Accounted, InHand
  <2>1. /\ due[j][a] \in {0, backed[prop[j]][a]}
        /\ InHand(j, a) => refunded[prop[j]][a] + m.amount = backed[prop[j]][a]
        /\ due[j][a] = 0 /\ ~InHand(j, a) =>
             refunded[prop[j]][a] + draft[j].refunds[a] = backed[prop[j]][a]
    BY <1>0, <1>1 DEF SettleInv, Accounted, Busy
  <2>2. InHand(j, a) <=> m.kind = "refund" /\ m.to = a
    BY <1>1 DEF InHand
  <2> QED
    BY <1>2, <1>3, <2>1, <2>2
<1>8. SettleInv(j)'
  BY <1>5, <1>6, <1>7 DEF SettleInv
<1>9. \A k \in Jobs \ {j} : UNCHANGED <<pc[k], draft[k]>>
  BY <1>0, <1>1 DEF Write
<1> QED
  BY <1>1, <1>8, <1>9, QuietSettles

\* A proposal that is actioned has had no refund.
LEMMA SettleAction ==
  ASSUME SettlementInv, Inv', NEW j \in Jobs, Action(j)
  PROVE  SettlementInv'
<1>0. /\ TypeOK /\ DOMAIN pc = Jobs /\ DOMAIN status = Proposals /\ j.op = "action"
      /\ \A k \in Jobs : prop[k] \in Proposals
  BY DEF SettlementInv, Inv, TypeOK, Action
<1>1. /\ UNCHANGED <<balance, backed, refunded, payout, locks, prop, seen, due, move,
                     purse, draft, left>>
      /\ pc[j] = "start"
      /\ pc' = [pc EXCEPT ![j] = IF status[j.prop] = "open" THEN "done" ELSE "failed"]
      /\ status' = (IF status[j.prop] = "open"
                    THEN [status EXCEPT ![j.prop] = "actioned"] ELSE status)
  BY DEF Action, Goto
<1>2. /\ Forward
      /\ \A p \in Proposals : status'[p] \in TERMINAL_STATES => status[p] = status'[p]
      /\ \A p \in Proposals : status'[p] = "open" => status[p] = "open"
      /\ \A p \in Proposals : Settled(p) => Settled(p)'
  BY <1>0, <1>1 DEF Forward, Settled, TERMINAL_STATES
<1>3. RefundState'
  BY <1>1, <1>2 DEF SettlementInv, RefundState
<1>4. ASSUME NEW k \in Jobs PROVE SettleInv(k)'
  <2>1. CASE k = j
    <3>1. pc'[j] \in {"done", "failed"}
      BY <1>0, <1>1
    <3>2. Loaded(j)'
      BY <1>1, <1>2 DEF SettlementInv, SettleInv, Loaded, Forward, TERMINAL_STATES
    <3> QED
      BY <1>0, <2>1, <3>1, <3>2, Outside DEF Entitled, Visited, Busy
  <2>2. CASE k # j
    <3>1. SettleInv(k) /\ UNCHANGED pc[k]
      BY <1>0, <1>1, <2>2 DEF SettlementInv
    <3>2. \A p \in Proposals : status'[p] = "closed" => status[p] = "closed"
      BY <1>2 DEF TERMINAL_STATES
    <3> QED
      BY <1>0, <1>1, <1>2, <3>1, <3>2, OthersSettle
  <2> QED
    BY <2>1, <2>2
<1> QED
  BY <1>3, <1>4 DEF SettlementInv

\* What a commit puts on record of refunds: whole stakes, and all of them at the end
\* of a settlement in a transaction of its own.
LEMMA CommitRefunds ==
  ASSUME SettlementInv, NEW j \in Jobs, Commit(j)
  PROVE  /\ \A a \in Accounts :
              \/ draft[j].refunds[a] = 0
              \/ j.op # "back" /\ refunded[prop[j]][a] + draft[j].refunds[a] = backed[prop[j]][a]
         /\ InTransaction(j) /\ j.op # "back" =>
              \A a \in Accounts : refunded[prop[j]][a] + draft[j].refunds[a] = backed[prop[j]][a]
         /\ InTransaction(j) => /\ status[prop[j]] = Requires(j)
                                /\ status'[prop[j]] = IF j.op = "back" THEN "open" ELSE Makes(j)
         /\ ~InTransaction(j) => /\ j.op = "delete" /\ status[prop[j]] = "actioned"
                                 /\ status'[prop[j]] = "actioned"
<1>0. /\ TypeOK /\ JobInv(j) /\ SettleInv(j) /\ pc[j] = "commit" /\ j.op \in Ops \ {"action"}
      /\ status'[prop[j]] = IF draft[j].status = "same" THEN status[prop[j]] ELSE draft[j].status
      /\ ~InTransaction(j) => j.op = "delete" /\ draft[j].status = "same"
  BY CommitEffect DEF SettlementInv, Inv, Commit
<1>1. due[j] \in [Accounts -> Nat]
  BY <1>0 DEF TypeOK
<1>2. \A a \in Accounts : ~InHand(j, a)
  BY <1>0 DEF InHand
<1>3. \A a \in Accounts : j.op = "back" \/ due[j][a] > 0 => draft[j].refunds[a] = 0
  BY <1>0 DEF JobInv, Paying
<1>4. j.op # "back" => \A a \in Accounts : due[j][a] = 0 =>
        refunded[prop[j]][a] + draft[j].refunds[a] = backed[prop[j]][a]
  BY <1>0, <1>2 DEF SettleInv, Accounted, Busy
<1>5. InTransaction(j) /\ j.op # "back" => \A a \in Accounts : due[j][a] = 0
  BY <1>0 DEF SettleInv, AllPaid
<1>6. /\ InTransaction(j) => status[prop[j]] = Requires(j) /\ draft[j].status = Makes(j)
      /\ ~InTransaction(j) => status[prop[j]] = "actioned"
  BY <1>0 DEF JobInv, Drafting, SettleInv, Unlocked, Busy
<1>7. /\ j.op = "back" => Makes(j) = "same" /\ Requires(j) = "open"
      /\ j.op # "back" => Makes(j) \in TERMINAL_STATES /\ Makes(j) # "same"
  BY <1>0 DEF Makes, Requires, Ops, TERMINAL_STATES
<1> QED
  BY <1>0, <1>1, <1>3, <1>4, <1>5, <1>6, <1>7

\* A commit moves a proposal's state on, and takes back no refund.
LEMMA CommitForward ==
  ASSUME SettlementInv, NEW j \in Jobs, Commit(j)
  PROVE  /\ Forward
         /\ \A p \in Proposals : Settled(p) => Settled(p)'
         /\ \A p \in Proposals : status'[p] = "closed" /\ status[p] # "closed" =>
              p = prop[j] /\ j.op = "close"
<1>0. TypeOK /\ prop[j] \in Proposals /\ j.op \in Ops \ {"action"}
  BY CommitEffect DEF SettlementInv, Inv
<1>1. \A p \in Proposals : p # prop[j] =>
        UNCHANGED <<status[p], backed[p], refunded[p], payout[p]>>
  BY CommitEffect DEF SettlementInv
<1>2. /\ InTransaction(j) => /\ status[prop[j]] = Requires(j)
                             /\ status'[prop[j]] = IF j.op = "back" THEN "open" ELSE Makes(j)
      /\ ~InTransaction(j) => /\ status[prop[j]] = "actioned" /\ status'[prop[j]] = "actioned"
  BY CommitRefunds
<1>3. /\ j.op = "back" => Requires(j) = "open"
      /\ j.op = "close" => Requires(j) = "actioned" /\ Makes(j) = "closed"
      /\ j.op \in {"annul", "delete"} => Requires(j) = "open" /\ Makes(j) = "annulled"
  BY DEF Requires, Makes
<1>4. Forward
  BY <1>0, <1>1, <1>2, <1>3 DEF Forward, Ops
<1>5. \A p \in Proposals : status'[p] = "closed" /\ status[p] # "closed" =>
              p = prop[j] /\ j.op = "close"
  BY <1>0, <1>1, <1>2, <1>3 DEF Ops
<1>6. ASSUME Settled(prop[j]) PROVE Settled(prop[j])'
  <2> DEFINE q == prop[j]
  <2>1. status[q] # "open" /\ refunded[q] = backed[q]
    BY <1>6 DEF Settled
  <2>2. j.op # "back" /\ status'[q] # "open" /\ prop'[j] = q
    <3>1. j.op = "back" => InTransaction(j)
      BY CommitRefunds
    <3> QED
      BY <1>0, <1>2, <1>3, <2>1, <3>1 DEF Commit, Ops
  <2>3. backed'[q] = backed[q]
    BY <2>2, CommitEffect DEF SettlementInv
  <2>4. refunded'[q] = refunded[q]
    <3>1. backed[q] \in [Accounts -> Nat] /\ refunded[q] \in [Accounts -> Nat]
      BY <1>0 DEF TypeOK
    <3>2. draft[j].refunds \in [Accounts -> Nat]
          /\ refunded'[q] = [a \in Accounts |-> refunded[q][a] + draft[j].refunds[a]]
      BY CommitEffect DEF SettlementInv
    <3>3. \A a \in Accounts : draft[j].refunds[a] = 0
      <4>1. \A a \in Accounts : refunded[q][a] = backed[q][a]
        BY <2>1
      <4>2. \A a \in Accounts : \/ draft[j].refunds[a] = 0
                                \/ refunded[q][a] + draft[j].refunds[a] = backed[q][a]
        BY CommitRefunds
      <4> HIDE DEF q
      <4> QED
        BY <3>1, <3>2, <4>1, <4>2
    <3> QED
      BY <3>1, <3>2, <3>3
  <2> QED
    BY <2>1, <2>2, <2>3, <2>4 DEF Settled
<1>7. ASSUME NEW p \in Proposals, Settled(p) PROVE Settled(p)'
  <2>1. CASE p = prop[j]
    <3>1. prop'[j] = prop[j]
      BY DEF Commit
    <3> QED
      BY <1>6, <1>7, <2>1, <3>1 DEF Settled
  <2>2. CASE p # prop[j]
    BY <1>1, <1>7, <2>2 DEF Settled
  <2> QED
    BY <2>1, <2>2
<1> QED
  BY <1>4, <1>5, <1>7

\* Every backer has either all of what a proposal holds of theirs back, or nothing.
LEMMA CommitRefundState ==
  ASSUME SettlementInv, Inv', NEW j \in Jobs, Commit(j)
  PROVE  RefundState'
<1> SUFFICES ASSUME NEW p \in Proposals
             PROVE  /\ status'[p] = "open" => refunded'[p] = Nothing
                    /\ status'[p] \in TERMINAL_STATES => refunded'[p] = backed'[p]
                    /\ \A a \in Accounts : refunded'[p][a] \in {0, backed'[p][a]}
  BY DEF RefundState, Nothing
<1>0. /\ TypeOK /\ prop[j] \in Proposals /\ j.op \in Ops \ {"action"} /\ RefundState
      /\ backed[p] \in [Accounts -> Nat] /\ refunded[p] \in [Accounts -> Nat]
      /\ backed'[p] \in [Accounts -> Nat] /\ refunded'[p] \in [Accounts -> Nat]
  BY CommitEffect DEF SettlementInv, Inv, TypeOK
<1>1. CASE p # prop[j]
  <2>1. status'[p] = status[p] /\ backed'[p] = backed[p] /\ refunded'[p] = refunded[p]
    BY <1>1, CommitEffect DEF SettlementInv
  <2> QED
    BY <1>0, <2>1 DEF RefundState
<1>2. CASE p = prop[j]
  <2>1. /\ draft[j].refunds \in [Accounts -> Nat]
        /\ \A a \in Accounts : refunded'[p][a] = refunded[p][a] + draft[j].refunds[a]
    <3>1. /\ draft[j].refunds \in [Accounts -> Nat]
          /\ refunded'[prop[j]] = [a \in Accounts |-> refunded[prop[j]][a] + draft[j].refunds[a]]
      BY CommitEffect DEF SettlementInv
    <3> QED
      BY <1>2, <3>1
  <2>2. CASE j.op = "back"
    <3>1. status[p] = "open" /\ status'[p] = "open"
      BY <1>2, <2>2, CommitRefunds DEF Requires
    <3>2. \A a \in Accounts : refunded'[p][a] = 0
      <4>1. refunded[p] = Nothing
        BY <1>0, <3>1 DEF RefundState
      <4>2. \A a \in Accounts : draft[j].refunds[a] = 0
        BY <2>2, CommitRefunds
      <4> QED
        BY <2>1, <4>1, <4>2 DEF Nothing
    <3> QED
      BY <1>0, <3>1, <3>2 DEF Nothing, TERMINAL_STATES
  <2>3. CASE j.op # "back"
    <3>1. backed'[p] = backed[p]
      BY <1>2, <2>3, CommitEffect DEF SettlementInv
    <3>2. \A a \in Accounts : refunded'[p][a] \in {0, backed'[p][a]}
      <4> SUFFICES ASSUME NEW a \in Accounts PROVE refunded'[p][a] \in {0, backed'[p][a]}
        OBVIOUS
      <4>1. draft[j].refunds[a] = 0 \/ refunded[p][a] + draft[j].refunds[a] = backed[p][a]
        BY <1>2, CommitRefunds
      <4>2. refunded[p][a] \in {0, backed[p][a]} /\ refunded[p][a] \in Nat
        BY <1>0 DEF RefundState
      <4> QED
        BY <2>1, <3>1, <4>1, <4>2
    <3>3. CASE InTransaction(j)
      <4>1. status'[p] # "open"
        BY <1>0, <1>2, <2>3, <3>3, CommitRefunds DEF Makes, Ops
      <4>2. \A a \in Accounts : refunded'[p][a] = backed'[p][a]
        BY <1>2, <2>1, <2>3, <3>1, <3>3, CommitRefunds
      <4>3. refunded'[p] = backed'[p]
        BY <1>0, <4>2
      <4> QED
        BY <3>2, <4>1, <4>3
    <3>4. CASE ~InTransaction(j)
      <4>1. status'[p] = "actioned"
        BY <1>2, <3>4, CommitRefunds
      <4> QED
        BY <3>2, <4>1 DEF TERMINAL_STATES
    <3> QED
      BY <3>3, <3>4
  <2> QED
    BY <2>2, <2>3
<1> QED
  BY <1>1, <1>2

\* A commit settles its own job's proposal, and no one else is at it.
LEMMA SettleCommit ==
  ASSUME OneSettles, SettlementInv, Inv', NEW j \in Jobs, Commit(j)
  PROVE  SettlementInv'
<1> DEFINE q == prop[j]
<1>0. /\ TypeOK /\ SettleInv(j) /\ pc[j] = "commit" /\ q \in Proposals /\ DOMAIN pc = Jobs
      /\ DOMAIN draft = Jobs /\ j.op \in Ops \ {"action"} /\ j # NoJob
  BY CommitEffect, JobParts DEF SettlementInv, Inv, TypeOK, Commit
<1>1. /\ UNCHANGED <<prop, seen, due, move, purse, left>>
      /\ propLock' = [p \in Proposals |-> IF propLock[p] = j THEN NoJob ELSE propLock[p]]
      /\ draft' = [draft EXCEPT ![j] = NoDraft]
      /\ pc' = [pc EXCEPT ![j] = CASE j.op # "delete" -> "done"
                                   [] j.op = "delete" /\ InTransaction(j) -> "next"
                                   [] j.op = "delete" /\ ~InTransaction(j) -> "refund"]
  BY DEF Commit, LetGo, Goto
<1>2. RefundState'
  BY CommitRefundState
<1>3. /\ Forward /\ \A p \in Proposals : Settled(p) => Settled(p)'
      /\ \A p \in Proposals : status'[p] = "closed" /\ status[p] # "closed" =>
           p = q /\ j.op = "close"
  BY CommitForward
<1>4. /\ j.op # "delete" => pc'[j] = "done"
      /\ j.op = "delete" => pc'[j] = (IF InTransaction(j) THEN "next" ELSE "refund")
      /\ draft'[j] = NoDraft /\ ~InTransaction(j)'
  BY <1>0, <1>1 DEF InTransaction
<1>5. ASSUME NEW k \in Jobs PROVE SettleInv(k)'
  <2>1. CASE k = j
    <3>1. Loaded(j)'
      BY <1>0, <1>1, <1>3 DEF SettleInv, Loaded, Forward, TERMINAL_STATES
    <3>2. Entitled(j)'
      BY <1>0, <1>1, <1>3, <1>4 DEF SettleInv, Entitled, Busy
    <3>3. Visited(j)'
      <4>1. j.op = "delete" /\ InTransaction(j) => Settled(q)'
        <5> SUFFICES ASSUME j.op = "delete", InTransaction(j) PROVE Settled(q)'
          OBVIOUS
        <5>1. status'[q] = "annulled"
          BY CommitRefunds DEF Makes
        <5>2. refunded'[q] = backed'[q]
          BY <1>0, <1>2, <5>1 DEF RefundState, TERMINAL_STATES
        <5> QED
          BY <1>1, <5>1, <5>2 DEF Settled
      <4> QED
        BY <1>0, <1>1, <1>3, <1>4, <4>1 DEF SettleInv, Visited, Busy
    <3>4. CASE pc'[j] \notin Busy
      BY <2>1, <3>1, <3>2, <3>3, <3>4, Outside
    <3>5. CASE pc'[j] \in Busy
      <4>1. j.op = "delete" /\ ~InTransaction(j) /\ pc'[j] = "refund"
        BY <1>4, <3>5 DEF Busy
      <4>2. Unlocked(j)' /\ AllPaid(j)'
        BY <1>1, <1>4, <4>1, CommitRefunds DEF Unlocked, AllPaid
      <4>3. Accounted(j)'
        <5> SUFFICES ASSUME NEW a \in Accounts
                     PROVE  /\ due[j][a] \in {0, backed'[q][a]}
                            /\ due[j][a] = 0 => refunded'[q][a] + draft'[j].refunds[a] = backed'[q][a]
          BY <1>1, <4>1 DEF Accounted, InHand
        <5>1. /\ due[j][a] \in {0, backed[q][a]}
              /\ due[j][a] = 0 => refunded[q][a] + draft[j].refunds[a] = backed[q][a]
          BY <1>0, <4>1 DEF SettleInv, Accounted, InHand, Busy
        <5>2. backed'[q] = backed[q] /\ draft[j].refunds[a] \in Nat /\ refunded[q][a] \in Nat
          <6>1. refunded[q] \in [Accounts -> Nat]
            BY <1>0 DEF TypeOK
          <6>2. draft[j].refunds \in [Accounts -> Nat]
            BY CommitEffect DEF SettlementInv
          <6>3. backed'[q] = backed[q]
            BY <4>1, CommitEffect DEF SettlementInv
          <6> QED
            BY <6>1, <6>2, <6>3
        <5>3. refunded'[q] = [b \in Accounts |-> refunded[q][b] + draft[j].refunds[b]]
          BY CommitEffect DEF SettlementInv
        <5>4. draft'[j].refunds[a] = 0
          BY <1>4 DEF NoDraft, Nothing
        <5> QED
          BY <5>1, <5>2, <5>3, <5>4
      <4> QED
        BY <2>1, <3>1, <3>2, <3>3, <4>2, <4>3 DEF SettleInv
    <3> QED
      BY <3>4, <3>5
  <2>2. CASE k # j
    <3>1. /\ SettleInv(k) /\ prop[k] \in Proposals /\ k # NoJob
      BY <1>0, JobParts DEF SettlementInv, TypeOK
    <3>2. UNCHANGED <<pc[k], prop[k], seen[k], due[k], move[k], draft[k], left[k]>>
      BY <1>0, <1>1, <2>2
    <3>3. propLock'[prop[k]] = k <=> propLock[prop[k]] = k
      BY <1>0, <1>1, <2>2, <3>1
    <3>4. k.op = "delete" =>
            \A p \in Proposals : Author[p] = k.who /\ status'[p] = "closed" => status[p] = "closed"
      <4>1. j.op = "close" => Author[q] = j.who
        BY <1>0 DEF SettleInv, Entitled, Busy
      <4> QED
        BY <1>3, <2>2, <4>1 DEF OneSettles
    <3>5. pc[k] \in Busy => UNCHANGED <<backed[prop[k]], refunded[prop[k]]>>
      <4>1. pc[k] \in Busy => prop[k] # q
        BY <1>0, <2>2, NoRivals DEF Busy
      <4>2. \A p \in Proposals : p # q => backed'[p] = backed[p] /\ refunded'[p] = refunded[p]
        BY CommitEffect DEF SettlementInv
      <4> QED
        BY <1>1, <3>1, <4>1, <4>2
    <3> QED
      BY <1>0, <1>3, <3>1, <3>2, <3>3, <3>4, <3>5, OthersSettle
  <2> QED
    BY <2>1, <2>2
<1> QED
  BY <1>2, <1>5 DEF SettlementInv

LEMMA SettlementStarts ==
  ASSUME Init
  PROVE  SettlementInv
<1>1. Inv
  BY Starts
<1>2. RefundState
  BY DEF Init, RefundState, Nothing, TERMINAL_STATES
<1>3. ASSUME NEW j \in Jobs PROVE SettleInv(j)
  <2>1. pc[j] = "start" /\ seen[j] = status /\ \A p \in Proposals : status[p] = "open"
    BY DEF Init
  <2> QED
    BY <2>1 DEF SettleInv, Entitled, Loaded, Unlocked, Accounted, AllPaid, Visited, Busy,
                TERMINAL_STATES
<1> QED
  BY <1>1, <1>2, <1>3 DEF SettlementInv

LEMMA SettlementInductive ==
  ASSUME OneSettles, SettlementInv, [Next]_vars
  PROVE  SettlementInv'
<1>0. Inv'
  BY Inductive DEF SettlementInv
<1>1. ASSUME NEW j \in Jobs, Step(j) PROVE SettlementInv'
  <2>1. CASE CheckBackable(j) \/ Begin(j) \/ LoadProposals(j) \/ FinishDeletion(j) \/ RefuseState(j)
    BY <1>0, <2>1, SettleBefore
  <2>2. CASE Action(j)
    BY <1>0, <2>2, SettleAction
  <2>3. CASE NextProposal(j)
    BY <1>0, <2>3, SettleNext
  <2>4. CASE LockProposal(j)
    BY <1>0, <2>4, SettleLocked
  <2>5. CASE NextBacker(j)
    BY <1>0, <2>5, SettleBacker
  <2>6. CASE RefundsDone(j)
    BY <1>0, <2>6, SettleRefunded
  <2>7. CASE LockBalance(j)
    BY <1>0, <2>7, SettlePurse
  <2>8. CASE RefuseBalance(j)
    BY <1>0, <2>8, SettleRolledBack DEF RefuseBalance
  <2>9. CASE Write(j)
    BY <1>0, <2>9, SettleWrite
  <2>10. CASE Commit(j)
    BY <1>0, <2>10, SettleCommit
  <2> QED
    BY <1>1, <2>1, <2>2, <2>3, <2>4, <2>5, <2>6, <2>7, <2>8, <2>9, <2>10 DEF Step
<1>2. ASSUME NEW j \in Jobs, DeadlockVictim(j) PROVE SettlementInv'
  BY <1>0, <1>2, SettleRolledBack DEF DeadlockVictim
<1>3. ASSUME NEW j \in Jobs, Crash(j) PROVE SettlementInv'
  BY <1>0, <1>3, SettleRolledBack DEF Crash
<1>4. CASE UNCHANGED vars
  <2>1. RefundState'
    BY <1>4 DEF vars, SettlementInv, RefundState
  <2>2. ASSUME NEW j \in Jobs PROVE SettleInv(j)'
    <3>1. TypeOK /\ SettleInv(j) /\ Forward /\ \A p \in Proposals : Settled(p) => Settled(p)'
      BY <1>4 DEF vars, SettlementInv, Inv, Forward, Settled
    <3> QED
      BY <1>4, <3>1, OthersSettle DEF vars
  <2> QED
    BY <1>0, <2>1, <2>2 DEF SettlementInv
<1> QED
  BY <1>1, <1>2, <1>3, <1>4 DEF Next

LEMMA SettlementInvariance ==
  ASSUME OneSettles
  PROVE  Spec => []SettlementInv
BY SettlementStarts, SettlementInductive, PTL DEF Spec

\* "So a stake can't land after an annul has refunded everyone": whatever backs,
\* closes, annuls and deletes at once, a decided proposal holds nobody's tokens,
\* as long as nobody closes or deletes twice behind their own deletion.
THEOREM EveryStakeComesHome ==
  ASSUME OneSettles
  PROVE  Spec => []StakesComeHome
<1>1. SettlementInv => StakesComeHome
  BY DEF SettlementInv, RefundState, StakesComeHome
<1> QED
  BY <1>1, SettlementInvariance, PTL

\* "So a double-fire cannot pay twice": nobody is refunded more than they staked,
\* under the same condition, without which the code does not keep it.
THEOREM NobodyRefundedTwice ==
  ASSUME OneSettles
  PROVE  Spec => []RefundedOnce
<1>1. SettlementInv => RefundedOnce
  <2> SUFFICES ASSUME SettlementInv, NEW p \in Proposals, NEW a \in Accounts
               PROVE  refunded[p][a] <= backed[p][a]
    BY DEF RefundedOnce
  <2>1. refunded[p][a] \in {0, backed[p][a]} /\ backed[p][a] \in Nat
    BY DEF SettlementInv, RefundState, Inv, TypeOK
  <2> QED
    BY <2>1
<1> QED
  BY <1>1, SettlementInvariance, PTL

\* settle_proposals!: when a deletion is done, nobody's tokens are left behind the
\* account that is gone, however often its worker was killed on the way.
THEOREM NothingLockedBehindGone ==
  ASSUME OneSettles
  PROVE  Spec => []NoneLockedBehindGone
<1>1. SettlementInv => NoneLockedBehindGone
  BY DEF SettlementInv, SettleInv, Visited, Settled, Busy, NoneLockedBehindGone
<1> QED
  BY <1>1, SettlementInvariance, PTL

--------------------------------------------------------------------------------
(* TokenSettlement implements TokenLedger. *)

Escrow == [p \in Proposals |-> [a \in Accounts |-> backed[p][a] - refunded[p][a]]]
Raised == [p \in Proposals |-> Total(p)]
Phases == [p \in Proposals |-> Phase(status[p])]

\* A step that commits nothing leaves the ledger alone.
LEMMA ViewUnchanged ==
  ASSUME UNCHANGED <<balance, backed, refunded>>,
         \A p \in Proposals : Phase(status'[p]) = Phase(status[p])
  PROVE  UNCHANGED Ledger!ledgerVars
<1>1. Escrow' = Escrow /\ Phases' = Phases /\ Raised' = Raised
  BY DEF Escrow, Phases, Raised, Total
<1> QED
  BY <1>1 DEF Ledger!ledgerVars, Escrow, Phases, Raised

\* What a proposal holds of a backer's is a number.
LEMMA EscrowType ==
  ASSUME SettlementInv, NEW p \in Proposals, NEW a \in Accounts
  PROVE  /\ backed[p][a] \in Nat /\ refunded[p][a] \in Nat /\ balance[a] \in Nat
         /\ Escrow[p][a] = backed[p][a] - refunded[p][a] /\ Escrow[p][a] \in Nat
<1>1. backed[p][a] \in Nat /\ refunded[p][a] \in Nat /\ balance[a] \in Nat
  BY DEF SettlementInv, Inv, TypeOK
<1>2. refunded[p][a] \in {0, backed[p][a]}
  BY DEF SettlementInv, RefundState
<1> QED
  BY <1>1, <1>2 DEF Escrow

\* What the ledger sees of a commit: one proposal's escrow and phase, and the balances.
LEMMA CommitView ==
  ASSUME SettlementInv, TypeOK', NEW j \in Jobs, Commit(j)
  PROVE  /\ prop[j] \in Proposals
         /\ Phases' = [Phases EXCEPT ![prop[j]] = Phase(status'[prop[j]])]
         /\ Phases[prop[j]] = Phase(status[prop[j]])
         /\ Escrow' = [Escrow EXCEPT ![prop[j]] =
                         [a \in Accounts |-> backed'[prop[j]][a] - refunded'[prop[j]][a]]]
         /\ balance' = [a \in Accounts |-> balance[a] + Change(j, a)]
         /\ j.op # "back" => Raised' = Raised
         /\ \A a \in Accounts : /\ draft[j].refunds[a] \in Nat
                                /\ refunded'[prop[j]][a] = refunded[prop[j]][a] + draft[j].refunds[a]
<1>0. prop[j] \in Proposals /\ DOMAIN balance = Accounts
  BY CommitEffect DEF SettlementInv, Inv, TypeOK
<1>1. \A p \in Proposals : p # prop[j] =>
        UNCHANGED <<status[p], backed[p], refunded[p], payout[p]>>
  BY CommitEffect DEF SettlementInv
<1>2. balance' = [a \in Accounts |-> balance[a] + Change(j, a)]
  <2>1. balance' = [a \in Accounts |-> BalanceSeen(j, a)]
    BY DEF Commit
  <2>2. \A a \in Accounts : balance'[a] = balance[a] + Change(j, a)
    BY CommitLocked DEF SettlementInv
  <2> QED
    BY <2>1, <2>2
<1>3. j.op # "back" => Raised' = Raised
  <2>1. j.op # "back" => backed' = backed
    BY DEF Commit
  <2> QED
    BY <2>1 DEF Raised, Total
<1>4. /\ draft[j].refunds \in [Accounts -> Nat]
      /\ refunded'[prop[j]] = [a \in Accounts |-> refunded[prop[j]][a] + draft[j].refunds[a]]
  BY CommitEffect DEF SettlementInv
<1>5. /\ Phases' = [Phases EXCEPT ![prop[j]] = Phase(status'[prop[j]])]
      /\ Phases[prop[j]] = Phase(status[prop[j]])
  BY <1>0, <1>1 DEF Phases
<1>6. Escrow' = [Escrow EXCEPT ![prop[j]] =
                   [a \in Accounts |-> backed'[prop[j]][a] - refunded'[prop[j]][a]]]
  BY <1>0, <1>1 DEF Escrow
<1> QED
  BY <1>0, <1>2, <1>3, <1>4, <1>5, <1>6

\* The end of a settlement in a transaction: nothing is left in escrow.
LEMMA EscrowEmptied ==
  ASSUME SettlementInv, TypeOK', NEW j \in Jobs, Commit(j), InTransaction(j), j.op # "back"
  PROVE  /\ Escrow' = [Escrow EXCEPT ![prop[j]] = Ledger!NoEscrow]
         /\ \A a \in Accounts : draft[j].refunds[a] = Escrow[prop[j]][a]
<1> DEFINE q == prop[j]
<1>1. q \in Proposals /\ backed'[q] = backed[q]
  BY CommitEffect DEF SettlementInv
<1>2. \A a \in Accounts : refunded[q][a] + draft[j].refunds[a] = backed[q][a]
  BY CommitRefunds
<1>3. \A a \in Accounts : draft[j].refunds[a] \in Nat
                          /\ refunded'[q][a] = refunded[q][a] + draft[j].refunds[a]
  BY CommitView
<1>4. \A a \in Accounts : /\ draft[j].refunds[a] = Escrow[q][a]
                          /\ backed'[q][a] - refunded'[q][a] = 0
  BY <1>1, <1>2, <1>3, EscrowType
<1>5. [a \in Accounts |-> backed'[q][a] - refunded'[q][a]] = Ledger!NoEscrow
  BY <1>4 DEF Ledger!NoEscrow
<1> QED
  BY <1>4, <1>5, CommitView

\* A close completes the proposal; an annulment, or a deletion's, releases it.
LEMMA SettledStep ==
  ASSUME SettlementInv, TypeOK', NEW j \in Jobs, Commit(j), InTransaction(j), j.op # "back"
  PROVE  Ledger!LedgerNext
<1> DEFINE q == prop[j]
<1>0. q \in Proposals /\ j.op \in Ops \ {"action"} /\ Author[q] \in Accounts /\ Raised' = Raised
  BY CommitEffect, CommitView, AuthorAssumption DEF SettlementInv
<1>1. status[q] = Requires(j) /\ status'[q] = Makes(j)
  BY CommitRefunds
<1>2. draft[j].payout = IF j.op = "close" THEN AuthorPayoutFor(Total(q)) ELSE 0
  BY CommitEffect DEF SettlementInv
<1>3. \A a \in Accounts :
        Change(j, a) = Escrow[q][a]
                         + (IF j.op = "close" /\ a = Author[q] THEN AuthorPayoutFor(Total(q)) ELSE 0)
  <2> SUFFICES ASSUME NEW a \in Accounts
               PROVE  Change(j, a) = Escrow[q][a]
                        + (IF j.op = "close" /\ a = Author[q] THEN AuthorPayoutFor(Total(q)) ELSE 0)
    OBVIOUS
  <2>1. draft[j].refunds[a] = Escrow[q][a] /\ Escrow[q][a] \in Nat
    BY <1>0, EscrowEmptied, EscrowType
  <2>2. AuthorPayoutFor(Total(q)) \in Nat
    BY <1>0, RewardType DEF SettlementInv, Inv
  <2> QED
    BY <1>2, <2>1, <2>2 DEF Change
<1>4. \A a \in Accounts : balance'[a] = balance[a] + Change(j, a) /\ balance[a] \in Nat
                          /\ Escrow[q][a] \in Nat
  BY <1>0, CommitView, EscrowType
<1>5. Escrow' = [Escrow EXCEPT ![q] = Ledger!NoEscrow]
  BY EscrowEmptied
<1>6. CASE j.op = "close"
  <2>1. Phases[q] = "held" /\ Phases' = [Phases EXCEPT ![q] = "done"]
    BY <1>0, <1>1, <1>6, CommitView DEF Requires, Makes, Phase, TERMINAL_STATES
  <2>2. AuthorPayoutFor(Total(q)) = Ledger!Reward(Raised[q]) /\ AuthorPayoutFor(Total(q)) \in Nat
    BY <1>0, RewardType DEF AuthorPayoutFor, Ledger!Reward, Raised, SettlementInv, Inv
  <2>3. balance' = [a \in Accounts |-> balance[a] + Escrow[q][a]
                      + (IF a = Author[q] THEN Ledger!Reward(Raised[q]) ELSE 0)]
    <3>1. \A a \in Accounts : balance'[a] = balance[a] + Escrow[q][a]
                      + (IF a = Author[q] THEN Ledger!Reward(Raised[q]) ELSE 0)
      BY <1>3, <1>4, <1>6, <2>2
    <3>2. balance' = [a \in Accounts |-> balance[a] + Change(j, a)]
      BY CommitView
    <3> QED
      BY <3>1, <3>2
  <2>4. PICK p \in Proposals : p = q
    BY <1>0
  <2>5. PICK payee \in Accounts : payee = Author[p]
    BY <1>0, <2>4
  <2>6. Ledger!Complete(p, payee)
    BY <1>0, <1>5, <2>1, <2>3, <2>4, <2>5 DEF Ledger!Complete, Escrow, Phases, Raised
  <2> QED
    BY <2>6 DEF Ledger!LedgerNext
<1>7. CASE j.op # "close"
  <2>1. Phases[q] = "taking" /\ Phases' = [Phases EXCEPT ![q] = "done"]
    BY <1>0, <1>1, <1>7, CommitView DEF Requires, Makes, Phase, TERMINAL_STATES, Ops
  <2>2. balance' = [a \in Accounts |-> balance[a] + Escrow[q][a]]
    <3>1. \A a \in Accounts : balance'[a] = balance[a] + Escrow[q][a]
      BY <1>3, <1>4, <1>7
    <3>2. balance' = [a \in Accounts |-> balance[a] + Change(j, a)]
      BY CommitView
    <3> QED
      BY <3>1, <3>2
  <2>3. PICK p \in Proposals : p = q
    BY <1>0
  <2>4. Ledger!Release(p)
    BY <1>0, <1>5, <2>1, <2>2, <2>3 DEF Ledger!Release, Escrow, Phases, Raised
  <2> QED
    BY <2>4 DEF Ledger!LedgerNext
<1> QED
  BY <1>6, <1>7

\* A refund a deletion commits by itself sends one escrow home.
LEMMA SentHomeStep ==
  ASSUME SettlementInv, TypeOK', NEW j \in Jobs, Commit(j), ~InTransaction(j)
  PROVE  Ledger!LedgerNext
<1> DEFINE q == prop[j]
           home == {a \in Accounts : draft[j].refunds[a] # 0}
<1>0. /\ q \in Proposals /\ j.op = "delete" /\ status[q] = "actioned" /\ status'[q] = "actioned"
      /\ backed'[q] = backed[q] /\ draft[j].payout = 0
  BY CommitRefunds, CommitEffect DEF SettlementInv
<1>1. Phases[q] = "held" /\ Phases' = Phases /\ Raised' = Raised
  <2>1. Phases[q] = "held" /\ Phases' = [Phases EXCEPT ![q] = "held"] /\ Raised' = Raised
    BY <1>0, CommitView DEF Phase, TERMINAL_STATES
  <2> QED
    BY <1>0, <2>1 DEF Phases
<1>2. \A a \in Accounts :
        /\ draft[j].refunds[a] = (IF a \in home THEN Escrow[q][a] ELSE 0)
        /\ backed'[q][a] - refunded'[q][a] = (IF a \in home THEN 0 ELSE Escrow[q][a])
  <2> SUFFICES ASSUME NEW a \in Accounts
               PROVE  /\ draft[j].refunds[a] = (IF a \in home THEN Escrow[q][a] ELSE 0)
                      /\ backed'[q][a] - refunded'[q][a] = (IF a \in home THEN 0 ELSE Escrow[q][a])
    OBVIOUS
  <2>1. draft[j].refunds[a] = 0 \/ refunded[q][a] + draft[j].refunds[a] = backed[q][a]
    BY CommitRefunds
  <2>2. /\ draft[j].refunds[a] \in Nat
        /\ refunded'[q][a] = refunded[q][a] + draft[j].refunds[a]
    BY CommitView
  <2>3. backed[q][a] \in Nat /\ refunded[q][a] \in Nat /\ Escrow[q][a] = backed[q][a] - refunded[q][a]
    BY <1>0, EscrowType
  <2> QED
    BY <1>0, <2>1, <2>2, <2>3
<1>3. Escrow' = [Escrow EXCEPT ![q] = [a \in Accounts |-> IF a \in home THEN 0 ELSE @[a]]]
  <2>1. [a \in Accounts |-> backed'[q][a] - refunded'[q][a]]
        = [a \in Accounts |-> IF a \in home THEN 0 ELSE Escrow[q][a]]
    BY <1>2
  <2>2. Escrow' = [Escrow EXCEPT ![q] = [a \in Accounts |-> backed'[q][a] - refunded'[q][a]]]
    BY CommitView
  <2> HIDE DEF home, q
  <2> QED
    BY <1>0, <2>1, <2>2 DEF Escrow
<1>4. balance' = [a \in Accounts |-> balance[a] + (IF a \in home THEN Escrow[q][a] ELSE 0)]
  <2>1. \A a \in Accounts : Change(j, a) = draft[j].refunds[a]
    <3>1. \A a \in Accounts : draft[j].refunds[a] \in Nat
      BY CommitView
    <3> QED
      BY <1>0, <3>1 DEF Change
  <2>2. balance' = [a \in Accounts |-> balance[a] + Change(j, a)]
    BY CommitView
  <2> QED
    BY <1>2, <2>1, <2>2
<1>5. PICK p \in Proposals, backers \in SUBSET Accounts : p = q /\ backers = home
  BY <1>0
<1>6. Ledger!SendHome(p, backers)
  <2> HIDE DEF home, q
  <2> QED
    BY <1>0, <1>1, <1>3, <1>4, <1>5 DEF Ledger!SendHome, Escrow, Phases, Raised
<1> QED
  BY <1>6 DEF Ledger!LedgerNext

\* A backing stakes what it commits.
LEMMA StakedStep ==
  ASSUME SettlementInv, TypeOK', NEW j \in Jobs, Commit(j), j.op = "back"
  PROVE  Ledger!LedgerNext \/ UNCHANGED Ledger!ledgerVars
<1> DEFINE q == prop[j]
<1>0. /\ q \in Proposals /\ j.who \in Accounts /\ j.amount \in Nat /\ InTransaction(j)
      /\ DOMAIN backed = Proposals
  BY CommitView, CommitRefunds, JobParts DEF SettlementInv, Inv, TypeOK
<1>1. Phases[q] = "taking" /\ Phases' = Phases
  <2>1. status[q] = "open" /\ status'[q] = "open"
    BY <1>0, CommitRefunds DEF Requires
  <2>2. Phases[q] = "taking" /\ Phases' = [Phases EXCEPT ![q] = "taking"]
    BY <2>1, CommitView DEF Phase, TERMINAL_STATES
  <2> QED
    BY <1>0, <2>2 DEF Phases
<1>2. /\ draft[j].payout = 0 /\ \A a \in Accounts : draft[j].refunds[a] = 0
  BY CommitRefunds, CommitEffect DEF SettlementInv
<1>3. /\ backed[q] \in [Accounts -> Nat] /\ refunded[q] \in [Accounts -> Nat]
      /\ backed' = [backed EXCEPT ![q] = [backed[q] EXCEPT ![j.who] = @ + j.amount]]
      /\ balance \in [Accounts -> Nat] /\ balance' \in [Accounts -> Nat]
  BY <1>0 DEF Commit, SettlementInv, Inv, TypeOK
<1>4. balance' = [balance EXCEPT ![j.who] = @ - j.amount]
  <2>1. balance' = [a \in Accounts |-> balance[a] + Change(j, a)]
    BY CommitView
  <2>2. \A a \in Accounts : Change(j, a) = (IF a = j.who THEN -j.amount ELSE 0)
    BY <1>0, <1>2 DEF Change, Commit
  <2>3. \A a \in Accounts : balance'[a] = (IF a = j.who THEN balance[a] - j.amount ELSE balance[a])
    BY <1>0, <1>3, <2>1, <2>2
  <2> QED
    BY <1>3, <2>3
<1>5. refunded' = refunded
  <2>1. \A p \in Proposals : p # q => refunded'[p] = refunded[p]
    BY CommitEffect DEF SettlementInv
  <2>2. refunded'[q] = refunded[q]
    <3>1. refunded'[q] = [a \in Accounts |-> refunded[q][a] + draft[j].refunds[a]]
      BY CommitEffect DEF SettlementInv
    <3> QED
      BY <1>2, <1>3, <3>1
  <2>3. refunded \in [Proposals -> [Accounts -> Nat]] /\ refunded' \in [Proposals -> [Accounts -> Nat]]
    BY DEF SettlementInv, Inv, TypeOK
  <2> QED
    BY <2>1, <2>2, <2>3
<1>6. CASE j.amount = 0
  <2>1. backed' = backed /\ balance' = balance
    <3>1. [backed[q] EXCEPT ![j.who] = @ + j.amount] = backed[q]
      BY <1>0, <1>3, <1>6
    <3>2. backed' = backed
      <4>1. backed = [p \in Proposals |-> backed[p]]
        BY DEF SettlementInv, Inv, TypeOK
      <4> HIDE DEF q
      <4> QED
        BY <1>0, <1>3, <3>1, <4>1
    <3> QED
      BY <1>0, <1>3, <1>4, <1>6, <3>2
  <2>2. \A p \in Proposals : Phase(status'[p]) = Phase(status[p])
    <3>1. \A p \in Proposals : Phases'[p] = Phases[p]
      BY <1>1
    <3> QED
      BY <3>1 DEF Phases
  <2> QED
    BY <1>5, <2>1, <2>2, ViewUnchanged
<1>7. CASE j.amount # 0
  <2> DEFINE n == j.amount
  <2>1. n \in 1..balance[j.who]
    BY <1>0, <1>3, <1>4, <1>7
  <2>2. Escrow' = [Escrow EXCEPT ![q][j.who] = @ + n]
    <3>1. \A p \in Proposals \ {q} : backed'[p] = backed[p]
      BY <1>0, <1>3
    <3>2. \A a \in Accounts :
            backed'[q][a] - refunded[q][a]
            = IF a = j.who THEN (backed[q][a] - refunded[q][a]) + n
              ELSE backed[q][a] - refunded[q][a]
      BY <1>0, <1>3
    <3>3. [a \in Accounts |-> backed'[q][a] - refunded[q][a]]
          = [[a \in Accounts |-> backed[q][a] - refunded[q][a]] EXCEPT ![j.who] = @ + n]
      BY <1>0, <3>2
    <3>4. Escrow' = [Escrow EXCEPT ![q] = [a \in Accounts |-> backed'[q][a] - refunded[q][a]]]
      <4>1. Escrow' = [Escrow EXCEPT ![q] = [a \in Accounts |-> backed'[q][a] - refunded'[q][a]]]
        BY CommitView
      <4> QED
        BY <1>5, <4>1
    <3>5. Escrow[q] = [a \in Accounts |-> backed[q][a] - refunded[q][a]]
      BY <1>0 DEF Escrow
    <3> HIDE DEF q, n
    <3> QED
      BY <3>3, <3>4, <3>5
  <2>3. Raised' = [Raised EXCEPT ![q] = @ + n]
    <3>1. Total(q)' = Total(q) + n
      <4> DEFINE f == backed[q]
                 g == backed'[q]
      <4>1. /\ \A a \in Accounts : f[a] \in Int /\ g[a] \in Int
            /\ \A a \in Accounts \ {j.who} : f[a] = g[a]
            /\ g[j.who] - f[j.who] = n
        BY <1>0, <1>3
      <4>2. Total(q) = SumOf(Accounts, f)
        BY SumOverIs DEF Total
      <4>3. Total(q)' = SumOf(Accounts, g)
        <5>1. prop'[j] = prop[j]
          BY DEF Commit
        <5>2. Total(q)' = SumOver(Accounts, g)
          BY <5>1 DEF Total
        <5> QED
          BY <5>2, SumOverIs
      <4> HIDE DEF f, g, n
      <4>4. SumOf(Accounts, g) = SumOf(Accounts, f) + (g[j.who] - f[j.who])
        BY <1>0, <4>1, FiniteAssumption, SumChange
      <4> QED
        BY <4>1, <4>2, <4>3, <4>4
    <3>2. \A p \in Proposals \ {q} : Total(p)' = Total(p)
      BY <1>0, <1>3 DEF Total
    <3>3. prop'[j] = prop[j]
      BY DEF Commit
    <3> QED
      BY <1>0, <3>1, <3>2, <3>3 DEF Raised
  <2>4. PICK p \in Proposals : p = q
    BY <1>0
  <2>5. Ledger!Stake(j.who, p)
    <3> HIDE DEF q, n
    <3> QED
      BY <1>0, <1>1, <1>4, <2>1, <2>2, <2>3, <2>4 DEF Ledger!Stake, Escrow, Phases, Raised, n
  <2> QED
    BY <1>0, <2>5 DEF Ledger!LedgerNext
<1> QED
  BY <1>6, <1>7

\* "actioned" holds what is staked.
LEMMA HeldStep ==
  ASSUME SettlementInv, NEW j \in Jobs, Action(j)
  PROVE  Ledger!LedgerNext \/ UNCHANGED Ledger!ledgerVars
<1>0. j.prop \in Proposals /\ DOMAIN status = Proposals /\ UNCHANGED <<balance, backed, refunded>>
  BY JobParts DEF SettlementInv, Inv, TypeOK, Action
<1>1. CASE status[j.prop] = "open"
  <2>1. /\ Phases[j.prop] = "taking" /\ Phases' = [Phases EXCEPT ![j.prop] = "held"]
        /\ Escrow' = Escrow /\ Raised' = Raised
    BY <1>0, <1>1 DEF Action, Phases, Phase, TERMINAL_STATES, Escrow, Raised, Total
  <2>2. Ledger!Hold(j.prop)
    BY <1>0, <2>1 DEF Ledger!Hold, Phases, Escrow, Raised
  <2> QED
    BY <1>0, <2>2 DEF Ledger!LedgerNext
<1>2. CASE status[j.prop] # "open"
  <2>1. status' = status
    BY <1>2 DEF Action
  <2> QED
    BY <1>0, <2>1, ViewUnchanged
<1> QED
  BY <1>1, <1>2

\* What jobs commit, in any interleaving, moves only as the token economy allows, one
\* whole movement at a time: TokenSettlement implements TokenLedger, as long as nobody
\* closes or deletes twice behind their own deletion.
THEOREM SettlementImplementsLedger ==
  ASSUME OneSettles
  PROVE  Spec => ImplementsLedger
<1>1. Init => Ledger!LedgerInit
  <2> SUFFICES ASSUME Init PROVE Ledger!LedgerInit
    OBVIOUS
  <2>1. Escrow = [p \in Proposals |-> Ledger!NoEscrow]
    BY DEF Init, Escrow, Nothing, Ledger!NoEscrow
  <2>2. Phases = [p \in Proposals |-> "taking"]
    BY DEF Init, Phases, Phase, TERMINAL_STATES
  <2>3. Raised = [p \in Proposals |-> 0]
    <3> SUFFICES ASSUME NEW p \in Proposals PROVE Total(p) = 0
      BY DEF Raised
    <3>1. backed[p] = Nothing /\ \A a \in Accounts : Nothing[a] = 0
      BY DEF Init, Nothing
    <3>2. SumOf(Accounts, Nothing) = 0
      BY <3>1, FiniteAssumption, SumZero
    <3> QED
      BY <3>1, <3>2, SumOverIs DEF Total
  <2>4. balance \in [Accounts -> Nat]
    BY StartAssumption DEF Init
  <2> QED
    BY <2>1, <2>2, <2>3, <2>4 DEF Ledger!LedgerInit, Escrow, Phases, Raised
<1>2. ASSUME SettlementInv, TypeOK', [Next]_vars
      PROVE  Ledger!LedgerNext \/ UNCHANGED Ledger!ledgerVars
  <2>1. CASE UNCHANGED rows
    BY <2>1, ViewUnchanged
  <2>2. ASSUME NEW j \in Jobs, Action(j) PROVE Ledger!LedgerNext \/ UNCHANGED Ledger!ledgerVars
    BY <1>2, <2>2, HeldStep
  <2>3. ASSUME NEW j \in Jobs, Commit(j) PROVE Ledger!LedgerNext \/ UNCHANGED Ledger!ledgerVars
    <3>1. CASE j.op = "back"
      BY <1>2, <2>3, <3>1, StakedStep
    <3>2. CASE j.op # "back" /\ InTransaction(j)
      BY <1>2, <2>3, <3>2, SettledStep
    <3>3. CASE ~InTransaction(j)
      BY <1>2, <2>3, <3>3, SentHomeStep
    <3> QED
      BY <3>1, <3>2, <3>3
  <2>4. ASSUME NEW j \in Jobs, Step(j), ~Action(j), ~Commit(j) PROVE UNCHANGED rows
    BY <2>4 DEF Step, CheckBackable, Begin, LoadProposals, NextProposal, FinishDeletion,
                LockProposal, RefuseState, NextBacker, RefundsDone, LockBalance,
                RefuseBalance, Write
  <2>5. ASSUME NEW j \in Jobs, DeadlockVictim(j) \/ Crash(j) PROVE UNCHANGED rows
    BY <2>5 DEF DeadlockVictim, Crash
  <2>6. UNCHANGED vars => UNCHANGED rows
    BY DEF vars
  <2> QED
    BY <1>2, <2>1, <2>2, <2>3, <2>4, <2>5, <2>6 DEF Next
<1>3. SettlementInv => TypeOK
  BY DEF SettlementInv, Inv
<1> QED
  BY <1>1, <1>2, <1>3, SettlementInvariance, PTL DEF Spec, ImplementsLedger, Ledger!LedgerSpec
================================================================================
