---------------------------- MODULE TokenSettlement ----------------------------
(***************************************************************************)
(* The statements behind Kronk::Tokens: backing, closing, annulling and    *)
(* the settlement an account deletion makes, interleaved as PostgreSQL     *)
(* (READ COMMITTED) interleaves them.                                      *)
(*                                                                         *)
(* A job is one request, shell command or deletion worker.  It takes row   *)
(* locks (FOR UPDATE) on a proposal and on balances and keeps them until   *)
(* its transaction ends; what it writes is its own until it commits.  The  *)
(* insert of a token transaction needs a key-share lock on its proposal,   *)
(* so it waits for another job's FOR UPDATE on that row.  PostgreSQL ends  *)
(* a cycle of waiting jobs by rolling one of them back.                    *)
(*                                                                         *)
(* "open" stands for open or claimed: who builds a proposal makes no       *)
(* difference to its tokens.  Account and proposal ids are numbers.        *)
(***************************************************************************)
EXTENDS Integers, FiniteSetsExt

CONSTANTS
  Accounts,          \* account ids
  Proposals,         \* proposal ids
  Author,            \* who proposed each
  StartingBalance,   \* TokenBalance::STARTING_BALANCE
  Jobs,              \* the jobs of the run: [op, who, prop, amount]
  Mortal,            \* bound: the operations whose process may be killed
  MaxCrashes         \* bound: processes killed in a run

Ops == {"back", "action", "close", "annul", "delete"}
NoJob == [op |-> "none", who |-> 0, prop |-> 0, amount |-> 0]

ASSUME FiniteAssumption == IsFiniteSet(Accounts) /\ IsFiniteSet(Proposals)
ASSUME IdsAssumption == Accounts \subseteq Nat \ {0} /\ Proposals \subseteq Nat \ {0}
ASSUME AuthorAssumption == Author \in [Proposals -> Accounts]
ASSUME StartAssumption == StartingBalance \in Nat \ {0}
ASSUME CrashesAssumption == MaxCrashes \in Nat /\ Mortal \subseteq Ops
ASSUME JobsAssumption ==
  \A j \in Jobs : j.op \in Ops /\ j.who \in Accounts /\ j.prop \in Proposals /\ j.amount \in Nat

VARIABLES
  status, balance, backed, refunded, payout,   \* the committed rows
  propLock,   \* who holds a proposal's row FOR UPDATE
  balLock,    \* who holds a balance's row FOR UPDATE
  pc,         \* where each job is
  prop,       \* the proposal a job is working on
  seen,       \* the status of each proposal as the job last loaded it
  due,        \* backer_totals as the job read it, less the backers it has done
  move,       \* [kind, to, amount]: the balance change the job is making
  purse,      \* the balance it read
  draft,      \* its uncommitted writes: [status, rows, refunds, payout]
  left,       \* the proposals a deletion pass has still to visit
  crashes     \* processes killed so far

rows == <<status, balance, backed, refunded, payout>>
locks == <<propLock, balLock>>
locals == <<pc, prop, seen, due, move, purse, draft, left>>
vars == <<rows, locks, locals, crashes>>

TERMINAL_STATES == {"closed", "annulled"}
Nothing == [a \in Accounts |-> 0]
NoRows == [a \in {} |-> 0]
NoMove == [kind |-> "none", to |-> 0, amount |-> 0]
NoDraft == [status |-> "same", rows |-> NoRows, refunds |-> Nothing, payout |-> 0]

SumOver(S, f) == MapThenSumSet(LAMBDA x : f[x], S)
Total(p) == SumOver(Accounts, backed[p])
AuthorPayoutFor(total) == IF total \div 10 > 1 THEN total \div 10 ELSE 1

Init ==
  /\ status = [p \in Proposals |-> "open"]
  /\ balance = [a \in Accounts |-> StartingBalance]
  /\ backed = [p \in Proposals |-> Nothing]
  /\ refunded = [p \in Proposals |-> Nothing]
  /\ payout = [p \in Proposals |-> 0]
  /\ propLock = [p \in Proposals |-> NoJob]
  /\ balLock = [a \in Accounts |-> NoJob]
  /\ pc = [j \in Jobs |-> "start"]
  /\ prop = [j \in Jobs |-> j.prop]
  /\ seen = [j \in Jobs |-> status]
  /\ due = [j \in Jobs |-> Nothing]
  /\ move = [j \in Jobs |-> NoMove]
  /\ purse = [j \in Jobs |-> 0]
  /\ draft = [j \in Jobs |-> NoDraft]
  /\ left = [j \in Jobs |-> {}]
  /\ crashes = 0

Goto(j, where) == pc' = [pc EXCEPT ![j] = where]

\* The end of a transaction: j holds nothing and has written nothing more.
LetGo(j) ==
  /\ propLock' = [p \in Proposals |-> IF propLock[p] = j THEN NoJob ELSE propLock[p]]
  /\ balLock' = [a \in Accounts |-> IF balLock[a] = j THEN NoJob ELSE balLock[a]]
  /\ draft' = [draft EXCEPT ![j] = NoDraft]

\* Altered (for a NoneLockedBehindGone mutant): a deletion skips what it cannot settle.
FailAndSkip(j) == Goto(j, IF j.op = "delete" THEN "next" ELSE "failed")

\* Altered (for the DeletionUnlocks mutant): a failed deletion is not tried again.
FailForGood(j) == Goto(j, "failed")

\* An exception ends the job; Sidekiq runs a deletion again, a request is over.
Fail(j) == Goto(j, IF j.op = "delete" THEN "start" ELSE "failed")

\* A job inside a transaction that spans its whole settlement.
InTransaction(j) == propLock[prop[j]] = j

--------------------------------------------------------------------------------
(* Before the first lock. *)

\* ProposalsController#back looks at the proposal it loaded.
CheckBackable(j) ==
  /\ pc[j] = "start" /\ j.op = "back"
  /\ Goto(j, IF status[j.prop] = "open" THEN "lock" ELSE "failed")
  /\ UNCHANGED <<rows, locks, prop, seen, due, move, purse, draft, left, crashes>>

\* close! compares the caller with the proposer; annul! has nothing to check.
Begin(j) ==
  /\ pc[j] = "start" /\ j.op \in {"close", "annul"}
  /\ Goto(j, IF j.op = "close" /\ j.who # Author[j.prop] THEN "failed" ELSE "lock")
  /\ UNCHANGED <<rows, locks, prop, seen, due, move, purse, draft, left, crashes>>

\* action! locks, checks, writes and commits with nothing else to wait for.
Action(j) ==
  /\ pc[j] = "start" /\ j.op = "action"
  /\ propLock[j.prop] = NoJob
  /\ status' = IF status[j.prop] = "open"
               THEN [status EXCEPT ![j.prop] = "actioned"] ELSE status
  /\ Goto(j, IF status[j.prop] = "open" THEN "done" ELSE "failed")
  /\ UNCHANGED <<balance, backed, refunded, payout, locks, prop, seen, due, move,
                 purse, draft, left, crashes>>

\* settle_proposals! loads the account's proposals in one batch.
LoadProposals(j) ==
  /\ pc[j] = "start" /\ j.op = "delete"
  /\ left' = [left EXCEPT ![j] = {p \in Proposals : Author[p] = j.who}]
  /\ seen' = [seen EXCEPT ![j] = status]
  /\ Goto(j, "next")
  /\ UNCHANGED <<rows, locks, prop, due, move, purse, draft, crashes>>

\* On to the next proposal of the batch, by the status it was loaded with.
NextProposal(j) ==
  /\ pc[j] = "next" /\ left[j] # {}
  /\ LET p == Min(left[j]) IN
       /\ left' = [left EXCEPT ![j] = @ \ {p}]
       /\ prop' = [prop EXCEPT ![j] = p]
       /\ \/ seen[j][p] = "open" /\ Goto(j, "lock") /\ UNCHANGED due
          \/ /\ seen[j][p] = "actioned"
             /\ due' = [due EXCEPT ![j] = backed[p]]
             /\ Goto(j, "refund")
          \/ seen[j][p] \in TERMINAL_STATES /\ UNCHANGED <<pc, due>>
  /\ UNCHANGED <<rows, locks, seen, move, purse, draft, crashes>>

FinishDeletion(j) ==
  /\ pc[j] = "next" /\ left[j] = {}
  /\ Goto(j, "done")
  /\ UNCHANGED <<rows, locks, prop, seen, due, move, purse, draft, left, crashes>>

--------------------------------------------------------------------------------
(* Under the proposal's lock. *)

\* What each operation requires of the reloaded proposal, and makes of it.
Requires(j) == IF j.op = "close" THEN "actioned" ELSE "open"
Makes(j) == CASE j.op = "close" -> "closed"
              [] j.op \in {"annul", "delete"} -> "annulled"
              [] j.op = "back" -> "same"

\* Nobody holds the proposal's row against j.
ProposalFree(j) == propLock[prop[j]] = NoJob

\* Altered (for the StakesComeHome mutant): back! trusts the controller's check.
ReadyUnlessBacking(j) == j.op = "back" \/ status[prop[j]] = Requires(j)

\* What require_state! and backable? find under the lock.
Ready(j) == status[prop[j]] = Requires(j)

\* with_lock: take the row, reload it, check its state.
LockProposal(j) ==
  /\ pc[j] = "lock"
  /\ ProposalFree(j)
  /\ Ready(j)
  /\ propLock' = [propLock EXCEPT ![prop[j]] = j]
  /\ draft' = [draft EXCEPT ![j].status = Makes(j)]
  /\ IF j.op = "back"
     THEN /\ move' = [move EXCEPT ![j] = [kind |-> "backing", to |-> j.who, amount |-> -j.amount]]
          /\ Goto(j, "purse")
          /\ UNCHANGED due
     ELSE /\ due' = [due EXCEPT ![j] = backed[prop[j]]]
          /\ Goto(j, "refund")
          /\ UNCHANGED move
  /\ UNCHANGED <<rows, balLock, prop, seen, purse, left, crashes>>

\* The state is not the one required: InvalidTransition or NotBackable.
RefuseState(j) ==
  /\ pc[j] = "lock"
  /\ ProposalFree(j)
  /\ ~Ready(j)
  /\ Fail(j)
  /\ UNCHANGED <<rows, locks, prop, seen, due, move, purse, draft, left, crashes>>

--------------------------------------------------------------------------------
(* refund_all! and pay_author!. *)

Backers(j) == {a \in Accounts : due[j][a] > 0}

\* Altered (for an ImplementsLedger mutant): refunds on record are not counted.
OwedAgain(j, a) == due[j][a]

\* What a was found to be due: backed, as first read, less the refunds on record.
OwedNow(j, a) == due[j][a] - refunded[prop[j]][a]

\* The next backer in account order: what was backed less the refunds on record,
\* read before any lock on the balance.
NextBacker(j) ==
  /\ pc[j] = "refund" /\ Backers(j) # {}
  /\ LET a == Min(Backers(j))
         owed == OwedNow(j, a)
     IN /\ due' = [due EXCEPT ![j][a] = 0]
        /\ IF owed > 0
           THEN /\ move' = [move EXCEPT ![j] = [kind |-> "refund", to |-> a, amount |-> owed]]
                /\ Goto(j, "purse")
           ELSE UNCHANGED <<move, pc>>
  /\ UNCHANGED <<rows, locks, prop, seen, purse, draft, left, crashes>>

\* Altered (for the PaidOnce mutant): an annul pays the author too.
PaysWhateverIsDone(j) == j.op # "back" /\ payout[prop[j]] = 0

\* A close pays the author, unless a payout is on record.
PaysAuthor(j) == j.op = "close" /\ payout[prop[j]] = 0

\* Every backer is done: a close goes on to pay the author, unless it is on record.
RefundsDone(j) ==
  /\ pc[j] = "refund" /\ Backers(j) = {}
  /\ \/ /\ PaysAuthor(j)
        /\ move' = [move EXCEPT ![j] = [kind |-> "payout", to |-> Author[prop[j]],
                                        amount |-> AuthorPayoutFor(Total(prop[j]))]]
        /\ Goto(j, "purse")
     \/ /\ ~PaysAuthor(j)
        /\ Goto(j, IF InTransaction(j) THEN "commit" ELSE "next")
        /\ UNCHANGED move
  /\ UNCHANGED <<rows, locks, prop, seen, due, purse, draft, left, crashes>>

--------------------------------------------------------------------------------
(* One movement of tokens. *)

\* The balance as j sees it: its own write if it made one.
BalanceSeen(j, a) == IF a \in DOMAIN draft[j].rows THEN draft[j].rows[a] ELSE balance[a]

\* Altered (for the Reconciles mutant): the balance is read without FOR UPDATE.
BalanceUnlocked(j) == TRUE

\* Nobody else holds the row of the balance j is about to change.
BalanceFree(j) == balLock[move[j].to] \in {NoJob, j}

\* lock_balance.
LockBalance(j) ==
  /\ pc[j] = "purse"
  /\ BalanceFree(j)
  /\ balLock' = [balLock EXCEPT ![move[j].to] = j]
  /\ purse' = [purse EXCEPT ![j] = BalanceSeen(j, move[j].to)]
  /\ Goto(j, "write")
  /\ UNCHANGED <<rows, propLock, prop, seen, due, move, draft, left, crashes>>

Enough(j) == purse[j] + move[j].amount >= 0

\* back! finds too little under the lock: InsufficientBalance, rolled back.
RefuseBalance(j) ==
  /\ pc[j] = "write" /\ ~Enough(j)
  /\ LetGo(j)
  /\ Fail(j)
  /\ UNCHANGED <<rows, prop, seen, due, move, purse, left, crashes>>

\* Altered (for the ImplementsLedger mutant): each movement commits by itself.
NeverNested(j) == FALSE

\* A refund's transaction is part of the transaction of the close or annul around it.
Nested(j) == InTransaction(j) /\ move[j].kind = "refund"

\* The balance row and its transaction row; the insert wants the proposal's row.
Write(j) ==
  /\ pc[j] = "write" /\ Enough(j)
  /\ propLock[prop[j]] \in {NoJob, j}
  /\ LET m == move[j]
         d == [draft[j] EXCEPT
                 !.rows = [a \in DOMAIN @ \cup {m.to} |->
                             IF a = m.to THEN purse[j] + m.amount ELSE @[a]]]
     IN draft' = [draft EXCEPT ![j] =
                    CASE m.kind = "refund" -> [d EXCEPT !.refunds[m.to] = m.amount]
                      [] m.kind = "payout" -> [d EXCEPT !.payout = m.amount]
                      [] m.kind = "backing" -> d]
  /\ Goto(j, IF Nested(j) THEN "refund" ELSE "commit")
  /\ UNCHANGED <<rows, locks, prop, seen, due, move, purse, left, crashes>>

\* The transaction ends: a refund of a deletion pass has one of its own.
Commit(j) ==
  /\ pc[j] = "commit"
  /\ LET p == prop[j]
         d == draft[j]
     IN /\ status' = IF d.status = "same" THEN status ELSE [status EXCEPT ![p] = d.status]
        /\ balance' = [a \in Accounts |-> BalanceSeen(j, a)]
        /\ refunded' = [refunded EXCEPT ![p] = [a \in Accounts |-> @[a] + d.refunds[a]]]
        /\ payout' = [payout EXCEPT ![p] = @ + d.payout]
        /\ backed' = IF j.op = "back" THEN [backed EXCEPT ![p][j.who] = @ + j.amount]
                     ELSE backed
  /\ LetGo(j)
  /\ Goto(j, CASE j.op # "delete" -> "done"
               [] j.op = "delete" /\ InTransaction(j) -> "next"
               [] j.op = "delete" /\ ~InTransaction(j) -> "refund")
  /\ UNCHANGED <<prop, seen, due, move, purse, left, crashes>>

--------------------------------------------------------------------------------
(* Waiting, deadlock, crashes. *)

\* The job that holds what j is waiting for.
WaitsFor(j) ==
  CASE pc[j] = "lock" -> propLock[prop[j]]
    [] pc[j] = "purse" -> balLock[move[j].to]
    [] pc[j] = "write" -> propLock[prop[j]]
    [] OTHER -> NoJob

Waiting == {j \in Jobs : WaitsFor(j) # NoJob}

\* Jobs that wait for one another in a circle, each for the next.
Cycle(S) ==
  /\ S # {}
  /\ \A j \in S : WaitsFor(j) \in S \ {j}
  /\ \A j \in S : \E k \in S : WaitsFor(k) = j

\* PostgreSQL rolls back one job of a cycle.
DeadlockVictim(j) ==
  /\ \E S \in SUBSET Waiting : j \in S /\ Cycle(S)
  /\ LetGo(j)
  /\ Fail(j)
  /\ UNCHANGED <<rows, prop, seen, due, move, purse, left, crashes>>

\* A process is killed between two statements; its transaction is rolled back.
Crash(j) ==
  /\ pc[j] \notin {"start", "done", "failed"}
  /\ crashes < MaxCrashes /\ j.op \in Mortal
  /\ crashes' = crashes + 1
  /\ LetGo(j)
  /\ Fail(j)
  /\ UNCHANGED <<rows, prop, seen, due, move, purse, left>>

Step(j) ==
  \/ CheckBackable(j) \/ Begin(j) \/ Action(j) \/ LoadProposals(j)
  \/ NextProposal(j) \/ FinishDeletion(j)
  \/ LockProposal(j) \/ RefuseState(j)
  \/ NextBacker(j) \/ RefundsDone(j)
  \/ LockBalance(j) \/ RefuseBalance(j) \/ Write(j) \/ Commit(j)

Over == \A j \in Jobs : pc[j] \in {"done", "failed"}

Next ==
  \/ \E j \in Jobs : Step(j) \/ DeadlockVictim(j) \/ Crash(j)
  \/ Over /\ UNCHANGED vars

Spec == Init /\ [][Next]_vars

\* A running job is scheduled, and gets a lock that keeps coming free; PostgreSQL
\* detects deadlocks; Sidekiq picks a failed deletion up again (its Step from "start").
Fairness ==
  /\ \A j \in Jobs : SF_vars(Step(j))
  /\ WF_vars(\E j \in Jobs : DeadlockVictim(j))

FairSpec == Spec /\ Fairness

--------------------------------------------------------------------------------
(* Properties. *)

\* Every variable has its type; no committed balance is ever negative, so no two
\* backings spend the same tokens.
TypeOK ==
  /\ status \in [Proposals -> {"open", "actioned"} \cup TERMINAL_STATES]
  /\ balance \in [Accounts -> Nat]
  /\ backed \in [Proposals -> [Accounts -> Nat]]
  /\ refunded \in [Proposals -> [Accounts -> Nat]]
  /\ payout \in [Proposals -> Nat]
  /\ propLock \in [Proposals -> Jobs \cup {NoJob}]
  /\ balLock \in [Accounts -> Jobs \cup {NoJob}]
  /\ pc \in [Jobs -> {"start", "lock", "next", "refund", "purse", "write", "commit",
                     "done", "failed"}]
  /\ prop \in [Jobs -> Proposals]
  /\ seen \in [Jobs -> [Proposals -> {"open", "actioned"} \cup TERMINAL_STATES]]
  /\ due \in [Jobs -> [Accounts -> Nat]]
  /\ purse \in [Jobs -> Nat]
  /\ DOMAIN move = Jobs /\ DOMAIN draft = Jobs
  /\ left \in [Jobs -> SUBSET Proposals]
  /\ crashes \in 0..MaxCrashes

\* TokenBalance#reconciles?: "a balance can never drift from its audit trail".
\* Whatever transactions interleave, are rolled back or killed, what is committed
\* in a balance is the start, less backings, plus refunds and payouts.
Reconciles ==
  \A a \in Accounts :
    balance[a] = StartingBalance
      + SumOver(Proposals, [p \in Proposals |-> refunded[p][a] - backed[p][a]])
      + SumOver({p \in Proposals : Author[p] = a}, payout)

\* Tokens.refund_all!: "Idempotent by design [...] so a double-fire cannot pay
\* twice".  No backer is ever refunded more than they staked.
RefundedOnce == \A p \in Proposals, a \in Accounts : refunded[p][a] <= backed[p][a]

\* ProposalStates.close!: "two closes at once used to both pass the check and both
\* refund and pay".  The author of a closed proposal is paid the reward once, the
\* author of any other nothing.
PaidOnce ==
  \A p \in Proposals :
    payout[p] = IF status[p] = "closed" THEN AuthorPayoutFor(Total(p)) ELSE 0

\* Tokens.back! locks the proposal first "so a stake can't land after an annul has
\* refunded everyone": a decided proposal holds nobody's tokens.
StakesComeHome ==
  \A p \in Proposals : status[p] \in TERMINAL_STATES => refunded[p] = backed[p]

\* settle_proposals!: when a deletion is done "nobody's tokens are left locked
\* behind an account that is gone".
NoneLockedBehindGone ==
  \A j \in Jobs, p \in Proposals :
    j.op = "delete" /\ pc[j] = "done" /\ Author[p] = j.who => refunded[p] = backed[p]

\* Tokens.refund_all!: backers are refunded "in account order, so two proposals
\* settling at once with backers in common lock those backers' balances in the
\* same order (no deadlock)".
NoLockCycle == \A S \in SUBSET Waiting : ~Cycle(S)

\* Every request ends and every deletion finishes, whatever they wait for on the
\* way: no job waits for ever on another, and no retry starts over without end.
EveryJobEnds ==
  \A j \in Jobs : <>(pc[j] \in {"done"} \cup (IF j.op = "delete" THEN {} ELSE {"failed"}))

\* A deletion gives every backer of what its account proposed their tokens for good,
\* even when the worker is killed halfway or finds a proposal moved on since it was
\* loaded, and must start over.
DeletionUnlocks ==
  \A j \in Jobs, p \in Proposals :
    j.op = "delete" /\ Author[p] = j.who => <>[](refunded[p] = backed[p])

Phase(s) ==
  IF s \in TERMINAL_STATES THEN "done" ELSE IF s = "actioned" THEN "held" ELSE "taking"

Ledger ==
  INSTANCE TokenLedger WITH
    purse <- balance,
    escrow <- [p \in Proposals |-> [a \in Accounts |-> backed[p][a] - refunded[p][a]]],
    raised <- [p \in Proposals |-> Total(p)],
    phase <- [p \in Proposals |-> Phase(status[p])]

\* What is committed moves only as the token economy allows, one whole movement
\* at a time: a transaction of many statements looks like one step from outside.
ImplementsLedger == Ledger!LedgerSpec
================================================================================
