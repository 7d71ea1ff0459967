-------------------------------- MODULE Kommons --------------------------------
(***************************************************************************)
(* Kommons: the life of a proposal and the tokens behind it.               *)
(*                                                                         *)
(* One action per request, shell command or deletion-worker step.  Every   *)
(* lifecycle operation of Kronk::ProposalStates but leave! runs under the  *)
(* proposal's row lock, and Kronk::Tokens.back! waits for it, so here each *)
(* is one atomic step, except that unclaim! picks the heir in one and      *)
(* hands over in another: leave! may come between.  TokenSettlement opens  *)
(* the steps that move tokens up to the interleaving of their statements.  *)
(*                                                                         *)
(* A table is a function of its keys.  proposal_backings and the refund    *)
(* rows of token_transactions are kept as the sums the code reads:         *)
(* backed[p][a], refunded[p][a] and, for total_for, raised[p].             *)
(***************************************************************************)
EXTENDS Integers, Sequences, FiniteSetsExt

CONSTANTS
  Accounts,          \* people who may sign up
  Proposals,         \* proposals that may be created
  NoOne,             \* the null claimant
  Stewards,          \* accounts whose role may administer or manage reports
  StartingBalance,   \* TokenBalance::STARTING_BALANCE
  Stakes,            \* the amounts a backing is explored with
  MaxTasks,          \* bound: tasks on one proposal
  Leavers            \* accounts whose deletion is explored

ASSUME AccountsAssumption == NoOne \notin Accounts
ASSUME FiniteAssumption == IsFiniteSet(Accounts) /\ IsFiniteSet(Proposals)
ASSUME BalanceAssumption == StartingBalance \in Nat \ {0}
ASSUME StakesAssumption == Stakes \subseteq Nat \ {0}
ASSUME TasksAssumption == MaxTasks \in Nat
ASSUME PeopleAssumption == Stewards \subseteq Accounts /\ Leavers \subseteq Accounts

VARIABLES
  account,    \* "absent", "member", "leaving" (suspended, worker queued), "gone"
  status,     \* proposals.status, or "none" before the row exists
  author,     \* created_by_account_id
  claimant,   \* claimed_by_account_id
  joins,      \* proposal_joins in (created_at, id) order
  heir,       \* who joined and is about to inherit the claim, while unclaim! holds p's lock
  tasks,      \* how many of a proposal's tasks are still to do, and how many done
  balance,    \* token_balances.balance
  backed,     \* sum of a's backings of p
  refunded,   \* sum of a's refund transactions for p
  raised,     \* sum of all backings of p
  payout,     \* the payout transaction of p, 0 when there is none
  swept       \* proposals the running settle_proposals! pass has handled

people == <<account, swept>>
work == <<claimant, joins, heir, tasks>>
tokens == <<balance, backed, refunded, raised, payout>>
vars == <<status, author, people, work, tokens>>

\* Altered (for the OnlyForward mutant): work handed back counts as on the board.
ActiveWithActioned == {"open", "claimed", "actioned"}

ACTIVE_STATES == {"open", "claimed"}
TERMINAL_STATES == {"closed", "annulled"}
Statuses == {"none", "actioned"} \cup ACTIVE_STATES \cup TERMINAL_STATES

Nothing == [a \in Accounts |-> 0]
Joined(p) == {joins[p][i] : i \in 1..Len(joins[p])}

\* The sequence s without its i-th element.
Without(s, i) == [j \in 1..(Len(s) - 1) |-> IF j < i THEN s[j] ELSE s[j + 1]]

Init ==
  /\ account = [a \in Accounts |-> "absent"]
  /\ status = [p \in Proposals |-> "none"]
  /\ author = [p \in Proposals |-> NoOne]
  /\ claimant = [p \in Proposals |-> NoOne]
  /\ joins = [p \in Proposals |-> <<>>]
  /\ heir = [p \in Proposals |-> NoOne]
  /\ tasks = [p \in Proposals |-> [todo |-> 0, done |-> 0]]
  /\ balance = Nothing
  /\ backed = [p \in Proposals |-> Nothing]
  /\ refunded = [p \in Proposals |-> Nothing]
  /\ raised = [p \in Proposals |-> 0]
  /\ payout = [p \in Proposals |-> 0]
  /\ swept = {}

SignedIn(a) == account[a] = "member"

\* No unclaim! under way holds the row of p.
Unlocked(p) == heir[p] = NoOne

--------------------------------------------------------------------------------
(* Accounts and proposals come to be. *)

\* A local account is created; its starting grant may fail without stopping it.
SignUp(a) ==
  /\ account[a] = "absent"
  /\ account' = [account EXCEPT ![a] = "member"]
  /\ \E granted \in {0, StartingBalance} :
       balance' = [balance EXCEPT ![a] = @ + granted]
  /\ UNCHANGED <<status, author, swept, work, backed, refunded, raised, payout>>

Create(a, p) ==
  /\ SignedIn(a)
  /\ status[p] = "none"
  /\ status' = [status EXCEPT ![p] = "open"]
  /\ author' = [author EXCEPT ![p] = a]
  /\ UNCHANGED <<people, work, tokens>>

--------------------------------------------------------------------------------
(* The board: claiming, joining, handing over. *)

Claim(a, p) ==
  /\ SignedIn(a)
  /\ status[p] = "open"
  /\ status' = [status EXCEPT ![p] = "claimed"]
  /\ claimant' = [claimant EXCEPT ![p] = a]
  /\ UNCHANGED <<author, people, joins, heir, tasks, tokens>>

\* Altered (for the CrewKept mutant): the last to have joined inherits.
PickLast(p) == heir' = [heir EXCEPT ![p] = joins[p][Len(joins[p])]]

PickHeir(p) == heir' = [heir EXCEPT ![p] = Head(joins[p])]

\* The first to have joined is to inherit the claim; with nobody, p is open again.
Unclaim(a, p) ==
  /\ SignedIn(a) /\ Unlocked(p)
  /\ status[p] = "claimed" /\ claimant[p] = a
  /\ \/ joins[p] # <<>> /\ PickHeir(p) /\ UNCHANGED <<status, claimant>>
     \/ /\ joins[p] = <<>>
        /\ claimant' = [claimant EXCEPT ![p] = NoOne]
        /\ status' = [status EXCEPT ![p] = "open"]
        /\ UNCHANGED heir
  /\ UNCHANGED <<author, people, joins, tasks, tokens>>

\* a is taken off the joined of p.
Removed(a, p) ==
  \E i \in 1..Len(joins[p]) :
    joins[p][i] = a /\ joins' = [joins EXCEPT ![p] = Without(@, i)]

\* Altered (for the CrewConsistent mutant): the heir stays among the joined.
HandOverKeepingJoin(p) ==
  /\ heir[p] # NoOne
  /\ claimant' = [claimant EXCEPT ![p] = heir[p]]
  /\ heir' = [heir EXCEPT ![p] = NoOne]
  /\ UNCHANGED <<status, author, people, joins, tasks, tokens>>

\* The rest of unclaim!: the heir it read inherits, still among the joined or not.
HandOver(p) ==
  /\ heir[p] # NoOne
  /\ claimant' = [claimant EXCEPT ![p] = heir[p]]
  /\ \/ Removed(heir[p], p)
     \/ heir[p] \notin Joined(p) /\ UNCHANGED joins
  /\ heir' = [heir EXCEPT ![p] = NoOne]
  /\ UNCHANGED <<status, author, people, tasks, tokens>>

Join(a, p) ==
  /\ SignedIn(a) /\ Unlocked(p)
  /\ status[p] = "claimed"
  /\ a # claimant[p] /\ a \notin Joined(p)
  /\ joins' = [joins EXCEPT ![p] = Append(@, a)]
  /\ UNCHANGED <<status, author, people, claimant, heir, tasks, tokens>>

\* Whatever state p is in, and without its lock.
Leave(a, p) ==
  /\ SignedIn(a)
  /\ Removed(a, p)
  /\ UNCHANGED <<status, author, people, claimant, heir, tasks, tokens>>

--------------------------------------------------------------------------------
(* Tokens. *)

\* Altered (for the StakesComeHome mutant): an annulled proposal takes stakes.
BackableUntilClosed(p) == status[p] \in ACTIVE_STATES \cup {"annulled"}

Backable(p) == status[p] \in ACTIVE_STATES

\* Altered (for the TypeOK mutants): the balance is not looked at.
AffordsAnything(a, n) == TRUE

Affords(a, n) == balance[a] >= n

\* Altered (for the Reconciles mutant): the stake is recorded but not taken.
BackUndebited(a, p, n) ==
  /\ SignedIn(a) /\ Backable(p) /\ Affords(a, n)
  /\ backed' = [backed EXCEPT ![p][a] = @ + n]
  /\ raised' = [raised EXCEPT ![p] = @ + n]
  /\ UNCHANGED <<status, author, people, work, balance, refunded, payout>>

Back(a, p, n) ==
  /\ SignedIn(a) /\ Unlocked(p)
  /\ Backable(p)
  /\ Affords(a, n)
  /\ balance' = [balance EXCEPT ![a] = @ - n]
  /\ backed' = [backed EXCEPT ![p][a] = @ + n]
  /\ raised' = [raised EXCEPT ![p] = @ + n]
  /\ UNCHANGED <<status, author, people, work, refunded, payout>>

\* Altered (for the RefundedOnce mutant): refunds already made are not counted.
OwedAgain(p, a) == backed[p][a]

\* What a is still due from p: what was backed less what was refunded.
Owed(p, a) ==
  IF backed[p][a] > refunded[p][a] THEN backed[p][a] - refunded[p][a] ELSE 0

RefundAll(p) ==
  refunded' = [refunded EXCEPT ![p] = [a \in Accounts |-> @[a] + Owed(p, a)]]

\* Altered (for the ImplementsLedger mutant): the reward has no floor.
PayoutWithoutFloor(total) == total \div 10

AuthorPayoutFor(total) == IF total \div 10 > 1 THEN total \div 10 ELSE 1

\* Altered (for the PaidOnClose mutant): nothing is due when little was raised.
PayoutDueOnTens(p) == IF payout[p] = 0 THEN raised[p] \div 10 ELSE 0

\* The payout a close still owes: none if one is on record.
PayoutDue(p) == IF payout[p] = 0 THEN AuthorPayoutFor(raised[p]) ELSE 0

--------------------------------------------------------------------------------
(* Actioned, closed, annulled. *)

\* The claimant, in the app.
MarkActioned(a, p) ==
  /\ SignedIn(a) /\ Unlocked(p)
  /\ status[p] = "claimed" /\ claimant[p] = a /\ author[p] # a
  /\ status' = [status EXCEPT ![p] = "actioned"]
  /\ UNCHANGED <<author, people, work, tokens>>

\* The shell, with nobody named.
ShellAction(p) ==
  /\ Unlocked(p)
  /\ status[p] \in ACTIVE_STATES
  /\ status' = [status EXCEPT ![p] = "actioned"]
  /\ UNCHANGED <<author, people, work, tokens>>

Close(a, p) ==
  /\ SignedIn(a)
  /\ author[p] = a
  /\ status[p] = "actioned"
  /\ status' = [status EXCEPT ![p] = "closed"]
  /\ RefundAll(p)
  /\ payout' = [payout EXCEPT ![p] = @ + PayoutDue(p)]
  /\ balance' = [x \in Accounts |->
                   balance[x] + Owed(p, x) + (IF x = a THEN PayoutDue(p) ELSE 0)]
  /\ UNCHANGED <<author, people, work, backed, raised>>

Annul(p) ==
  /\ Unlocked(p)
  /\ status[p] \in ACTIVE_STATES
  /\ status' = [status EXCEPT ![p] = "annulled"]
  /\ RefundAll(p)
  /\ balance' = [x \in Accounts |-> balance[x] + Owed(p, x)]
  /\ UNCHANGED <<author, work, backed, raised, payout>>

ShellAnnul(p) == Annul(p) /\ UNCHANGED people

--------------------------------------------------------------------------------
(* Tasks. *)

MayEditTasks(a, p) ==
  /\ SignedIn(a)
  /\ status[p] # "none"
  /\ author[p] = a \/ a \in Stewards

\* A task is added in any state of p, done already if its form says so.
AddTask(a, p) ==
  /\ MayEditTasks(a, p)
  /\ tasks[p].todo + tasks[p].done < MaxTasks
  /\ \/ tasks' = [tasks EXCEPT ![p].todo = @ + 1]
     \/ tasks' = [tasks EXCEPT ![p].done = @ + 1]
  /\ UNCHANGED <<status, author, people, claimant, joins, heir, tokens>>

ReopenTask(a, p) ==
  /\ MayEditTasks(a, p)
  /\ tasks[p].done > 0
  /\ tasks' = [tasks EXCEPT ![p] = [todo |-> @.todo + 1, done |-> @.done - 1]]
  /\ UNCHANGED <<status, author, people, claimant, joins, heir, tokens>>

\* Ticking the last task hands p to its proposer, unless they ticked it.
TickTask(a, p) ==
  /\ MayEditTasks(a, p) /\ Unlocked(p)
  /\ tasks[p].todo > 0
  /\ tasks' = [tasks EXCEPT ![p] = [todo |-> @.todo - 1, done |-> @.done + 1]]
  /\ status' = IF tasks[p].todo = 1 /\ Backable(p) /\ author[p] # a
               THEN [status EXCEPT ![p] = "actioned"]
               ELSE status
  /\ UNCHANGED <<author, people, claimant, joins, heir, tokens>>

--------------------------------------------------------------------------------
(* Account deletion. *)

Authored(a) == {p \in Proposals : author[p] = a}

\* The account is suspended and its deletion worker queued.
RequestDeletion(a) ==
  /\ a \in Leavers
  /\ SignedIn(a)
  /\ account' = [account EXCEPT ![a] = "leaving"]
  /\ UNCHANGED <<status, author, swept, work, tokens>>

\* settle_proposals!, one proposal of the pass.
SettleActive(a, p) ==
  /\ status[p] \in ACTIVE_STATES
  /\ Annul(p)

\* Altered (for the NoneLockedBehindGone mutant): actioned work is left for later.
SettleActionedLater(a, p) ==
  /\ status[p] = "actioned"
  /\ UNCHANGED <<status, author, work, tokens>>

SettleActioned(a, p) ==
  /\ status[p] = "actioned"
  /\ RefundAll(p)
  /\ balance' = [x \in Accounts |-> balance[x] + Owed(p, x)]
  /\ UNCHANGED <<status, author, work, backed, raised, payout>>

SettleTerminal(a, p) ==
  /\ status[p] \in TERMINAL_STATES
  /\ UNCHANGED <<status, author, work, tokens>>

Settle(a, p) ==
  /\ account[a] = "leaving"
  /\ p \in Authored(a) \ swept
  /\ SettleActive(a, p) \/ SettleActioned(a, p) \/ SettleTerminal(a, p)
  /\ swept' = swept \cup {p}
  /\ UNCHANGED account

\* The worker fails later in the purge, or is killed: Sidekiq runs it again.
RetryDeletion(a) ==
  /\ account[a] = "leaving"
  /\ swept' = swept \ Authored(a)
  /\ UNCHANGED <<account, status, author, work, tokens>>

\* The pass is over; the rest of the purge leaves Kommons alone.
FinishDeletion(a) ==
  /\ account[a] = "leaving"
  /\ Authored(a) \subseteq swept
  /\ account' = [account EXCEPT ![a] = "gone"]
  /\ UNCHANGED <<status, author, swept, work, tokens>>

--------------------------------------------------------------------------------
Request(a, p) ==
  \/ Create(a, p)
  \/ Claim(a, p) \/ Unclaim(a, p) \/ Join(a, p) \/ Leave(a, p)
  \/ \E n \in Stakes : Back(a, p, n)
  \/ MarkActioned(a, p) \/ Close(a, p)
  \/ AddTask(a, p) \/ ReopenTask(a, p) \/ TickTask(a, p)

Shell(p) == ShellAction(p) \/ ShellAnnul(p)

Deletion(a) ==
  \/ RequestDeletion(a) \/ RetryDeletion(a) \/ FinishDeletion(a)
  \/ \E p \in Proposals : Settle(a, p)

Next ==
  \/ \E a \in Accounts : SignUp(a) \/ Deletion(a)
  \/ \E a \in Accounts, p \in Proposals : Request(a, p)
  \/ \E p \in Proposals : Shell(p) \/ HandOver(p)

Spec == Init /\ [][Next]_vars

--------------------------------------------------------------------------------
(* Properties. *)

\* Every variable has its type; in particular no balance is ever negative
\* (TokenBalance validates balance >= 0, Tokens.back! must keep it so).
TypeOK ==
  /\ account \in [Accounts -> {"absent", "member", "leaving", "gone"}]
  /\ status \in [Proposals -> Statuses]
  /\ author \in [Proposals -> Accounts \cup {NoOne}]
  /\ claimant \in [Proposals -> Accounts \cup {NoOne}]
  /\ joins \in [Proposals -> Seq(Accounts)]
  /\ heir \in [Proposals -> Accounts \cup {NoOne}]
  /\ tasks \in [Proposals -> [todo : Nat, done : Nat]]
  /\ balance \in [Accounts -> Nat]
  /\ backed \in [Proposals -> [Accounts -> Nat]]
  /\ refunded \in [Proposals -> [Accounts -> Nat]]
  /\ raised \in [Proposals -> Nat]
  /\ payout \in [Proposals -> Nat]
  /\ swept \subseteq Proposals

\* Who is on a proposal always adds up: an open one has no claimant and nobody
\* joined; a claimed one has a claimant, who is not also among the joined; and
\* nobody joined twice.  Claim, join, leave and the hand-over of unclaim! each
\* keep their part of it, with no constraint in the database that would.
CrewConsistent ==
  \A p \in Proposals :
    /\ status[p] \in {"none", "open"} => claimant[p] = NoOne /\ joins[p] = <<>>
    /\ status[p] = "claimed" => claimant[p] # NoOne
    /\ claimant[p] \notin Joined(p)
    /\ \A i, j \in 1..Len(joins[p]) : joins[p][i] = joins[p][j] => i = j

\* When a proposal has reached its end every backer has exactly their stake
\* back: nothing short, nothing twice, and no stake that arrived too late to
\* be refunded (Tokens.back! against annul!, the idempotence of refund_all!).
StakesComeHome ==
  \A p \in Proposals : status[p] \in TERMINAL_STATES => refunded[p] = backed[p]

\* No backer of any proposal, at any time, is refunded more than they staked,
\* and none before it is decided: neither a retried deletion pass nor a close
\* after it pays a stake again.
RefundedOnce ==
  \A p \in Proposals, a \in Accounts :
    /\ refunded[p][a] > 0 => ~Backable(p)
    /\ refunded[p][a] \in {0, backed[p][a]}

\* The pool pays out for a closed proposal and no other, once, by the formula
\* of author_payout_for on everything the proposal raised.
PaidOnClose ==
  \A p \in Proposals :
    payout[p] = IF status[p] = "closed" THEN AuthorPayoutFor(raised[p]) ELSE 0

\* settle_proposals!: "nobody's tokens are left locked behind an account that
\* is gone".
NoneLockedBehindGone ==
  \A p \in Proposals :
    author[p] \in Accounts /\ account[author[p]] = "gone" => refunded[p] = backed[p]

SumOver(S, f) == MapThenSumSet(LAMBDA x : f[x], S)

\* TokenBalance#reconciles?, and the two groupings of proposal_backings: an
\* account's balance is its grant, less what it backed, plus its refunds and
\* the payouts of its own proposals.
Reconciles ==
  /\ \A p \in Proposals : raised[p] = SumOver(Accounts, backed[p])
  /\ \A a \in Accounts :
       \E grant \in {0, StartingBalance} :
         balance[a] = grant
           + SumOver(Proposals, [p \in Proposals |-> refunded[p][a] - backed[p][a]])
           + SumOver(Authored(a), payout)

\* Altered (for the WalletRightWhileAuthorsStay mutant): annulled proposals count as staked.
WalletStakedUntilClosed(a) ==
  SumOver({p \in Proposals : status[p] # "closed"}, [p \in Proposals |-> backed[p][a]])

\* What TokenBalancesController#show calls staked and total.
WalletStaked(a) ==
  SumOver({p \in Proposals : status[p] \notin TERMINAL_STATES},
          [p \in Proposals |-> backed[p][a]])

WalletTotal(a) == balance[a] + WalletStaked(a)

\* The wallet's "total" is what its owner will have once every proposal they
\* backed resolves: what they can spend now and what is still owed to them.
WalletTotalIsOwned ==
  \A a \in Accounts : SignedIn(a) =>
    WalletTotal(a) = balance[a]
      + SumOver(Proposals, [p \in Proposals |-> Owed(p, a)])

\* So it is for whoever has backed nothing of someone who deleted their account.
WalletRightWhileAuthorsStay ==
  \A a \in Accounts :
    /\ SignedIn(a)
    /\ \A p \in Proposals : backed[p][a] > 0 => account[author[p]] = "member"
    => WalletTotal(a) = balance[a]
         + SumOver(Proposals, [p \in Proposals |-> Owed(p, a)])

MovesForward ==
  \A p \in Proposals :
    /\ status[p] \in TERMINAL_STATES => status'[p] = status[p]
    /\ status[p] = "actioned" => status'[p] \in {"actioned", "closed"}

\* A proposal only moves forward, and from actioned only to closed: neither a
\* race of requests nor its proposer's deletion annuls work handed back
\* (Proposal: "There is deliberately no actioned -> annulled edge").
OnlyForward == [][MovesForward]_vars

\* a joined earlier than b in the join order s.
Earlier(s, a, b) == \E i, j \in 1..Len(s) : i < j /\ s[i] = a /\ s[j] = b

\* The claim on p passes from one person to another.
Passes(p) == claimant[p] # NoOne /\ claimant'[p] \notin {claimant[p], NoOne}

\* A crew hands over in the order its members joined, whoever comes and goes in
\* between: a claim given up goes to who had joined first ("whoever joined first
\* takes it on"), past nobody who joined before them and is still there; nobody is
\* moved ahead of another; it is only dropped with nobody joined; and once the work
\* is decided its builder stays on record.
CrewKept ==
  [][\A p \in Proposals :
       /\ status[p] \notin ACTIVE_STATES => claimant'[p] = claimant[p]
       /\ heir'[p] \notin {heir[p], NoOne} =>
            heir'[p] \in Joined(p) /\ \A a \in Joined(p) : ~Earlier(joins[p], a, heir'[p])
       /\ Passes(p) =>
            claimant'[p] = heir[p] /\ \A a \in Joined(p) : ~Earlier(joins[p], a, heir[p])
       /\ claimant[p] # NoOne /\ claimant'[p] = NoOne => Joined(p) = {}
       /\ \A a \in Accounts, b \in Joined(p) :
            Earlier(joins'[p], a, b) => Earlier(joins[p], a, b)]_vars

\* unclaim!: "it stays claimed, and whoever joined first takes it on", one of those
\* who joined.  Not kept: leave! does not wait for the lock of an unclaim! that has
\* read its heir, so the claim goes to somebody who has stepped back.
ClaimStaysWithCrew == [][\A p \in Proposals : Passes(p) => claimant'[p] \in Joined(p)]_vars

\* Every step is one the token economy allows.
Phase(s) ==
  IF s \in TERMINAL_STATES THEN "done" ELSE IF s = "actioned" THEN "held" ELSE "taking"

Ledger ==
  INSTANCE TokenLedger WITH
    purse <- balance,
    escrow <- [p \in Proposals |-> [a \in Accounts |-> backed[p][a] - refunded[p][a]]],
    raised <- raised,
    phase <- [p \in Proposals |-> Phase(status[p])]

\* Kommons implements TokenLedger: tokens leave escrow only to their owner, once,
\* and the proposer is paid exactly the reward, exactly on completion.
ImplementsLedger == Ledger!LedgerSpec
================================================================================
