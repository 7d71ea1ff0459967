----------------------------- MODULE KommonsProofs -----------------------------
(***************************************************************************)
(* Theorems about Kommons, for any accounts, proposals, stakes and bounds, *)
(* and about TaskHandover, for any tasks and requests.                     *)
(***************************************************************************)
EXTENDS Kommons, TaskHandover, SumTheorems, TLAPS

\* Taking an element out of a sequence leaves a sequence of the others, in
\* order: what Removed does to the joins.
LEMMA WithoutType ==
  ASSUME NEW S, NEW s \in Seq(S), NEW i \in 1..Len(s)
  PROVE  /\ Without(s, i) \in Seq(S)
         /\ Len(Without(s, i)) = Len(s) - 1
         /\ \A j \in 1..(Len(s) - 1) :
              Without(s, i)[j] = IF j < i THEN s[j] ELSE s[j + 1]
<1> DEFINE n == Len(s) - 1
           w == [j \in 1..n |-> IF j < i THEN s[j] ELSE s[j + 1]]
<1>1. n \in Nat
  OBVIOUS
<1>2. \A j \in 1..n : w[j] \in S
  BY <1>1
<1>3. w \in [1..n -> S]
  BY <1>2
<1>4. w \in Seq(S)
  BY <1>1, <1>3
<1>5. Len(w) = n
  BY <1>1, <1>4
<1> QED
  BY <1>4, <1>5 DEF Without

LEMMA RemovedType ==
  ASSUME TypeOK, NEW p \in Proposals, NEW a, Removed(a, p)
  PROVE  joins' \in [Proposals -> Seq(Accounts)]
<1>1. PICK i \in 1..Len(joins[p]) : joins' = [joins EXCEPT ![p] = Without(@, i)]
  BY DEF Removed
<1>2. joins[p] \in Seq(Accounts)
  BY DEF TypeOK
<1>3. Without(joins[p], i) \in Seq(Accounts)
  BY <1>2, WithoutType
<1> QED
  BY <1>1, <1>3 DEF TypeOK

\* What is owed to a backer is a number, and pays up exactly what was backed.
LEMMA OwedType ==
  ASSUME TypeOK, NEW p \in Proposals, NEW a \in Accounts
  PROVE  /\ Owed(p, a) \in Nat
         /\ backed[p][a] >= refunded[p][a] =>
              refunded[p][a] + Owed(p, a) = backed[p][a]
  BY DEF TypeOK, Owed

\* What is paid on closing is a number: author_payout_for of the total backed.
LEMMA PayoutType ==
  ASSUME TypeOK, NEW p \in Proposals
  PROVE  /\ AuthorPayoutFor(raised[p]) \in Nat \ {0}
         /\ PayoutDue(p) \in Nat
<1>1. raised[p] \div 10 \in Int
  BY DEF TypeOK
<1> QED
  BY <1>1 DEF PayoutDue, AuthorPayoutFor

\* The settled part of a step: every backer of p is paid what is owed.
LEMMA RefundAllType ==
  ASSUME TypeOK, NEW p \in Proposals, RefundAll(p)
  PROVE  refunded' \in [Proposals -> [Accounts -> Nat]]
<1>1. \A a \in Accounts : refunded[p][a] + Owed(p, a) \in Nat
  BY OwedType DEF TypeOK
<1> QED
  BY <1>1 DEF TypeOK, RefundAll

\* Annulling keeps every type, the balances it adds to included.
LEMMA AnnulType ==
  ASSUME TypeOK, NEW p \in Proposals, Annul(p)
  PROVE  /\ status' \in [Proposals -> Statuses]
         /\ balance' \in [Accounts -> Nat]
         /\ refunded' \in [Proposals -> [Accounts -> Nat]]
<1>1. refunded' \in [Proposals -> [Accounts -> Nat]]
  BY RefundAllType DEF Annul
<1>2. balance' \in [Accounts -> Nat]
  BY OwedType DEF Annul, TypeOK
<1>3. status' \in [Proposals -> Statuses]
  BY DEF Annul, TypeOK, Statuses, TERMINAL_STATES
<1> QED
  BY <1>1, <1>2, <1>3

USE DEF people, work, tokens

\* Every step of Kommons keeps every type: Back never takes more than a balance holds.
LEMMA TypeInductive ==
  ASSUME TypeOK, [Next]_vars
  PROVE  TypeOK'
<1>1. ASSUME NEW a \in Accounts, SignUp(a) PROVE TypeOK'
  BY <1>1, BalanceAssumption DEF SignUp, TypeOK
<1>2. ASSUME NEW a \in Accounts, NEW p \in Proposals, Request(a, p) PROVE TypeOK'
  <2>1. CASE Create(a, p)
    BY <2>1 DEF Create, TypeOK, Statuses, ACTIVE_STATES
  <2>2. CASE Claim(a, p)
    BY <2>2 DEF Claim, TypeOK, Statuses, ACTIVE_STATES
  <2>3. CASE Unclaim(a, p)
    <3>1. joins[p] \in Seq(Accounts)
      BY DEF TypeOK
    <3>2. CASE joins[p] = <<>>
      BY <2>3, <3>2 DEF Unclaim, TypeOK, Statuses, ACTIVE_STATES
    <3>3. CASE joins[p] # <<>>
      <4>1. Head(joins[p]) \in Accounts
        BY <3>1, <3>3
      <4> QED
        BY <2>3, <3>3, <4>1 DEF Unclaim, PickHeir, TypeOK
    <3> QED
      BY <3>2, <3>3
  <2>4. CASE Join(a, p)
    <3>1. joins[p] \in Seq(Accounts)
      BY DEF TypeOK
    <3>2. Append(joins[p], a) \in Seq(Accounts)
      BY <3>1
    <3>3. joins' = [joins EXCEPT ![p] = Append(joins[p], a)]
      BY <2>4 DEF Join
    <3>4. joins' \in [Proposals -> Seq(Accounts)]
      BY <3>2, <3>3 DEF TypeOK
    <3>5. UNCHANGED <<account, status, author, claimant, heir, tasks, tokens, swept>>
      BY <2>4 DEF Join
    <3> QED
      BY <3>4, <3>5 DEF TypeOK
  <2>5. CASE Leave(a, p)
    BY <2>5, RemovedType DEF Leave, TypeOK
  <2>6. ASSUME NEW n \in Stakes, Back(a, p, n) PROVE TypeOK'
    <3>1. n \in Nat
      BY StakesAssumption
    <3>2. backed' \in [Proposals -> [Accounts -> Nat]]
      BY <2>6, <3>1 DEF Back, Affords, TypeOK
    <3>3. balance' \in [Accounts -> Nat] /\ raised' \in [Proposals -> Nat]
      BY <2>6, <3>1 DEF Back, Affords, TypeOK
    <3> QED
      BY <2>6, <3>2, <3>3 DEF Back, Affords, TypeOK
  <2>7. CASE MarkActioned(a, p)
    BY <2>7 DEF MarkActioned, TypeOK, Statuses
  <2>8. CASE Close(a, p)
    <3>1. refunded' \in [Proposals -> [Accounts -> Nat]]
      BY <2>8, RefundAllType DEF Close
    <3>2. payout' \in [Proposals -> Nat]
      <4>1. PayoutDue(p) \in Nat
        BY PayoutType
      <4>2. payout \in [Proposals -> Nat] /\ payout' = [payout EXCEPT ![p] = @ + PayoutDue(p)]
        BY <2>8 DEF Close, TypeOK
      <4> HIDE DEF TypeOK, Close
      <4>3. payout[p] + PayoutDue(p) \in Nat
        BY <4>1, <4>2
      <4> QED
        BY <4>2, <4>3
    <3>3. balance' \in [Accounts -> Nat]
      <4>1. PayoutDue(p) \in Nat /\ \A x \in Accounts : Owed(p, x) \in Nat
        BY PayoutType, OwedType
      <4>2. \A x \in Accounts : balance[x] \in Nat
        BY DEF TypeOK
      <4>3. \A x \in Accounts :
              balance[x] + Owed(p, x) + (IF x = a THEN PayoutDue(p) ELSE 0) \in Nat
        BY <4>1, <4>2
      <4> QED
        BY <2>8, <4>3 DEF Close
    <3> QED
      BY <2>8, <3>1, <3>2, <3>3 DEF Close, TypeOK, Statuses, TERMINAL_STATES
  <2>9. CASE AddTask(a, p)
    <3>1. tasks[p] \in [todo : Nat, done : Nat]
      BY DEF TypeOK
    <3>2. tasks' \in [Proposals -> [todo : Nat, done : Nat]]
      <4> DEFINE more == [tasks[p] EXCEPT !.todo = @ + 1]
                 finished == [tasks[p] EXCEPT !.done = @ + 1]
      <4>1. /\ more \in [todo : Nat, done : Nat]
            /\ finished \in [todo : Nat, done : Nat]
        BY <3>1
      <4>2. \/ tasks' = [tasks EXCEPT ![p] = more]
            \/ tasks' = [tasks EXCEPT ![p] = finished]
        BY <2>9 DEF AddTask
      <4> HIDE DEF more, finished
      <4> QED
        BY <4>1, <4>2 DEF TypeOK
    <3>3. UNCHANGED <<account, status, author, claimant, joins, heir, tokens, swept>>
      BY <2>9 DEF AddTask
    <3> QED
      BY <3>2, <3>3 DEF TypeOK
  <2>10. CASE ReopenTask(a, p)
    <3> DEFINE moved == [todo |-> tasks[p].todo + 1, done |-> tasks[p].done - 1]
    <3>1. tasks[p] \in [todo : Nat, done : Nat] /\ tasks[p].done > 0
      BY <2>10 DEF ReopenTask, TypeOK
    <3>2. moved \in [todo : Nat, done : Nat]
      BY <3>1
    <3>3. tasks' = [tasks EXCEPT ![p] = moved]
      BY <2>10 DEF ReopenTask
    <3> HIDE DEF moved
    <3>4. tasks' \in [Proposals -> [todo : Nat, done : Nat]]
      BY <3>2, <3>3 DEF TypeOK
    <3>5. UNCHANGED <<account, status, author, claimant, joins, heir, tokens, swept>>
      BY <2>10 DEF ReopenTask
    <3> QED
      BY <3>4, <3>5 DEF TypeOK
  <2>11. CASE TickTask(a, p)
    <3> DEFINE moved == [todo |-> tasks[p].todo - 1, done |-> tasks[p].done + 1]
    <3>1. tasks[p] \in [todo : Nat, done : Nat] /\ tasks[p].todo > 0
      BY <2>11 DEF TickTask, TypeOK
    <3>2. moved \in [todo : Nat, done : Nat]
      BY <3>1
    <3>3. tasks' = [tasks EXCEPT ![p] = moved]
      BY <2>11 DEF TickTask
    <3> HIDE DEF moved
    <3>4. tasks' \in [Proposals -> [todo : Nat, done : Nat]]
      BY <3>2, <3>3 DEF TypeOK
    <3>5. status' \in [Proposals -> Statuses]
      BY <2>11 DEF TickTask, TypeOK, Statuses
    <3>6. UNCHANGED <<account, author, claimant, joins, heir, tokens, swept>>
      BY <2>11 DEF TickTask
    <3> QED
      BY <3>4, <3>5, <3>6 DEF TypeOK
  <2> QED
    BY <1>2, <2>1, <2>2, <2>3, <2>4, <2>5, <2>6, <2>7, <2>8, <2>9, <2>10, <2>11
       DEF Request
<1>3. ASSUME NEW a \in Accounts, Deletion(a) PROVE TypeOK'
  <2>1. CASE RequestDeletion(a)
    BY <2>1 DEF RequestDeletion, TypeOK
  <2>2. CASE RetryDeletion(a)
    BY <2>2 DEF RetryDeletion, TypeOK
  <2>3. CASE FinishDeletion(a)
    BY <2>3 DEF FinishDeletion, TypeOK
  <2>4. ASSUME NEW p \in Proposals, Settle(a, p) PROVE TypeOK'
    <3>1. CASE SettleActive(a, p)
      BY <2>4, <3>1, AnnulType DEF Settle, SettleActive, Annul, TypeOK
    <3>2. CASE SettleActioned(a, p)
      <4>1. refunded' \in [Proposals -> [Accounts -> Nat]]
        BY <3>2, RefundAllType DEF SettleActioned
      <4>2. balance' \in [Accounts -> Nat]
        <5>1. \A x \in Accounts : balance[x] + Owed(p, x) \in Nat
          <6>1. \A x \in Accounts : balance[x] \in Nat
            BY DEF TypeOK
          <6>2. \A x \in Accounts : Owed(p, x) \in Nat
            BY OwedType
          <6> QED
            BY <6>1, <6>2
        <5> QED
          BY <3>2, <5>1 DEF SettleActioned
      <4> QED
        BY <2>4, <3>2, <4>1, <4>2 DEF Settle, SettleActioned, TypeOK
    <3>3. CASE SettleTerminal(a, p)
      BY <2>4, <3>3 DEF Settle, SettleTerminal, TypeOK
    <3> QED
      BY <2>4, <3>1, <3>2, <3>3 DEF Settle
  <2> QED
    BY <1>3, <2>1, <2>2, <2>3, <2>4 DEF Deletion
<1>4. ASSUME NEW p \in Proposals, Shell(p) PROVE TypeOK'
  <2>1. CASE ShellAction(p)
    BY <2>1 DEF ShellAction, TypeOK, Statuses
  <2>2. CASE ShellAnnul(p)
    BY <2>2, AnnulType DEF ShellAnnul, Annul, TypeOK
  <2> QED
    BY <1>4, <2>1, <2>2 DEF Shell
<1>5. ASSUME NEW p \in Proposals, HandOver(p) PROVE TypeOK'
  <2>1. joins' \in [Proposals -> Seq(Accounts)]
    BY <1>5, RemovedType DEF HandOver, TypeOK
  <2> QED
    BY <1>5, <2>1 DEF HandOver, TypeOK
<1>6. CASE UNCHANGED vars
  BY <1>6 DEF vars, TypeOK
<1> QED
  BY <1>1, <1>2, <1>3, <1>4, <1>5, <1>6 DEF Next

\* Every variable keeps its type: above all, no balance is ever negative,
\* whatever is backed, refunded, paid and retried.
THEOREM TypeCorrect == Spec => []TypeOK
<1>1. Init => TypeOK
  BY DEF Init, TypeOK, Nothing, Statuses
<1> QED
  BY <1>1, TypeInductive, PTL DEF Spec

--------------------------------------------------------------------------------
(* Settlement. *)

\* A proposal is refunded to nobody or to everybody: nobody while it can still
\* be backed, everybody once it is decided or its proposer's deletion has swept it.
RefundState ==
  \A p \in Proposals :
    /\ refunded[p] = Nothing \/ refunded[p] = backed[p]
    /\ status[p] = "none" \/ Backable(p) => refunded[p] = Nothing
    /\ status[p] \in TERMINAL_STATES => refunded[p] = backed[p]
    /\ p \in swept =>
         status[p] \in TERMINAL_STATES \cup {"actioned"} /\ refunded[p] = backed[p]

\* A deletion that has finished has swept everything its account proposed.
GoneSwept == \A a \in Accounts : account[a] = "gone" => Authored(a) \subseteq swept

SettlementInv == TypeOK /\ RefundState /\ GoneSwept /\ PaidOnClose

\* refund_all! brings every backer of p up to what they staked, and nobody past it.
LEMMA RefundAllPaysUp ==
  ASSUME TypeOK, RefundState, NEW p \in Proposals, RefundAll(p)
  PROVE  /\ refunded'[p] = backed[p]
         /\ \A q \in Proposals \ {p} : refunded'[q] = refunded[q]
<1>1. \A a \in Accounts : backed[p][a] \in Nat /\ refunded[p][a] \in Nat
  BY DEF TypeOK
<1>2. \A a \in Accounts : backed[p][a] >= refunded[p][a]
  BY <1>1 DEF RefundState, Nothing
<1>3. \A a \in Accounts : refunded[p][a] + Owed(p, a) = backed[p][a]
  BY <1>2, OwedType
<1>4. refunded'[p] = [a \in Accounts |-> refunded[p][a] + Owed(p, a)]
  BY DEF RefundAll, TypeOK
<1>5. backed[p] = [a \in Accounts |-> backed[p][a]]
  BY DEF TypeOK
<1>6. refunded'[p] = backed[p]
  BY <1>3, <1>4, <1>5
<1> QED
  BY <1>6 DEF RefundAll, TypeOK

\* A step that leaves the tables of stakes alone and does not move a proposal
\* back on the board keeps the settlement invariant.
LEMMA QuietStep ==
  ASSUME SettlementInv, TypeOK',
         UNCHANGED <<backed, refunded, raised, payout>>,
         \A p \in Proposals :
           \/ status'[p] = status[p]
           \/ status[p] = "none" /\ status'[p] \in ACTIVE_STATES
           \/ Backable(p) /\ status'[p] \in ACTIVE_STATES \cup {"actioned"},
         swept' \subseteq swept,
         GoneSwept'
  PROVE  SettlementInv'
<1>1. RefundState'
  <2> SUFFICES ASSUME NEW p \in Proposals
               PROVE  /\ refunded[p] = Nothing \/ refunded[p] = backed[p]
                      /\ status'[p] = "none" \/ Backable(p)' => refunded[p] = Nothing
                      /\ status'[p] \in TERMINAL_STATES => refunded[p] = backed[p]
                      /\ p \in swept' =>
                           status'[p] \in TERMINAL_STATES \cup {"actioned"}
                           /\ refunded[p] = backed[p]
    BY DEF RefundState, Nothing
  <2>1. CASE status'[p] = status[p]
    BY <2>1 DEF SettlementInv, RefundState, Backable
  <2>2. CASE status[p] = "none" /\ status'[p] \in ACTIVE_STATES
    BY <2>2 DEF SettlementInv, RefundState, Backable, ACTIVE_STATES, TERMINAL_STATES
  <2>3. CASE Backable(p) /\ status'[p] \in ACTIVE_STATES \cup {"actioned"}
    BY <2>3 DEF SettlementInv, RefundState, Backable, ACTIVE_STATES, TERMINAL_STATES
  <2> QED
    BY <2>1, <2>2, <2>3
<1>2. PaidOnClose'
  <2> SUFFICES ASSUME NEW p \in Proposals
               PROVE  payout[p] = IF status'[p] = "closed"
                                  THEN AuthorPayoutFor(raised[p]) ELSE 0
    BY DEF PaidOnClose, AuthorPayoutFor
  <2> QED
    BY DEF SettlementInv, PaidOnClose, Backable, ACTIVE_STATES
<1> QED
  BY <1>1, <1>2 DEF SettlementInv

\* A step that ends or empties proposal p, paying due on top of the refunds.
LEMMA SettlingStep ==
  ASSUME SettlementInv, TypeOK', NEW p \in Proposals,
         RefundAll(p),
         status[p] # "none",
         status' = [status EXCEPT ![p] = status'[p]],
         status'[p] \in TERMINAL_STATES \cup {"actioned"},
         UNCHANGED <<author, backed, raised>>,
         \A q \in Proposals \ {p} : payout'[q] = payout[q],
         payout'[p] = IF status'[p] = "closed" THEN AuthorPayoutFor(raised[p]) ELSE 0,
         swept \subseteq swept' /\ swept' \subseteq swept \cup {p},
         UNCHANGED account
  PROVE  SettlementInv'
<1>1. \A q \in Proposals \ {p} :
        status'[q] = status[q] /\ refunded'[q] = refunded[q] /\ (q \in swept' <=> q \in swept)
  BY RefundAllPaysUp DEF SettlementInv, TypeOK
<1>2. refunded'[p] = backed[p]
  BY RefundAllPaysUp DEF SettlementInv
<1>3. RefundState'
  <2> SUFFICES ASSUME NEW q \in Proposals
               PROVE  /\ refunded'[q] = Nothing \/ refunded'[q] = backed[q]
                      /\ status'[q] = "none" \/ Backable(q)' => refunded'[q] = Nothing
                      /\ status'[q] \in TERMINAL_STATES => refunded'[q] = backed[q]
                      /\ q \in swept' =>
                           status'[q] \in TERMINAL_STATES \cup {"actioned"}
                           /\ refunded'[q] = backed[q]
    BY DEF RefundState, Nothing
  <2>1. CASE q = p
    BY <2>1, <1>2 DEF Backable, ACTIVE_STATES, TERMINAL_STATES
  <2>2. CASE q # p
    BY <2>2, <1>1 DEF SettlementInv, RefundState, Backable
  <2> QED
    BY <2>1, <2>2
<1>4. GoneSwept'
  BY DEF SettlementInv, GoneSwept, Authored
<1>5. PaidOnClose'
  <2> SUFFICES ASSUME NEW q \in Proposals
               PROVE  payout'[q] = IF status'[q] = "closed"
                                   THEN AuthorPayoutFor(raised[q]) ELSE 0
    BY DEF PaidOnClose, AuthorPayoutFor
  <2> QED
    BY <1>1 DEF SettlementInv, PaidOnClose
<1> QED
  BY <1>3, <1>4, <1>5 DEF SettlementInv

\* The same for a backing: the only step that adds to a stake.
LEMMA BackingStep ==
  ASSUME SettlementInv, TypeOK', NEW a \in Accounts, NEW p \in Proposals,
         NEW n \in Stakes, Back(a, p, n)
  PROVE  SettlementInv'
<1>1. \A q \in Proposals \ {p} : backed'[q] = backed[q] /\ raised'[q] = raised[q]
  BY DEF Back, Affords, SettlementInv, TypeOK
<1>2. p \notin swept /\ status[p] \in ACTIVE_STATES
  BY DEF Back, Affords, Backable, SettlementInv, RefundState, ACTIVE_STATES, TERMINAL_STATES
<1>3. RefundState'
  <2> SUFFICES ASSUME NEW q \in Proposals
               PROVE  /\ refunded[q] = Nothing \/ refunded[q] = backed'[q]
                      /\ status[q] = "none" \/ Backable(q) => refunded[q] = Nothing
                      /\ status[q] \in TERMINAL_STATES => refunded[q] = backed'[q]
                      /\ q \in swept =>
                           status[q] \in TERMINAL_STATES \cup {"actioned"}
                           /\ refunded[q] = backed'[q]
    BY DEF Back, Affords, RefundState, Nothing, Backable
  <2>1. CASE q = p
    BY <2>1, <1>2 DEF SettlementInv, RefundState, Backable, ACTIVE_STATES, TERMINAL_STATES
  <2>2. CASE q # p
    BY <2>2, <1>1 DEF SettlementInv, RefundState
  <2> QED
    BY <2>1, <2>2
<1>4. GoneSwept'
  BY DEF Back, Affords, SettlementInv, GoneSwept, Authored
<1>5. PaidOnClose'
  <2> SUFFICES ASSUME NEW q \in Proposals
               PROVE  payout[q] = IF status[q] = "closed"
                                  THEN AuthorPayoutFor(raised'[q]) ELSE 0
    BY DEF Back, Affords, PaidOnClose, AuthorPayoutFor
  <2> QED
    BY <1>1, <1>2 DEF SettlementInv, PaidOnClose, ACTIVE_STATES
<1> QED
  BY <1>3, <1>4, <1>5 DEF SettlementInv

\* Every step of Kommons keeps the settlement invariant: each is a quiet, settling or
\* backing step.
LEMMA SettlementInductive ==
  ASSUME SettlementInv, [Next]_vars
  PROVE  SettlementInv'
<1>0. TypeOK /\ TypeOK'
  BY TypeInductive DEF SettlementInv
<1>1. ASSUME NEW a \in Accounts, SignUp(a) PROVE SettlementInv'
  BY <1>0, <1>1, QuietStep DEF SignUp, SettlementInv, GoneSwept, Authored, TypeOK
<1>2. ASSUME NEW a \in Accounts, NEW p \in Proposals, Request(a, p)
      PROVE  SettlementInv'
  <2>1. CASE Create(a, p)
    <3>1. GoneSwept'
      BY <1>0, <2>1 DEF Create, SettlementInv, GoneSwept, Authored, TypeOK, SignedIn
    <3> QED
      BY <1>0, <2>1, <3>1, QuietStep DEF Create, TypeOK, ACTIVE_STATES
  <2>2. CASE \/ Claim(a, p) \/ Unclaim(a, p) \/ Join(a, p) \/ Leave(a, p)
             \/ MarkActioned(a, p) \/ AddTask(a, p) \/ ReopenTask(a, p)
             \/ TickTask(a, p)
    <3>1. /\ UNCHANGED <<backed, refunded, raised, payout, swept, account, author>>
          /\ \/ status' = status
             \/ Backable(p) /\ status' = [status EXCEPT ![p] = "claimed"]
             \/ Backable(p) /\ status' = [status EXCEPT ![p] = "open"]
             \/ Backable(p) /\ status' = [status EXCEPT ![p] = "actioned"]
      BY <2>2 DEF Claim, Unclaim, Join, Leave, MarkActioned, AddTask, ReopenTask,
                  TickTask, Backable, ACTIVE_STATES
    <3>2. GoneSwept'
      BY <3>1 DEF SettlementInv, GoneSwept, Authored
    <3>3. \A q \in Proposals :
            \/ status'[q] = status[q]
            \/ Backable(q) /\ status'[q] \in ACTIVE_STATES \cup {"actioned"}
      BY <1>0, <3>1 DEF TypeOK, ACTIVE_STATES
    <3> QED
      BY <1>0, <3>1, <3>2, <3>3, QuietStep
  <2>3. ASSUME NEW n \in Stakes, Back(a, p, n) PROVE SettlementInv'
    BY <1>0, <2>3, BackingStep
  <2>4. CASE Close(a, p)
    <3>1. payout[p] = 0
      BY <2>4 DEF Close, SettlementInv, PaidOnClose
    <3>2. /\ payout'[p] = AuthorPayoutFor(raised[p])
          /\ \A q \in Proposals \ {p} : payout'[q] = payout[q]
      <4>1. 0 + AuthorPayoutFor(raised[p]) = AuthorPayoutFor(raised[p])
        BY <1>0, PayoutType
      <4> QED
        BY <1>0, <2>4, <3>1, <4>1 DEF Close, PayoutDue, TypeOK
    <3>3. /\ status' = [status EXCEPT ![p] = "closed"]
          /\ status'[p] = "closed" /\ status[p] # "none"
      BY <1>0, <2>4 DEF Close, TypeOK
    <3>4. /\ RefundAll(p)
          /\ UNCHANGED <<author, backed, raised, swept, account>>
      BY <2>4 DEF Close
    <3> QED
      BY <1>0, <3>2, <3>3, <3>4, SettlingStep DEF TERMINAL_STATES
  <2> QED
    BY <1>2, <2>1, <2>2, <2>3, <2>4 DEF Request
<1>3. ASSUME NEW p \in Proposals, Annul(p), UNCHANGED account,
             swept \subseteq swept' /\ swept' \subseteq swept \cup {p}
      PROVE  SettlementInv'
  <2>1. /\ status' = [status EXCEPT ![p] = "annulled"]
        /\ status'[p] = "annulled" /\ status[p] # "none"
    BY <1>0, <1>3 DEF Annul, TypeOK, ACTIVE_STATES
  <2>2. /\ RefundAll(p)
        /\ UNCHANGED <<author, backed, raised, payout>>
    BY <1>3 DEF Annul
  <2>3. payout[p] = 0
    BY <1>3 DEF Annul, SettlementInv, PaidOnClose, ACTIVE_STATES
  <2> QED
    BY <1>0, <1>3, <2>1, <2>2, <2>3, SettlingStep DEF TERMINAL_STATES
<1>4. ASSUME NEW a \in Accounts, Deletion(a) PROVE SettlementInv'
  <2>1. CASE RequestDeletion(a)
    <3>1. GoneSwept'
      BY <1>0, <2>1 DEF RequestDeletion, SettlementInv, GoneSwept, Authored, TypeOK
    <3> QED
      BY <1>0, <2>1, <3>1, QuietStep DEF RequestDeletion
  <2>2. CASE RetryDeletion(a)
    <3>1. GoneSwept'
      BY <1>0, <2>2 DEF RetryDeletion, SettlementInv, GoneSwept, Authored
    <3> QED
      BY <1>0, <2>2, <3>1, QuietStep DEF RetryDeletion
  <2>3. CASE FinishDeletion(a)
    <3>1. GoneSwept'
      BY <1>0, <2>3 DEF FinishDeletion, SettlementInv, GoneSwept, Authored, TypeOK
    <3> QED
      BY <1>0, <2>3, <3>1, QuietStep DEF FinishDeletion
  <2>4. ASSUME NEW p \in Proposals, Settle(a, p) PROVE SettlementInv'
    <3>0. /\ swept \subseteq swept' /\ swept' \subseteq swept \cup {p}
          /\ UNCHANGED account
      BY <2>4 DEF Settle
    <3>1. CASE SettleActive(a, p)
      BY <1>3, <3>0, <3>1 DEF SettleActive
    <3>2. CASE SettleActioned(a, p)
      <4>1. /\ status' = [status EXCEPT ![p] = status'[p]]
            /\ status'[p] = "actioned" /\ status[p] # "none"
        BY <1>0, <3>2 DEF SettleActioned, TypeOK
      <4>2. /\ RefundAll(p)
            /\ UNCHANGED <<author, backed, raised, payout>>
        BY <3>2 DEF SettleActioned
      <4>3. payout[p] = 0
        BY <3>2 DEF SettleActioned, SettlementInv, PaidOnClose
      <4> QED
        BY <1>0, <3>0, <4>1, <4>2, <4>3, SettlingStep
    <3>3. CASE SettleTerminal(a, p)
      <4>1. /\ status[p] \in TERMINAL_STATES
            /\ UNCHANGED <<status, author, backed, refunded, raised, payout>>
        BY <3>3 DEF SettleTerminal
      <4>2. RefundState'
        BY <3>0, <4>1 DEF SettlementInv, RefundState, Backable, Nothing
      <4>3. GoneSwept' /\ PaidOnClose'
        BY <3>0, <4>1 DEF SettlementInv, GoneSwept, Authored, PaidOnClose, AuthorPayoutFor
      <4> QED
        BY <1>0, <4>2, <4>3 DEF SettlementInv
    <3> QED
      BY <2>4, <3>1, <3>2, <3>3 DEF Settle
  <2> QED
    BY <1>4, <2>1, <2>2, <2>3, <2>4 DEF Deletion
<1>5. ASSUME NEW p \in Proposals, Shell(p) PROVE SettlementInv'
  <2>1. CASE ShellAction(p)
    <3>1. GoneSwept'
      BY <2>1 DEF ShellAction, SettlementInv, GoneSwept, Authored
    <3> QED
      BY <1>0, <2>1, <3>1, QuietStep DEF ShellAction, Backable, TypeOK
  <2>2. CASE ShellAnnul(p)
    BY <1>3, <2>2 DEF ShellAnnul
  <2> QED
    BY <1>5, <2>1, <2>2 DEF Shell
<1>6. CASE UNCHANGED vars \/ \E p \in Proposals : HandOver(p)
  <2>1. RefundState' /\ GoneSwept' /\ PaidOnClose'
    BY <1>6 DEF vars, HandOver, SettlementInv, RefundState, GoneSwept, PaidOnClose, Backable,
                Nothing, Authored, AuthorPayoutFor
  <2> QED
    BY <1>0, <2>1 DEF SettlementInv
<1> QED
  BY <1>1, <1>2, <1>4, <1>5, <1>6 DEF Next

\* Refunds and payouts always match the status, in every behaviour of Kommons.
LEMMA SettlementInvariant == Spec => []SettlementInv
<1>1. Init => SettlementInv
  <2> SUFFICES ASSUME Init PROVE SettlementInv
    OBVIOUS
  <2>1. TypeOK
    BY DEF Init, TypeOK, Nothing, Statuses
  <2>2. RefundState /\ GoneSwept /\ PaidOnClose
    BY DEF Init, RefundState, GoneSwept, PaidOnClose, TERMINAL_STATES
  <2> QED
    BY <2>1, <2>2 DEF SettlementInv
<1> QED
  BY <1>1, SettlementInductive, PTL DEF Spec

\* A proposal that reached its end has returned every stake in full, whatever
\* raced it: the release valve and the close leave nobody short.
THEOREM EveryStakeComesHome == Spec => []StakesComeHome
<1>1. SettlementInv => StakesComeHome
  BY DEF SettlementInv, RefundState, StakesComeHome
<1> QED
  BY <1>1, SettlementInvariant, PTL

\* No stake is ever refunded twice, nor before its proposal is decided, over any
\* number of retried deletion passes.
THEOREM NoStakeRefundedTwice == Spec => []RefundedOnce
<1>1. SettlementInv => RefundedOnce
  BY DEF SettlementInv, RefundState, RefundedOnce, Nothing
<1> QED
  BY <1>1, SettlementInvariant, PTL

\* The pool pays exactly once for a closed proposal and nothing for any other.
THEOREM PoolPaysOnce == Spec => []PaidOnClose
<1>1. SettlementInv => PaidOnClose
  BY DEF SettlementInv
<1> QED
  BY <1>1, SettlementInvariant, PTL

\* When a deletion has finished, no stake is left in what the account proposed.
THEOREM DeletionUnlocksStakes == Spec => []NoneLockedBehindGone
<1>1. SettlementInv => NoneLockedBehindGone
  BY DEF SettlementInv, RefundState, GoneSwept, Authored, NoneLockedBehindGone
<1> QED
  BY <1>1, SettlementInvariant, PTL

--------------------------------------------------------------------------------
(* The crew of a proposal. *)

\* A step that leaves claims and joins alone, and neither opens nor claims p.
LEMMA CrewQuietStep ==
  ASSUME CrewConsistent, UNCHANGED <<claimant, joins>>,
         \A p \in Proposals :
           \/ status'[p] = status[p]
           \/ status[p] = "none" /\ status'[p] = "open"
           \/ status'[p] \in TERMINAL_STATES \cup {"actioned"}
  PROVE  CrewConsistent'
  BY DEF CrewConsistent, Joined, TERMINAL_STATES

\* A step that touches the crew of p alone.
LEMMA CrewOneStep ==
  ASSUME CrewConsistent, NEW p \in Proposals,
         \A q \in Proposals \ {p} : /\ claimant'[q] = claimant[q]
                                  /\ status'[q] = status[q]
                                  /\ joins'[q] = joins[q],
         status'[p] \in {"none", "open"} => claimant'[p] = NoOne /\ joins'[p] = <<>>,
         status'[p] = "claimed" => claimant'[p] # NoOne,
         claimant'[p] \notin Joined(p)',
         \A i, j \in 1..Len(joins'[p]) : joins'[p][i] = joins'[p][j] => i = j
  PROVE  CrewConsistent'
<1> SUFFICES ASSUME NEW q \in Proposals
             PROVE  /\ status'[q] \in {"none", "open"} => claimant'[q] = NoOne /\ joins'[q] = <<>>
                    /\ status'[q] = "claimed" => claimant'[q] # NoOne
                    /\ claimant'[q] \notin Joined(q)'
                    /\ \A i, j \in 1..Len(joins'[q]) : joins'[q][i] = joins'[q][j] => i = j
  BY DEF CrewConsistent
<1>1. CASE q = p
  BY <1>1
<1>2. CASE q # p
  BY <1>2 DEF CrewConsistent, Joined
<1> QED
  BY <1>1, <1>2

\* Taking somebody off the joined leaves the others, each once.
LEMMA RemovedCrew ==
  ASSUME TypeOK, CrewConsistent, NEW p \in Proposals, NEW a, Removed(a, p)
  PROVE  /\ \A k, j \in 1..Len(joins'[p]) : joins'[p][k] = joins'[p][j] => k = j
         /\ Joined(p)' \subseteq Joined(p) \ {a}
         /\ joins[p] # <<>>
<1> DEFINE s == joins[p]
<1>1. PICK i \in 1..Len(s) : s[i] = a /\ joins' = [joins EXCEPT ![p] = Without(s, i)]
  BY DEF Removed
<1>2. joins'[p] = Without(s, i)
  BY <1>1 DEF TypeOK
<1>3. /\ Len(Without(s, i)) = Len(s) - 1 /\ Len(s) \in Nat
      /\ \A j \in 1..(Len(s) - 1) :
           Without(s, i)[j] = IF j < i THEN s[j] ELSE s[j + 1]
  <2>1. s \in Seq(Accounts) /\ Len(s) \in Nat
    BY DEF TypeOK
  <2> QED
    BY <2>1, WithoutType
<1>4. \A k, j \in 1..Len(s) : s[k] = s[j] => k = j
  BY DEF CrewConsistent
<1>5. \A j \in 1..(Len(s) - 1) : j \in 1..Len(s) /\ j + 1 \in 1..Len(s)
  BY <1>3
<1> DEFINE from(j) == IF j < i THEN j ELSE j + 1
<1>6. \A j \in 1..(Len(s) - 1) :
        from(j) \in 1..Len(s) /\ from(j) # i /\ Without(s, i)[j] = s[from(j)]
  BY <1>3, <1>5
<1>7. \A k, j \in 1..(Len(s) - 1) : from(k) = from(j) => k = j
  BY <1>3
<1> HIDE DEF from, s
<1>8. \A k, j \in 1..Len(joins'[p]) : joins'[p][k] = joins'[p][j] => k = j
  <2> SUFFICES ASSUME NEW k \in 1..(Len(s) - 1), NEW j \in 1..(Len(s) - 1),
                      Without(s, i)[k] = Without(s, i)[j]
               PROVE  k = j
    BY <1>2, <1>3
  <2>1. from(k) = from(j)
    BY <1>4, <1>6
  <2> QED
    BY <1>7, <2>1
<1>9. Joined(p)' \subseteq Joined(p) \ {a}
  <2>1. Joined(p)' = {Without(s, i)[j] : j \in 1..(Len(s) - 1)}
    BY <1>2, <1>3 DEF Joined
  <2>2. \A j \in 1..(Len(s) - 1) :
          Without(s, i)[j] \in {s[l] : l \in 1..Len(s)} /\ Without(s, i)[j] # a
    BY <1>1, <1>4, <1>6
  <2> QED
    BY <2>1, <2>2 DEF Joined, s
<1>10. s # <<>>
  BY <1>3 DEF s
<1> QED
  BY <1>8, <1>9, <1>10 DEF s

\* While an unclaim! is handing p over, p stays claimed, and its heir is somebody
\* else than the claimant who, if still joined, is first.
HeirInOrder ==
  \A p \in Proposals :
    heir[p] # NoOne =>
      /\ status[p] = "claimed" /\ heir[p] # claimant[p]
      /\ \A i \in 1..Len(joins[p]) : joins[p][i] = heir[p] => i = 1

\* A step that neither picks an heir nor touches a crew whose heir is picked.
LEMMA HeirQuietStep ==
  ASSUME HeirInOrder,
         \A p \in Proposals :
           \/ heir'[p] = NoOne
           \/ heir'[p] = heir[p] /\ status'[p] = status[p]
              /\ claimant'[p] = claimant[p] /\ joins'[p] = joins[p]
  PROVE  HeirInOrder'
BY DEF HeirInOrder

\* Every step of Kommons keeps claims and joins consistent with the status.
LEMMA CrewInductive ==
  ASSUME TypeOK, CrewConsistent, HeirInOrder, [Next]_vars
  PROVE  CrewConsistent'
<1>0. \A p \in Proposals : joins[p] \in Seq(Accounts)
  BY DEF TypeOK
<1>1. ASSUME NEW a \in Accounts, SignUp(a) PROVE CrewConsistent'
  BY <1>1, CrewQuietStep DEF SignUp
<1>2. ASSUME NEW a \in Accounts, NEW p \in Proposals, Request(a, p)
      PROVE  CrewConsistent'
  <2>1. CASE Create(a, p)
    BY <2>1, CrewQuietStep DEF Create, TypeOK
  <2>2. CASE Claim(a, p)
    <3>1. \A q \in Proposals \ {p} : claimant'[q] = claimant[q] /\ status'[q] = status[q]
      BY <2>2 DEF Claim, TypeOK
    <3>2. claimant'[p] = a /\ status'[p] = "claimed" /\ joins[p] = <<>> /\ joins' = joins
      BY <2>2 DEF Claim, TypeOK, CrewConsistent
    <3> QED
      BY <3>1, <3>2, AccountsAssumption DEF CrewConsistent, Joined
  <2>3. CASE Unclaim(a, p)
    <3>1. CASE joins[p] = <<>>
      <4>1. \A q \in Proposals \ {p} : /\ claimant'[q] = claimant[q]
                                       /\ status'[q] = status[q]
                                       /\ joins'[q] = joins[q]
        BY <2>3, <3>1 DEF Unclaim, TypeOK
      <4>2. claimant'[p] = NoOne /\ status'[p] = "open" /\ joins'[p] = <<>>
        BY <2>3, <3>1 DEF Unclaim, TypeOK
      <4> QED
        BY <4>1, <4>2 DEF CrewConsistent, Joined
    <3>2. CASE joins[p] # <<>>
      BY <2>3, <3>2, CrewQuietStep DEF Unclaim
    <3> QED
      BY <3>1, <3>2
  <2>4. CASE Join(a, p)
    <3> DEFINE s == joins[p]
    <3>1. \A q \in Proposals \ {p} : joins'[q] = joins[q]
      BY <2>4 DEF Join, TypeOK
    <3>2. /\ joins'[p] = Append(s, a) /\ a # claimant[p] /\ a \notin Joined(p)
          /\ UNCHANGED <<claimant, status>> /\ status[p] = "claimed"
      BY <2>4 DEF Join, TypeOK
    <3>3. /\ Len(Append(s, a)) = Len(s) + 1 /\ Len(s) \in Nat
          /\ Append(s, a)[Len(s) + 1] = a
          /\ \A j \in 1..Len(s) : Append(s, a)[j] = s[j]
      BY <1>0
    <3>4. \A i, j \in 1..Len(s) : s[i] = s[j] => i = j
      BY DEF CrewConsistent
    <3>5. \A i \in 1..Len(s) : s[i] # a /\ s[i] # claimant[p]
      BY <3>2 DEF CrewConsistent, Joined
    <3>6. \A i \in 1..(Len(s) + 1) : i \in 1..Len(s) \/ i = Len(s) + 1
      BY <3>3
    <3>7. claimant[p] \notin Joined(p)'
      BY <3>2, <3>3, <3>5, <3>6 DEF Joined
    <3>8. \A i, j \in 1..Len(joins'[p]) : joins'[p][i] = joins'[p][j] => i = j
      BY <3>2, <3>3, <3>4, <3>5, <3>6
    <3> QED
      <4>1. claimant[p] # NoOne
        BY <3>2 DEF CrewConsistent
      <4> QED
        BY <3>1, <3>2, <3>7, <3>8, <4>1, CrewOneStep
  <2>5. CASE Leave(a, p)
    <3>1. /\ \A q \in Proposals \ {p} : joins'[q] = joins[q]
          /\ UNCHANGED <<claimant, status>>
      BY <2>5 DEF Leave, Removed, TypeOK
    <3>2. /\ \A i, j \in 1..Len(joins'[p]) : joins'[p][i] = joins'[p][j] => i = j
          /\ Joined(p)' \subseteq Joined(p) /\ joins[p] # <<>>
      BY <2>5, RemovedCrew DEF Leave
    <3>3. claimant'[p] \notin Joined(p)'
      BY <3>1, <3>2 DEF CrewConsistent
    <3>4. status[p] \notin {"none", "open"} /\ (status[p] = "claimed" => claimant[p] # NoOne)
      BY <3>2 DEF CrewConsistent
    <3> QED
      BY <3>1, <3>2, <3>3, <3>4, CrewOneStep
  <2>6. ASSUME NEW n \in Stakes, Back(a, p, n) PROVE CrewConsistent'
    BY <2>6, CrewQuietStep DEF Back, Affords
  <2>7. CASE MarkActioned(a, p)
    BY <2>7, CrewQuietStep DEF MarkActioned, TypeOK
  <2>8. CASE Close(a, p)
    BY <2>8, CrewQuietStep DEF Close, TypeOK, TERMINAL_STATES
  <2>9. CASE AddTask(a, p)
    BY <2>9, CrewQuietStep DEF AddTask
  <2>10. CASE ReopenTask(a, p)
    BY <2>10, CrewQuietStep DEF ReopenTask
  <2>11. CASE TickTask(a, p)
    BY <2>11, CrewQuietStep DEF TickTask, TypeOK
  <2> QED
    BY <1>2, <2>1, <2>2, <2>3, <2>4, <2>5, <2>6, <2>7, <2>8, <2>9, <2>10, <2>11
       DEF Request
<1>3. ASSUME NEW a \in Accounts, Deletion(a) PROVE CrewConsistent'
  <2>1. CASE RequestDeletion(a) \/ RetryDeletion(a) \/ FinishDeletion(a)
    BY <2>1, CrewQuietStep DEF RequestDeletion, RetryDeletion, FinishDeletion
  <2>2. ASSUME NEW p \in Proposals, Settle(a, p) PROVE CrewConsistent'
    BY <2>2, CrewQuietStep
       DEF Settle, SettleActive, Annul, SettleActioned, SettleTerminal, TypeOK,
           TERMINAL_STATES
  <2> QED
    BY <1>3, <2>1, <2>2 DEF Deletion
<1>4. ASSUME NEW p \in Proposals, Shell(p) PROVE CrewConsistent'
  BY <1>4, CrewQuietStep DEF Shell, ShellAction, ShellAnnul, Annul, TypeOK, TERMINAL_STATES
<1>5. ASSUME NEW p \in Proposals, HandOver(p) PROVE CrewConsistent'
  <2>1. /\ \A q \in Proposals \ {p} : claimant'[q] = claimant[q] /\ joins'[q] = joins[q]
        /\ UNCHANGED status /\ claimant'[p] = heir[p] /\ heir[p] # NoOne
    BY <1>5 DEF HandOver, Removed, TypeOK
  <2>2. status[p] = "claimed"
    BY <2>1 DEF HeirInOrder
  <2>3. CASE Removed(heir[p], p)
    <3>1. /\ \A i, j \in 1..Len(joins'[p]) : joins'[p][i] = joins'[p][j] => i = j
          /\ claimant'[p] \notin Joined(p)'
      BY <2>1, <2>3, RemovedCrew
    <3> QED
      BY <2>1, <2>2, <3>1, CrewOneStep
  <2>4. CASE heir[p] \notin Joined(p) /\ UNCHANGED joins
    <3>1. /\ \A i, j \in 1..Len(joins'[p]) : joins'[p][i] = joins'[p][j] => i = j
          /\ claimant'[p] \notin Joined(p)'
      BY <2>1, <2>4 DEF CrewConsistent, Joined
    <3> QED
      BY <2>1, <2>2, <3>1, CrewOneStep
  <2> QED
    BY <1>5, <2>3, <2>4 DEF HandOver
<1>6. CASE UNCHANGED vars
  BY <1>6, CrewQuietStep DEF vars
<1> QED
  BY <1>1, <1>2, <1>3, <1>4, <1>5, <1>6 DEF Next

\* Every step of Kommons leaves the heir of an unclaim! under way first in line.
LEMMA HeirInductive ==
  ASSUME TypeOK, CrewConsistent, HeirInOrder, [Next]_vars
  PROVE  HeirInOrder'
<1>0. \A p \in Proposals : joins[p] \in Seq(Accounts)
  BY DEF TypeOK
<1>1. ASSUME NEW a \in Accounts, SignUp(a) \/ RequestDeletion(a) \/ RetryDeletion(a)
                                 \/ FinishDeletion(a)
      PROVE  HeirInOrder'
  BY <1>1, HeirQuietStep DEF SignUp, RequestDeletion, RetryDeletion, FinishDeletion
<1>2. ASSUME NEW a \in Accounts, NEW p \in Proposals, Request(a, p)
      PROVE  HeirInOrder'
  <2>1. CASE \/ Create(a, p) \/ Claim(a, p) \/ MarkActioned(a, p) \/ Close(a, p)
             \/ AddTask(a, p) \/ ReopenTask(a, p) \/ TickTask(a, p)
             \/ \E n \in Stakes : Back(a, p, n)
    <3>1. UNCHANGED <<heir, joins>>
      BY <2>1 DEF Create, Claim, MarkActioned, Close, AddTask, ReopenTask, TickTask, Back
    <3>2. \A q \in Proposals :
            \/ heir[q] = NoOne
            \/ status'[q] = status[q] /\ claimant'[q] = claimant[q]
      BY <2>1 DEF Create, Claim, MarkActioned, Close, AddTask, ReopenTask, TickTask, Back,
                  HeirInOrder, Unlocked, TypeOK
    <3> QED
      BY <3>1, <3>2, HeirQuietStep
  <2>2. CASE Unclaim(a, p)
    <3>1. CASE joins[p] = <<>>
      <4>1. /\ UNCHANGED <<heir, joins>> /\ heir[p] = NoOne
            /\ \A q \in Proposals \ {p} : status'[q] = status[q] /\ claimant'[q] = claimant[q]
        BY <2>2, <3>1 DEF Unclaim, Unlocked, TypeOK
      <4> QED
        BY <4>1, HeirQuietStep
    <3>2. CASE joins[p] # <<>>
      <4>1. /\ UNCHANGED <<status, claimant, joins>> /\ status[p] = "claimed"
            /\ heir'[p] = Head(joins[p])
            /\ \A q \in Proposals \ {p} : heir'[q] = heir[q]
        BY <2>2, <3>2 DEF Unclaim, PickHeir, TypeOK
      <4>2. Len(joins[p]) \in Nat \ {0} /\ Head(joins[p]) = joins[p][1]
        BY <1>0, <3>2
      <4>3. heir'[p] \in Joined(p) /\ \A i \in 1..Len(joins[p]) : joins[p][i] = heir'[p] => i = 1
        BY <4>1, <4>2 DEF CrewConsistent, Joined
      <4>4. heir'[p] # claimant[p]
        BY <4>3 DEF CrewConsistent
      <4> QED
        BY <4>1, <4>3, <4>4 DEF HeirInOrder
    <3> QED
      BY <3>1, <3>2
  <2>3. CASE Join(a, p)
    <3>1. /\ UNCHANGED <<status, claimant, heir>> /\ heir[p] = NoOne
          /\ \A q \in Proposals \ {p} : joins'[q] = joins[q]
      BY <2>3 DEF Join, Unlocked, TypeOK
    <3> QED
      BY <3>1, HeirQuietStep
  <2>4. CASE Leave(a, p)
    <3>1. /\ UNCHANGED <<status, claimant, heir>>
          /\ \A q \in Proposals \ {p} : joins'[q] = joins[q]
      BY <2>4 DEF Leave, Removed, TypeOK
    <3>2. PICK i \in 1..Len(joins[p]) : joins'[p] = Without(joins[p], i)
      BY <2>4 DEF Leave, Removed, TypeOK
    <3>3. /\ Len(joins'[p]) = Len(joins[p]) - 1 /\ Len(joins[p]) \in Nat
          /\ \A j \in 1..(Len(joins[p]) - 1) :
               joins'[p][j] = IF j < i THEN joins[p][j] ELSE joins[p][j + 1]
      <4>1. Len(joins[p]) \in Nat
        BY <1>0
      <4> QED
        BY <1>0, <3>2, <4>1, WithoutType
    <3>4. ASSUME heir[p] # NoOne, NEW k \in 1..Len(joins'[p]), joins'[p][k] = heir[p]
          PROVE  k = 1
      <4>1. \A j \in 1..Len(joins[p]) : joins[p][j] = heir[p] => j = 1
        BY <3>4 DEF HeirInOrder
      <4>2. k < i /\ joins[p][k] = heir[p]
        BY <3>3, <3>4, <4>1
      <4> QED
        BY <3>3, <3>4, <4>1, <4>2
    <3> QED
      BY <3>1, <3>4 DEF HeirInOrder
  <2> QED
    BY <1>2, <2>1, <2>2, <2>3, <2>4 DEF Request
<1>3. ASSUME NEW a \in Accounts, NEW p \in Proposals, Settle(a, p) PROVE HeirInOrder'
  <2>1. UNCHANGED <<heir, joins, claimant>>
    BY <1>3 DEF Settle, SettleActive, Annul, SettleActioned, SettleTerminal
  <2>2. \A q \in Proposals : heir[q] = NoOne \/ status'[q] = status[q]
    BY <1>3 DEF Settle, SettleActive, Annul, SettleActioned, SettleTerminal, Unlocked, TypeOK
  <2> QED
    BY <2>1, <2>2, HeirQuietStep
<1>4. ASSUME NEW p \in Proposals, Shell(p) PROVE HeirInOrder'
  <2>1. UNCHANGED <<heir, joins, claimant>>
    BY <1>4 DEF Shell, ShellAction, ShellAnnul, Annul
  <2>2. \A q \in Proposals : heir[q] = NoOne \/ status'[q] = status[q]
    BY <1>4 DEF Shell, ShellAction, ShellAnnul, Annul, Unlocked, TypeOK
  <2> QED
    BY <2>1, <2>2, HeirQuietStep
<1>5. ASSUME NEW p \in Proposals, HandOver(p) PROVE HeirInOrder'
  <2>1. /\ UNCHANGED status /\ heir'[p] = NoOne
        /\ \A q \in Proposals \ {p} : /\ heir'[q] = heir[q] /\ claimant'[q] = claimant[q]
                                     /\ joins'[q] = joins[q]
    BY <1>5 DEF HandOver, Removed, TypeOK
  <2> QED
    BY <2>1, HeirQuietStep
<1>6. CASE UNCHANGED vars
  BY <1>6, HeirQuietStep DEF vars
<1> QED
  BY <1>1, <1>2, <1>3, <1>4, <1>5, <1>6 DEF Next, Deletion

LEMMA CrewInvariant == Spec => [](CrewConsistent /\ HeirInOrder)
<1>1. Init => CrewConsistent /\ HeirInOrder
  BY AccountsAssumption DEF Init, CrewConsistent, Joined, HeirInOrder
<1>2. TypeOK /\ CrewConsistent /\ HeirInOrder /\ [Next]_vars => (CrewConsistent /\ HeirInOrder)'
  BY CrewInductive, HeirInductive
<1> QED
  BY <1>1, <1>2, TypeCorrect, PTL DEF Spec

\* Whoever claims, joins, leaves and hands over, in any order and number: an open
\* proposal has no crew, a claimed one has a claimant who is not also joined, and
\* nobody is on it twice.
THEOREM CrewAddsUp == Spec => []CrewConsistent
<1> QED
  BY CrewInvariant, PTL

--------------------------------------------------------------------------------
(* Kommons implements TokenLedger. *)

Escrow == [p \in Proposals |-> [a \in Accounts |-> backed[p][a] - refunded[p][a]]]
Phases == [p \in Proposals |-> Phase(status[p])]

\* A step that leaves the money and the status alone leaves the ledger it maps to alone.
LEMMA ViewUnchanged ==
  ASSUME TypeOK, UNCHANGED <<balance, backed, refunded, raised>>,
         \A p \in Proposals : Phase(status'[p]) = Phase(status[p])
  PROVE  UNCHANGED Ledger!ledgerVars
<1>1. Escrow' = Escrow /\ Phases' = Phases
  BY DEF Escrow, Phases
<1> QED
  BY <1>1 DEF Ledger!ledgerVars, Escrow, Phases

\* What the ledger holds for a backer is what Owed says refund_all! would return.
LEMMA EscrowIsOwed ==
  ASSUME SettlementInv, NEW p \in Proposals, NEW a \in Accounts
  PROVE  /\ Escrow[p][a] = Owed(p, a)
         /\ Escrow[p][a] \in Nat
<1>1. backed[p][a] \in Nat /\ refunded[p][a] \in Nat
  BY DEF SettlementInv, TypeOK
<1>2. backed[p][a] >= refunded[p][a]
  BY <1>1 DEF SettlementInv, RefundState, Nothing
<1> QED
  BY <1>1, <1>2 DEF Escrow, Owed

\* Refunding everyone empties p's escrow and no other.
LEMMA RefundEmptiesEscrow ==
  ASSUME SettlementInv, TypeOK', NEW p \in Proposals, RefundAll(p), UNCHANGED backed
  PROVE  Escrow' = [Escrow EXCEPT ![p] = Ledger!NoEscrow]
<1>1. refunded'[p] = backed[p] /\ \A q \in Proposals \ {p} : refunded'[q] = refunded[q]
  BY RefundAllPaysUp DEF SettlementInv
<1>2. \A a \in Accounts : backed[p][a] \in Nat
  BY DEF SettlementInv, TypeOK
<1>3. [a \in Accounts |-> backed'[p][a] - refunded'[p][a]] = Ledger!NoEscrow
  BY <1>1, <1>2 DEF Ledger!NoEscrow
<1> QED
  BY <1>1, <1>3 DEF Escrow

\* phase of p moves, and of p alone.
LEMMA PhaseOfOne ==
  ASSUME TypeOK, NEW p \in Proposals, NEW s, status' = [status EXCEPT ![p] = s]
  PROVE  Phases' = [Phases EXCEPT ![p] = Phase(s)]
  BY DEF Phases, TypeOK

\* Actioning a proposal is the ledger holding its escrow: no more stakes, none moved.
LEMMA HoldStep ==
  ASSUME TypeOK, NEW p \in Proposals, Backable(p),
         status' = [status EXCEPT ![p] = "actioned"],
         UNCHANGED <<balance, backed, refunded, raised>>
  PROVE  Ledger!LedgerNext
<1>1. Phases' = [Phases EXCEPT ![p] = "held"]
  BY PhaseOfOne DEF Phase, TERMINAL_STATES
<1>2. Phases[p] = "taking"
  BY DEF Phases, Phase, Backable, ACTIVE_STATES, TERMINAL_STATES
<1>3. Escrow' = Escrow
  BY DEF Escrow
<1>4. Ledger!Hold(p)
  BY <1>1, <1>2, <1>3 DEF Ledger!Hold, Phases, Escrow
<1> QED
  BY <1>4 DEF Ledger!LedgerNext

\* Annulling a proposal is the ledger releasing its escrow.
LEMMA ReleaseStep ==
  ASSUME SettlementInv, TypeOK', NEW p \in Proposals, Annul(p)
  PROVE  Ledger!LedgerNext
<1>1. Phases' = [Phases EXCEPT ![p] = "done"]
  BY PhaseOfOne DEF Annul, Phase, TERMINAL_STATES, SettlementInv
<1>2. Phases[p] = "taking"
  BY DEF Annul, Phases, Phase, ACTIVE_STATES, TERMINAL_STATES
<1>3. Escrow' = [Escrow EXCEPT ![p] = Ledger!NoEscrow]
  BY RefundEmptiesEscrow DEF Annul
<1>4. balance' = [a \in Accounts |-> balance[a] + Escrow[p][a]]
  BY EscrowIsOwed DEF Annul
<1>5. raised' = raised
  BY DEF Annul
<1>6. Ledger!Release(p)
  BY <1>1, <1>2, <1>3, <1>4, <1>5 DEF Ledger!Release, Phases, Escrow
<1> QED
  BY <1>6 DEF Ledger!LedgerNext

\* Closing a proposal is the ledger completing it and paying the reward.
LEMMA CompleteStep ==
  ASSUME SettlementInv, TypeOK', NEW p \in Proposals, NEW a \in Accounts, Close(a, p)
  PROVE  Ledger!LedgerNext
<1>1. Phases' = [Phases EXCEPT ![p] = "done"]
  BY PhaseOfOne DEF Close, Phase, TERMINAL_STATES, SettlementInv
<1>2. Phases[p] = "held"
  BY DEF Close, Phases, Phase, TERMINAL_STATES
<1>3. Escrow' = [Escrow EXCEPT ![p] = Ledger!NoEscrow]
  BY RefundEmptiesEscrow DEF Close
<1>4. PayoutDue(p) = Ledger!Reward(raised[p])
  BY DEF Close, SettlementInv, PaidOnClose, PayoutDue, AuthorPayoutFor, Ledger!Reward
<1>5. balance' = [x \in Accounts |->
                    balance[x] + Escrow[p][x] +
                      (IF x = a THEN Ledger!Reward(raised[p]) ELSE 0)]
  BY <1>4, EscrowIsOwed DEF Close
<1>6. raised' = raised
  BY DEF Close
<1>7. Ledger!Complete(p, a)
  BY <1>1, <1>2, <1>3, <1>5, <1>6 DEF Ledger!Complete, Phases, Escrow
<1> QED
  BY <1>7 DEF Ledger!LedgerNext

\* Settling an actioned proposal of someone who left is the ledger sending its escrow home.
LEMMA SendHomeStep ==
  ASSUME SettlementInv, TypeOK', NEW p \in Proposals, NEW a \in Accounts,
         SettleActioned(a, p)
  PROVE  Ledger!LedgerNext
<1>1. Phases' = Phases
  BY DEF SettleActioned, Phases
<1>2. Phases[p] = "held"
  BY DEF SettleActioned, Phases, Phase, TERMINAL_STATES
<1>3. Escrow' = [Escrow EXCEPT ![p] = Ledger!NoEscrow]
  BY RefundEmptiesEscrow DEF SettleActioned
<1>4. Escrow' = [Escrow EXCEPT ![p] =
                   [x \in Accounts |-> IF x \in Accounts THEN 0 ELSE @[x]]]
  BY <1>3 DEF Ledger!NoEscrow
<1>5. balance' = [x \in Accounts |->
                    balance[x] + (IF x \in Accounts THEN Escrow[p][x] ELSE 0)]
  BY EscrowIsOwed DEF SettleActioned
<1>6. raised' = raised
  BY DEF SettleActioned
<1>7. Ledger!SendHome(p, Accounts)
  BY <1>1, <1>2, <1>4, <1>5, <1>6 DEF Ledger!SendHome, Phases, Escrow
<1> QED
  BY <1>7 DEF Ledger!LedgerNext

\* Backing a proposal is the ledger moving tokens into escrow.
LEMMA StakeStep ==
  ASSUME SettlementInv, TypeOK', NEW p \in Proposals, NEW a \in Accounts,
         NEW n \in Stakes, Back(a, p, n)
  PROVE  Ledger!LedgerNext
<1>1. n \in 1..balance[a]
  BY StakesAssumption DEF Back, Affords, SettlementInv, TypeOK
<1>2. Phases' = Phases /\ Phases[p] = "taking"
  BY DEF Back, Affords, Backable, Phases, Phase, ACTIVE_STATES, TERMINAL_STATES
<1>3. Escrow' = [Escrow EXCEPT ![p][a] = @ + n]
  <2>1. \A q \in Proposals \ {p} : backed'[q] = backed[q]
    BY DEF Back, Affords, SettlementInv, TypeOK
  <2>2. backed'[p] = [backed[p] EXCEPT ![a] = @ + n]
    BY DEF Back, Affords, SettlementInv, TypeOK
  <2>3. \A x \in Accounts : backed[p][x] \in Nat /\ refunded[p][x] \in Nat
    BY DEF SettlementInv, TypeOK
  <2>4. [x \in Accounts |-> backed'[p][x] - refunded[p][x]]
        = [[x \in Accounts |-> backed[p][x] - refunded[p][x]] EXCEPT ![a] = @ + n]
    <3>1. backed[p] \in [Accounts -> Nat] /\ n \in Int
      BY StakesAssumption DEF SettlementInv, TypeOK
    <3>2. \A x \in Accounts :
            backed'[p][x] = IF x = a THEN backed[p][x] + n ELSE backed[p][x]
      BY <2>2, <3>1
    <3>3. \A x \in Accounts :
            backed'[p][x] - refunded[p][x]
            = IF x = a THEN (backed[p][x] - refunded[p][x]) + n
              ELSE backed[p][x] - refunded[p][x]
      BY <2>3, <3>1, <3>2
    <3> DEFINE was == [x \in Accounts |-> backed[p][x] - refunded[p][x]]
    <3>4. [was EXCEPT ![a] = @ + n] = [x \in Accounts |-> IF x = a THEN was[a] + n ELSE was[x]]
      BY Zenon
    <3>5. \A x \in Accounts : was[x] = backed[p][x] - refunded[p][x]
      OBVIOUS
    <3> HIDE DEF was
    <3>6. [x \in Accounts |-> backed'[p][x] - refunded[p][x]]
          = [x \in Accounts |-> IF x = a THEN was[a] + n ELSE was[x]]
      BY <3>3, <3>5
    <3> QED
      BY <3>4, <3>6 DEF was
  <2>5. refunded' = refunded
    BY DEF Back, Affords
  <2> DEFINE held(q) == [x \in Accounts |-> backed[q][x] - refunded[q][x]]
             holds(q) == [x \in Accounts |-> backed'[q][x] - refunded[q][x]]
  <2>6. holds(p) = [held(p) EXCEPT ![a] = @ + n]
    BY <2>4
  <2>7. \A q \in Proposals \ {p} : holds(q) = held(q)
    BY <2>1
  <2>8. Escrow = [q \in Proposals |-> held(q)] /\ Escrow' = [q \in Proposals |-> holds(q)]
    BY <2>5 DEF Escrow
  <2> HIDE DEF held, holds
  <2> QED
    BY <2>6, <2>7, <2>8
<1>4. balance' = [balance EXCEPT ![a] = @ - n] /\ raised' = [raised EXCEPT ![p] = @ + n]
  BY DEF Back, Affords
<1>5. Ledger!Stake(a, p)
  BY <1>1, <1>2, <1>3, <1>4 DEF Ledger!Stake, Phases, Escrow
<1> QED
  BY <1>5 DEF Ledger!LedgerNext

\* An account with its starting grant is the ledger issuing tokens.
LEMMA IssueStep ==
  ASSUME TypeOK, NEW a \in Accounts, SignUp(a)
  PROVE  Ledger!LedgerNext \/ UNCHANGED Ledger!ledgerVars
<1>1. PICK granted \in {0, StartingBalance} :
        balance' = [balance EXCEPT ![a] = @ + granted]
  BY DEF SignUp
<1>2. Escrow' = Escrow /\ Phases' = Phases /\ raised' = raised
  BY DEF SignUp, Escrow, Phases
<1>3. CASE granted = 0
  <2>1. balance' = balance
    BY <1>1, <1>3 DEF TypeOK
  <2> QED
    BY <2>1, ViewUnchanged DEF SignUp
<1>4. CASE granted = StartingBalance
  <2>1. /\ balance'[a] \in Nat /\ balance'[a] > balance[a]
        /\ balance' = [balance EXCEPT ![a] = balance'[a]]
    BY <1>1, <1>4, BalanceAssumption DEF TypeOK
  <2>2. Ledger!Issue(a)
    BY <1>2, <2>1 DEF Ledger!Issue, Escrow, Phases
  <2> QED
    BY <2>2 DEF Ledger!LedgerNext
<1> QED
  BY <1>3, <1>4

\* Every step of Kommons is a step the token economy allows, or moves no token:
\* Kommons implements TokenLedger.
THEOREM KommonsImplementsLedger == Spec => ImplementsLedger
<1>1. Init => Ledger!LedgerInit
  <2> SUFFICES ASSUME Init PROVE Ledger!LedgerInit
    OBVIOUS
  <2>1. Escrow = [p \in Proposals |-> Ledger!NoEscrow]
    BY DEF Init, Escrow, Nothing, Ledger!NoEscrow
  <2>2. Phases = [p \in Proposals |-> "taking"]
    BY DEF Init, Phases, Phase, TERMINAL_STATES
  <2> QED
    BY <2>1, <2>2 DEF Init, Nothing, Ledger!LedgerInit, Escrow, Phases
<1>2. ASSUME SettlementInv, [Next]_vars
      PROVE  Ledger!LedgerNext \/ UNCHANGED Ledger!ledgerVars
  <2>0. TypeOK /\ TypeOK'
    BY <1>2, TypeInductive DEF SettlementInv
  <2>1. ASSUME NEW a \in Accounts, SignUp(a)
        PROVE  Ledger!LedgerNext \/ UNCHANGED Ledger!ledgerVars
    BY <2>0, <2>1, IssueStep
  <2>2. ASSUME NEW a \in Accounts, NEW p \in Proposals, Request(a, p)
        PROVE  Ledger!LedgerNext \/ UNCHANGED Ledger!ledgerVars
    <3>1. CASE \/ Create(a, p) \/ Claim(a, p) \/ Unclaim(a, p) \/ Join(a, p)
               \/ Leave(a, p) \/ AddTask(a, p) \/ ReopenTask(a, p)
      <4>1. UNCHANGED <<balance, backed, refunded, raised>>
        BY <3>1 DEF Create, Claim, Unclaim, Join, Leave, AddTask, ReopenTask
      <4>2. \A q \in Proposals : Phase(status'[q]) = Phase(status[q])
        BY <2>0, <3>1 DEF Create, Claim, Unclaim, Join, Leave, AddTask, ReopenTask,
                          Phase, TypeOK, TERMINAL_STATES
      <4> QED
        BY <2>0, <4>1, <4>2, ViewUnchanged
    <3>2. ASSUME NEW n \in Stakes, Back(a, p, n) PROVE Ledger!LedgerNext
      BY <1>2, <2>0, <3>2, StakeStep
    <3>3. CASE MarkActioned(a, p)
      BY <2>0, <3>3, HoldStep DEF MarkActioned, Backable, ACTIVE_STATES
    <3>4. CASE Close(a, p)
      BY <1>2, <2>0, <3>4, CompleteStep
    <3>5. CASE TickTask(a, p)
      <4>1. CASE status' = status
        BY <2>0, <3>5, <4>1, ViewUnchanged DEF TickTask
      <4>2. CASE Backable(p) /\ status' = [status EXCEPT ![p] = "actioned"]
        BY <2>0, <3>5, <4>2, HoldStep DEF TickTask
      <4> QED
        BY <3>5, <4>1, <4>2 DEF TickTask
    <3> QED
      BY <2>2, <3>1, <3>2, <3>3, <3>4, <3>5 DEF Request
  <2>3. ASSUME NEW a \in Accounts, Deletion(a)
        PROVE  Ledger!LedgerNext \/ UNCHANGED Ledger!ledgerVars
    <3>1. CASE RequestDeletion(a) \/ RetryDeletion(a) \/ FinishDeletion(a)
      BY <2>0, <3>1, ViewUnchanged DEF RequestDeletion, RetryDeletion, FinishDeletion
    <3>2. ASSUME NEW p \in Proposals, Settle(a, p)
          PROVE  Ledger!LedgerNext \/ UNCHANGED Ledger!ledgerVars
      <4>1. CASE SettleActive(a, p)
        BY <1>2, <2>0, <4>1, ReleaseStep DEF SettleActive
      <4>2. CASE SettleActioned(a, p)
        BY <1>2, <2>0, <4>2, SendHomeStep
      <4>3. CASE SettleTerminal(a, p)
        BY <2>0, <4>3, ViewUnchanged DEF SettleTerminal
      <4> QED
        BY <3>2, <4>1, <4>2, <4>3 DEF Settle
    <3> QED
      BY <2>3, <3>1, <3>2 DEF Deletion
  <2>4. ASSUME NEW p \in Proposals, Shell(p) PROVE Ledger!LedgerNext
    <3>1. CASE ShellAction(p)
      BY <2>0, <3>1, HoldStep DEF ShellAction, Backable
    <3>2. CASE ShellAnnul(p)
      BY <1>2, <2>0, <3>2, ReleaseStep DEF ShellAnnul
    <3> QED
      BY <2>4, <3>1, <3>2 DEF Shell
  <2>5. CASE UNCHANGED vars \/ \E p \in Proposals : HandOver(p)
    BY <2>0, <2>5, ViewUnchanged DEF vars, HandOver
  <2> QED
    BY <1>2, <2>1, <2>2, <2>3, <2>4, <2>5 DEF Next
<1> QED
  BY <1>1, <1>2, SettlementInvariant, PTL DEF Spec, ImplementsLedger, Ledger!LedgerSpec

--------------------------------------------------------------------------------
(* The lifecycle. *)

\* No request, shell command or deletion takes a proposal back: what is closed or
\* annulled stays so, and what is actioned can only be closed.
THEOREM LifecycleOnlyForward == Spec => OnlyForward
<1>1. ASSUME TypeOK, NEW p \in Proposals, NEW s, status' = [status EXCEPT ![p] = s],
             \/ status[p] \in {"none"} \cup ACTIVE_STATES
             \/ status[p] = "actioned" /\ s = "closed"
      PROVE  MovesForward
  BY <1>1 DEF MovesForward, TypeOK, ACTIVE_STATES, TERMINAL_STATES
<1>2. ASSUME status' = status PROVE MovesForward
  BY <1>2 DEF MovesForward
<1>3. ASSUME TypeOK, Next PROVE MovesForward
  <2>1. ASSUME NEW a \in Accounts, SignUp(a) PROVE MovesForward
    BY <1>2, <2>1 DEF SignUp
  <2>2. ASSUME NEW a \in Accounts, NEW p \in Proposals, Request(a, p)
        PROVE  MovesForward
    <3>1. CASE \/ Join(a, p) \/ Leave(a, p) \/ AddTask(a, p) \/ ReopenTask(a, p)
               \/ \E n \in Stakes : Back(a, p, n)
      BY <1>2, <3>1 DEF Join, Leave, AddTask, ReopenTask, Back, Affords
    <3>2. CASE Create(a, p) \/ Claim(a, p) \/ MarkActioned(a, p)
      BY <1>1, <1>3, <3>2 DEF Create, Claim, MarkActioned, ACTIVE_STATES
    <3>3. CASE Unclaim(a, p)
      BY <1>1, <1>2, <1>3, <3>3 DEF Unclaim, ACTIVE_STATES
    <3>4. CASE Close(a, p)
      BY <1>1, <1>3, <3>4 DEF Close
    <3>5. CASE TickTask(a, p)
      BY <1>1, <1>2, <1>3, <3>5 DEF TickTask, Backable
    <3> QED
      BY <2>2, <3>1, <3>2, <3>3, <3>4, <3>5 DEF Request
  <2>3. ASSUME NEW a \in Accounts, Deletion(a) PROVE MovesForward
    <3>1. CASE RequestDeletion(a) \/ RetryDeletion(a) \/ FinishDeletion(a)
      BY <1>2, <3>1 DEF RequestDeletion, RetryDeletion, FinishDeletion
    <3>2. ASSUME NEW p \in Proposals, Settle(a, p) PROVE MovesForward
      BY <1>1, <1>2, <1>3, <3>2
         DEF Settle, SettleActive, Annul, SettleActioned, SettleTerminal
    <3> QED
      BY <2>3, <3>1, <3>2 DEF Deletion
  <2>4. ASSUME NEW p \in Proposals, Shell(p) PROVE MovesForward
    BY <1>1, <1>3, <2>4 DEF Shell, ShellAction, ShellAnnul, Annul
  <2>5. ASSUME NEW p \in Proposals, HandOver(p) PROVE MovesForward
    BY <1>2, <2>5 DEF HandOver
  <2> QED
    BY <1>3, <2>1, <2>2, <2>3, <2>4, <2>5 DEF Next
<1>4. TypeOK /\ [Next]_vars => [MovesForward]_vars
  BY <1>3
<1> QED
  BY <1>4, TypeCorrect, PTL DEF Spec, OnlyForward

--------------------------------------------------------------------------------
(* The books. *)

\* What p moved out of and into a's balance, and what p paid a for proposing it.
Gains(a) == [p \in Proposals |-> refunded[p][a] - backed[p][a]]
Earned(a) == [p \in Proposals |-> IF author[p] = a THEN payout[p] ELSE 0]

\* a's balance is the grant and all the movements on record.
Booked(a, grant) ==
  balance[a] = grant + SumOf(Proposals, Gains(a)) + SumOf(Proposals, Earned(a))

\* An account that has not signed up has had no grant.
Grants(a) == IF account[a] = "absent" THEN {0} ELSE {0, StartingBalance}

BooksInv ==
  /\ SettlementInv
  /\ \A p \in Proposals : raised[p] = SumOf(Accounts, backed[p])
  /\ \A a \in Accounts : \E grant \in Grants(a) : Booked(a, grant)

\* What the model adds up with is what the sum lemmas are about.
LEMMA SumOverIs ==
  ASSUME NEW S, NEW f
  PROVE  SumOver(S, f) = SumOf(S, f)
BY DEF SumOver, SumOf

LEMMA MovementsAreIntegers ==
  ASSUME TypeOK, NEW a \in Accounts
  PROVE  /\ \A p \in Proposals : Gains(a)[p] \in Int /\ Earned(a)[p] \in Int
         /\ SumOf(Proposals, Gains(a)) \in Int /\ SumOf(Proposals, Earned(a)) \in Int
         /\ balance[a] \in Int
<1>1. \A p \in Proposals : Gains(a)[p] \in Int /\ Earned(a)[p] \in Int
  BY DEF TypeOK, Gains, Earned
<1>2. SumOf(Proposals, Gains(a)) \in Int /\ SumOf(Proposals, Earned(a)) \in Int
  BY <1>1, FiniteAssumption, SumInt
<1> QED
  BY <1>1, <1>2 DEF TypeOK

\* A step that touches the movements of one proposal keeps a's books when the
\* balance changes by what the movements do.
LEMMA OneProposalBooked ==
  ASSUME TypeOK, TypeOK', NEW a \in Accounts, NEW p \in Proposals,
         \A q \in Proposals \ {p} :
           /\ backed'[q] = backed[q] /\ refunded'[q] = refunded[q]
           /\ payout'[q] = payout[q] /\ author'[q] = author[q],
         balance'[a] = balance[a] + (Gains(a)'[p] - Gains(a)[p])
                                  + (Earned(a)'[p] - Earned(a)[p]),
         NEW grant \in Nat, Booked(a, grant)
  PROVE  Booked(a, grant)'
<1> DEFINE g == Gains(a)
           h == Gains(a)'
           e == Earned(a)
           d == Earned(a)'
<1>1. /\ \A q \in Proposals : g[q] \in Int /\ e[q] \in Int
      /\ SumOf(Proposals, g) \in Int /\ SumOf(Proposals, e) \in Int
      /\ balance[a] \in Int
  BY MovementsAreIntegers
<1>2. \A q \in Proposals : h[q] \in Int /\ d[q] \in Int
  <2>1. \A q \in Proposals : /\ h[q] = refunded'[q][a] - backed'[q][a]
                            /\ d[q] = IF author'[q] = a THEN payout'[q] ELSE 0
    BY DEF Gains, Earned
  <2>2. \A q \in Proposals : /\ refunded'[q][a] \in Int /\ backed'[q][a] \in Int
                            /\ payout'[q] \in Int
    BY DEF TypeOK
  <2> QED
    BY <2>1, <2>2
<1>3. \A q \in Proposals \ {p} : h[q] = g[q] /\ d[q] = e[q]
  BY DEF Gains, Earned
<1>4. balance'[a] = balance[a] + (h[p] - g[p]) + (d[p] - e[p])
  OBVIOUS
<1>5. balance[a] = grant + SumOf(Proposals, g) + SumOf(Proposals, e)
  BY DEF Booked
<1> SUFFICES balance'[a] = grant + SumOf(Proposals, h) + SumOf(Proposals, d)
  BY DEF Booked
<1> HIDE DEF g, h, e, d
<1>6. /\ SumOf(Proposals, h) = SumOf(Proposals, g) + (h[p] - g[p])
      /\ SumOf(Proposals, d) = SumOf(Proposals, e) + (d[p] - e[p])
  <2>1. IsFiniteSet(Proposals)
    BY FiniteAssumption
  <2>2. SumOf(Proposals, h) = SumOf(Proposals, g) + (h[p] - g[p])
    BY <1>1, <1>2, <1>3, <2>1, SumChange
  <2>3. SumOf(Proposals, d) = SumOf(Proposals, e) + (d[p] - e[p])
    BY <1>1, <1>2, <1>3, <2>1, SumChange
  <2> QED
    BY <2>2, <2>3
<1>7. grant \in Int /\ g[p] \in Int /\ h[p] \in Int /\ e[p] \in Int /\ d[p] \in Int
  BY <1>1, <1>2
<1> QED
  BY <1>1, <1>4, <1>5, <1>6, <1>7

\* Paying back everyone who backed p, and its proposer due, keeps a's books.
LEMMA SettlingBooked ==
  ASSUME TypeOK, TypeOK', NEW p \in Proposals, RefundAll(p), NEW due \in Nat,
         backed' = backed, author' = author,
         payout' = [payout EXCEPT ![p] = @ + due],
         NEW a \in Accounts,
         balance'[a] = balance[a] + Owed(p, a) + (IF a = author[p] THEN due ELSE 0),
         NEW grant \in Nat, Booked(a, grant)
  PROVE  Booked(a, grant)'
<1>1. refunded' = [refunded EXCEPT ![p] = [x \in Accounts |-> @[x] + Owed(p, x)]]
  BY DEF RefundAll
<1>2. \A q \in Proposals \ {p} :
        /\ backed'[q] = backed[q] /\ refunded'[q] = refunded[q]
        /\ payout'[q] = payout[q] /\ author'[q] = author[q]
  BY <1>1 DEF TypeOK
<1>3. refunded'[p][a] = refunded[p][a] + Owed(p, a) /\ payout'[p] = payout[p] + due
  BY <1>1 DEF TypeOK
<1>4. /\ refunded[p][a] \in Int /\ backed[p][a] \in Int /\ payout[p] \in Int
      /\ balance[a] \in Int /\ Owed(p, a) \in Int
  <2>1. Owed(p, a) \in Nat
    BY OwedType
  <2> QED
    BY <2>1 DEF TypeOK
<1>5. /\ Gains(a)[p] = refunded[p][a] - backed[p][a]
      /\ Gains(a)'[p] = refunded'[p][a] - backed'[p][a]
      /\ Earned(a)[p] = IF author[p] = a THEN payout[p] ELSE 0
      /\ Earned(a)'[p] = IF author'[p] = a THEN payout'[p] ELSE 0
  BY DEF Gains, Earned
<1>6. Gains(a)'[p] - Gains(a)[p] = Owed(p, a)
  BY <1>3, <1>4, <1>5
<1>7. Earned(a)'[p] - Earned(a)[p] = IF a = author[p] THEN due ELSE 0
  BY <1>3, <1>4, <1>5
<1>8. balance'[a] = balance[a] + (Gains(a)'[p] - Gains(a)[p])
                               + (Earned(a)'[p] - Earned(a)[p])
  BY <1>6, <1>7
<1> QED
  BY <1>2, <1>8, OneProposalBooked

\* A backing keeps a's books and the total of the proposal backed.
LEMMA BackingBooked ==
  ASSUME BooksInv, TypeOK', NEW b \in Accounts, NEW p \in Proposals, NEW n \in Stakes,
         Back(b, p, n)
  PROVE  /\ \A q \in Proposals : raised'[q] = SumOf(Accounts, backed'[q])
         /\ \A a \in Accounts, grant \in Nat : Booked(a, grant) => Booked(a, grant)'
<1> USE DEF BooksInv, SettlementInv
<1>1. n \in Nat
  BY StakesAssumption
<1>2. /\ balance' = [balance EXCEPT ![b] = @ - n]
      /\ backed' = [backed EXCEPT ![p][b] = @ + n]
      /\ raised' = [raised EXCEPT ![p] = @ + n]
      /\ UNCHANGED <<author, refunded, payout>>
  BY DEF Back
<1>t. /\ backed \in [Proposals -> [Accounts -> Nat]] /\ balance \in [Accounts -> Nat]
      /\ \A q \in Proposals, x \in Accounts : backed[q][x] \in Int /\ balance[x] \in Int
  <2>1. backed \in [Proposals -> [Accounts -> Nat]] /\ balance \in [Accounts -> Nat]
    BY DEF TypeOK
  <2>2. \A q \in Proposals : backed[q] \in [Accounts -> Nat]
    BY <2>1
  <2> QED
    BY <2>1, <2>2
<1>3. \A q \in Proposals : \A a \in Accounts :
        backed'[q][a] = backed[q][a] + (IF q = p /\ a = b THEN n ELSE 0)
  BY <1>1, <1>2, <1>t
<1>4. \A a \in Accounts : balance'[a] = balance[a] - (IF a = b THEN n ELSE 0)
  BY <1>1, <1>2, <1>t
<1>5. \A q \in Proposals \ {p} : backed'[q] = backed[q] /\ raised'[q] = raised[q]
  BY <1>2 DEF TypeOK
<1>6. raised'[p] = SumOf(Accounts, backed'[p])
  <2> DEFINE f == backed[p]
             g == backed'[p]
  <2>1. /\ \A y \in Accounts : f[y] \in Int /\ g[y] \in Int
        /\ \A y \in Accounts \ {b} : f[y] = g[y]
        /\ g[b] = f[b] + n
    BY <1>1, <1>3, <1>t
  <2>2. raised[p] = SumOf(Accounts, f) /\ raised'[p] = raised[p] + n /\ raised[p] \in Int
    BY <1>2 DEF TypeOK
  <2> HIDE DEF f, g
  <2>3. SumOf(Accounts, g) = SumOf(Accounts, f) + (g[b] - f[b])
    BY <2>1, FiniteAssumption, SumChange
  <2>4. raised'[p] = SumOf(Accounts, g)
    BY <1>1, <2>1, <2>2, <2>3
  <2> QED
    BY <2>4 DEF g
<1>7. ASSUME NEW a \in Accounts, NEW grant \in Nat, Booked(a, grant)
      PROVE  Booked(a, grant)'
  <2>1. /\ Gains(a)[p] = refunded[p][a] - backed[p][a]
        /\ Gains(a)'[p] = refunded'[p][a] - backed'[p][a]
        /\ Earned(a)[p] = IF author[p] = a THEN payout[p] ELSE 0
        /\ Earned(a)'[p] = IF author'[p] = a THEN payout'[p] ELSE 0
    BY DEF Gains, Earned
  <2>2. /\ refunded[p][a] \in Int /\ backed[p][a] \in Int /\ payout[p] \in Int
        /\ balance[a] \in Int
    BY DEF TypeOK
  <2>3. Gains(a)'[p] - Gains(a)[p] = - (IF a = b THEN n ELSE 0)
    BY <1>1, <1>2, <1>3, <2>1, <2>2
  <2>4. Earned(a)'[p] - Earned(a)[p] = 0
    BY <1>2, <2>1, <2>2
  <2>5. balance'[a] = balance[a] + (Gains(a)'[p] - Gains(a)[p])
                                 + (Earned(a)'[p] - Earned(a)[p])
    BY <1>1, <1>4, <2>2, <2>3, <2>4
  <2>6. \A q \in Proposals \ {p} :
          /\ backed'[q] = backed[q] /\ refunded'[q] = refunded[q]
          /\ payout'[q] = payout[q] /\ author'[q] = author[q]
    BY <1>2, <1>5
  <2> QED
    BY <1>7, <2>5, <2>6, OneProposalBooked
<1> QED
  BY <1>2, <1>5, <1>6, <1>7

\* Every step keeps the books: a step makes one movement, or the movements of one
\* proposal, and each with its balance.
LEMMA BooksInductive ==
  ASSUME BooksInv, [Next]_vars
  PROVE  BooksInv'
<1>0. TypeOK /\ TypeOK' /\ SettlementInv /\ SettlementInv'
  BY TypeInductive, SettlementInductive DEF BooksInv, SettlementInv
<1>g. \A a \in Accounts : Grants(a) \subseteq Nat
  BY BalanceAssumption DEF Grants
<1> DEFINE AllBooked == \A a \in Accounts, grant \in Nat : Booked(a, grant) => Booked(a, grant)'
<1>a. ASSUME UNCHANGED <<backed, raised>>,
             AllBooked, \A a \in Accounts : Grants(a)' = Grants(a)
      PROVE  BooksInv'
  <2>1. \A p \in Proposals : raised'[p] = SumOf(Accounts, backed'[p])
    BY <1>a DEF BooksInv
  <2>2. \A a \in Accounts : \E grant \in Grants(a)' : Booked(a, grant)'
    BY <1>a, <1>g DEF BooksInv
  <2> QED
    BY <1>0, <2>1, <2>2 DEF BooksInv
<1>b. ASSUME UNCHANGED <<author, tokens>>
      PROVE  AllBooked /\ UNCHANGED <<backed, raised>>
  BY <1>b DEF Booked, Gains, Earned
<1>c. ASSUME NEW p \in Proposals, Annul(p) \/ \E a \in Accounts : SettleActioned(a, p)
      PROVE  AllBooked /\ UNCHANGED <<backed, raised>>
  <2>1. /\ RefundAll(p) /\ UNCHANGED <<author, backed, raised, payout>>
        /\ balance' = [x \in Accounts |-> balance[x] + Owed(p, x)]
    BY <1>c DEF Annul, SettleActioned
  <2>2. payout' = [payout EXCEPT ![p] = @ + 0]
    BY <1>0, <2>1 DEF TypeOK
  <2> SUFFICES ASSUME NEW a \in Accounts, NEW grant \in Nat, Booked(a, grant)
               PROVE  Booked(a, grant)'
    BY <2>1
  <2>3. balance'[a] = balance[a] + Owed(p, a) + (IF a = author[p] THEN 0 ELSE 0)
    <3>1. balance[a] \in Nat /\ Owed(p, a) \in Nat
      BY <1>0, OwedType DEF TypeOK
    <3> QED
      BY <2>1, <3>1
  <2> QED
    BY <1>0, <2>1, <2>2, <2>3, SettlingBooked
<1> HIDE DEF AllBooked
<1>1. ASSUME NEW b \in Accounts, SignUp(b) PROVE BooksInv'
  <2>1. PICK granted \in {0, StartingBalance} :
          balance' = [balance EXCEPT ![b] = @ + granted]
    BY <1>1 DEF SignUp
  <2>2. UNCHANGED <<author, backed, refunded, raised, payout>>
    BY <1>1 DEF SignUp
  <2>3. ASSUME NEW a \in Accounts PROVE \E grant \in Grants(a)' : Booked(a, grant)'
    <3>1. PICK grant \in Grants(a) : Booked(a, grant)
      BY DEF BooksInv
    <3>2. Gains(a)' = Gains(a) /\ Earned(a)' = Earned(a)
      BY <2>2 DEF Gains, Earned
    <3>3. CASE a # b
      <4>1. Grants(a)' = Grants(a) /\ balance'[a] = balance[a]
        BY <1>0, <1>1, <2>1, <3>3 DEF SignUp, Grants, TypeOK
      <4>2. Booked(a, grant)'
        BY <3>1, <3>2, <4>1 DEF Booked
      <4> QED
        BY <3>1, <4>1, <4>2
    <3>4. CASE a = b
      <4>1. grant = 0 /\ Grants(a)' = {0, StartingBalance}
        BY <1>0, <1>1, <3>1, <3>4 DEF SignUp, Grants, TypeOK
      <4>2. /\ balance'[a] = balance[a] + granted /\ granted \in Int
            /\ SumOf(Proposals, Gains(a)) \in Int /\ SumOf(Proposals, Earned(a)) \in Int
            /\ balance[a] \in Int
        BY <1>0, <2>1, <3>4, BalanceAssumption, MovementsAreIntegers DEF TypeOK
      <4>3. balance[a] = 0 + SumOf(Proposals, Gains(a)) + SumOf(Proposals, Earned(a))
        BY <3>1, <4>1 DEF Booked
      <4>4. balance'[a] = granted + SumOf(Proposals, Gains(a)) + SumOf(Proposals, Earned(a))
        BY <4>2, <4>3
      <4>5. Booked(a, granted)'
        BY <3>2, <4>4 DEF Booked
      <4> QED
        BY <4>1, <4>5
    <3> QED
      BY <3>3, <3>4
  <2>4. \A p \in Proposals : raised'[p] = SumOf(Accounts, backed'[p])
    BY <2>2 DEF BooksInv
  <2> QED
    BY <1>0, <2>3, <2>4 DEF BooksInv
<1>2. ASSUME NEW b \in Accounts, NEW p \in Proposals, Request(b, p) PROVE BooksInv'
  <2>1. CASE Create(b, p)
    <3>1. /\ author' = [author EXCEPT ![p] = b] /\ UNCHANGED <<account, tokens>>
          /\ payout[p] = 0
      BY <1>0, <2>1 DEF Create, SettlementInv, PaidOnClose
    <3>2. \A a \in Accounts : Gains(a)' = Gains(a) /\ Earned(a)' = Earned(a)
      BY <1>0, <3>1 DEF Gains, Earned, TypeOK
    <3>3. AllBooked
      BY <3>1, <3>2 DEF AllBooked, Booked
    <3> QED
      BY <1>a, <3>1, <3>3 DEF Grants
  <2>2. CASE \/ Claim(b, p) \/ Unclaim(b, p) \/ Join(b, p) \/ Leave(b, p)
             \/ MarkActioned(b, p) \/ AddTask(b, p) \/ ReopenTask(b, p)
             \/ TickTask(b, p)
    <3>1. UNCHANGED <<author, account, tokens>>
      BY <2>2 DEF Claim, Unclaim, Join, Leave, MarkActioned, AddTask, ReopenTask,
                  TickTask
    <3> QED
      BY <1>a, <1>b, <3>1 DEF Grants
  <2>3. ASSUME NEW n \in Stakes, Back(b, p, n) PROVE BooksInv'
    <3>1. /\ \A q \in Proposals : raised'[q] = SumOf(Accounts, backed'[q])
          /\ \A a \in Accounts, grant \in Nat : Booked(a, grant) => Booked(a, grant)'
      BY <1>0, <2>3, BackingBooked
    <3>2. \A a \in Accounts : Grants(a)' = Grants(a)
      BY <2>3 DEF Back, Grants
    <3>3. \A a \in Accounts : \E grant \in Grants(a)' : Booked(a, grant)'
      BY <1>g, <3>1, <3>2 DEF BooksInv
    <3> QED
      BY <1>0, <3>1, <3>3 DEF BooksInv
  <2>4. CASE Close(b, p)
    <3>1. /\ RefundAll(p) /\ UNCHANGED <<author, account, backed, raised>> /\ author[p] = b
          /\ payout' = [payout EXCEPT ![p] = @ + PayoutDue(p)]
          /\ \A x \in Accounts : balance'[x] =
               balance[x] + Owed(p, x) + (IF x = author[p] THEN PayoutDue(p) ELSE 0)
      BY <2>4 DEF Close
    <3>2. PayoutDue(p) \in Nat
      BY <1>0, PayoutType
    <3>3. AllBooked
      BY <1>0, <3>1, <3>2, SettlingBooked DEF AllBooked
    <3> QED
      BY <1>a, <3>1, <3>3 DEF Grants
  <2> QED
    BY <1>2, <2>1, <2>2, <2>3, <2>4 DEF Request
<1>3. ASSUME NEW b \in Accounts, Deletion(b) PROVE BooksInv'
  <2>1. CASE RequestDeletion(b) \/ RetryDeletion(b) \/ FinishDeletion(b)
    <3>1. UNCHANGED <<author, tokens>> /\ \A a \in Accounts : Grants(a)' = Grants(a)
      BY <1>0, <2>1
         DEF RequestDeletion, RetryDeletion, FinishDeletion, Grants, SignedIn, TypeOK
    <3> QED
      BY <1>a, <1>b, <3>1
  <2>2. ASSUME NEW p \in Proposals, Settle(b, p) PROVE BooksInv'
    <3>1. \A a \in Accounts : Grants(a)' = Grants(a)
      BY <2>2 DEF Settle, Grants
    <3>2. CASE SettleActive(b, p) \/ SettleActioned(b, p)
      BY <1>a, <1>c, <3>1, <3>2 DEF SettleActive
    <3>3. CASE SettleTerminal(b, p)
      BY <1>a, <1>b, <3>1, <3>3 DEF SettleTerminal
    <3> QED
      BY <2>2, <3>2, <3>3 DEF Settle
  <2> QED
    BY <1>3, <2>1, <2>2 DEF Deletion
<1>4. ASSUME NEW p \in Proposals, Shell(p) PROVE BooksInv'
  <2>1. \A a \in Accounts : Grants(a)' = Grants(a)
    BY <1>4 DEF Shell, ShellAction, ShellAnnul, Grants
  <2>2. CASE ShellAction(p)
    BY <1>a, <1>b, <2>1, <2>2 DEF ShellAction
  <2>3. CASE ShellAnnul(p)
    BY <1>a, <1>c, <2>1, <2>3 DEF ShellAnnul
  <2> QED
    BY <1>4, <2>2, <2>3 DEF Shell
<1>5. CASE UNCHANGED vars \/ \E p \in Proposals : HandOver(p)
  BY <1>a, <1>b, <1>5 DEF vars, HandOver, Grants
<1> QED
  BY <1>1, <1>2, <1>3, <1>4, <1>5 DEF Next

\* The books are right in every behaviour of Kommons.
LEMMA BooksInvariant == Spec => []BooksInv
<1>1. Init => BooksInv
  <2> SUFFICES ASSUME Init PROVE BooksInv
    OBVIOUS
  <2>1. SettlementInv
    <3>1. TypeOK
      BY DEF Init, TypeOK, Nothing, Statuses
    <3>2. RefundState /\ GoneSwept /\ PaidOnClose
      BY DEF Init, RefundState, GoneSwept, PaidOnClose, TERMINAL_STATES
    <3> QED
      BY <3>1, <3>2 DEF SettlementInv
  <2>2. SumOf(Accounts, Nothing) = 0
    <3> DEFINE f == Nothing
    <3>1. \A x \in Accounts : f[x] = 0
      BY DEF Nothing
    <3> HIDE DEF f
    <3>2. SumOf(Accounts, f) = SumOf({}, f)
      BY <3>1, FiniteAssumption, SumZeroOutside
    <3> QED
      BY <3>2, SumNothing DEF f
  <2>3. \A p \in Proposals : raised[p] = SumOf(Accounts, backed[p])
    BY <2>2 DEF Init
  <2>4. ASSUME NEW a \in Accounts PROVE \E grant \in Grants(a) : Booked(a, grant)
    <3> DEFINE g == Gains(a)
               e == Earned(a)
    <3>1. \A p \in Proposals : g[p] = 0 /\ e[p] = 0
      BY DEF Init, Gains, Earned, Nothing
    <3>2. Grants(a) = {0} /\ balance[a] = 0
      BY DEF Init, Grants, Nothing
    <3>3. Booked(a, 0) <=> balance[a] = 0 + SumOf(Proposals, g) + SumOf(Proposals, e)
      BY DEF Booked
    <3> HIDE DEF g, e
    <3>4. SumOf(Proposals, g) = SumOf({}, g) /\ SumOf(Proposals, e) = SumOf({}, e)
      BY <3>1, FiniteAssumption, SumZeroOutside
    <3> QED
      BY <3>2, <3>3, <3>4, SumNothing
  <2> QED
    BY <2>1, <2>3, <2>4 DEF BooksInv
<1> QED
  BY <1>1, BooksInductive, PTL DEF Spec

\* TokenBalance#reconciles?, for any number of people, proposals and stakes: no
\* order of requests, shell commands and retried deletions makes a balance drift
\* from the grant, the stakes, the refunds and the payouts on record.
THEOREM EveryBalanceReconciles == Spec => []Reconciles
<1>1. ASSUME BooksInv PROVE Reconciles
  <2>1. \A p \in Proposals : raised[p] = SumOver(Accounts, backed[p])
    BY <1>1, SumOverIs DEF BooksInv
  <2>2. ASSUME NEW a \in Accounts
        PROVE  \E grant \in {0, StartingBalance} :
                 balance[a] = grant
                   + SumOver(Proposals, [p \in Proposals |-> refunded[p][a] - backed[p][a]])
                   + SumOver(Authored(a), payout)
    <3>1. PICK grant \in Grants(a) : Booked(a, grant)
      BY <1>1 DEF BooksInv
    <3>2. grant \in {0, StartingBalance}
      BY <3>1 DEF Grants
    <3>3. SumOf(Proposals, Earned(a)) = SumOf(Authored(a), payout)
      <4> DEFINE e == Earned(a)
                 T == Authored(a)
      <4>1. /\ \A p \in Proposals : e[p] \in Int
            /\ \A p \in Proposals \ T : e[p] = 0
            /\ \A p \in T : e[p] = payout[p]
            /\ T \in SUBSET Proposals
        BY <1>1 DEF Earned, Authored, BooksInv, SettlementInv, TypeOK
      <4>2. IsFiniteSet(T)
        BY <4>1, FiniteAssumption, FS_Subset
      <4> HIDE DEF e, T
      <4>3. SumOf(Proposals, e) = SumOf(T, e)
        BY <4>1, FiniteAssumption, SumZeroOutside
      <4>4. SumOf(T, e) = SumOf(T, payout)
        BY <4>1, <4>2, SumSame
      <4> QED
        BY <4>3, <4>4 DEF e, T
    <3>4. /\ SumOver(Authored(a), payout) = SumOf(Authored(a), payout)
          /\ SumOver(Proposals, Gains(a)) = SumOf(Proposals, Gains(a))
      BY SumOverIs
    <3>5. balance[a] = grant + SumOver(Proposals, Gains(a)) + SumOver(Authored(a), payout)
      BY <3>1, <3>3, <3>4 DEF Booked
    <3> QED
      BY <3>2, <3>5 DEF Gains
  <2> QED
    BY <2>1, <2>2 DEF Reconciles
<1> QED
  BY <1>1, BooksInvariant, PTL

--------------------------------------------------------------------------------
(* The wallet. *)

\* Stakes go home from an actioned proposal only when its proposer is leaving.
HomeByLeaver ==
  \A p \in Proposals :
    status[p] = "actioned" /\ refunded[p] # Nothing =>
      author[p] \in Accounts /\ account[author[p]] \in {"leaving", "gone"}

LEMMA HomeByLeaverInductive ==
  ASSUME SettlementInv, HomeByLeaver, [Next]_vars
  PROVE  HomeByLeaver'
<1>0. TypeOK /\ TypeOK'
  BY TypeInductive DEF SettlementInv
<1>q. ASSUME UNCHANGED refunded,
             \A p \in Proposals : status'[p] = "actioned" /\ status[p] # "actioned" => Backable(p),
             \A p \in Proposals : status[p] = "actioned" => author'[p] = author[p],
             \A a \in Accounts : account[a] \in {"leaving", "gone"} =>
                                   account'[a] \in {"leaving", "gone"}
      PROVE  HomeByLeaver'
  BY <1>q DEF HomeByLeaver, SettlementInv, RefundState, Nothing
<1>1. ASSUME NEW a \in Accounts, SignUp(a) PROVE HomeByLeaver'
  BY <1>0, <1>1, <1>q DEF SignUp, TypeOK
<1>2. ASSUME NEW a \in Accounts, NEW p \in Proposals, Request(a, p) PROVE HomeByLeaver'
  <2>1. CASE Create(a, p)
    BY <1>0, <1>q, <2>1 DEF Create, TypeOK
  <2>2. CASE \/ Claim(a, p) \/ Unclaim(a, p) \/ Join(a, p) \/ Leave(a, p)
             \/ MarkActioned(a, p) \/ AddTask(a, p) \/ ReopenTask(a, p)
             \/ TickTask(a, p) \/ \E n \in Stakes : Back(a, p, n)
    <3>1. /\ UNCHANGED <<refunded, account, author>>
          /\ \/ status' = status
             \/ Backable(p) /\ \E s \in Statuses : status' = [status EXCEPT ![p] = s]
      BY <2>2 DEF Claim, Unclaim, Join, Leave, MarkActioned, AddTask, ReopenTask,
                  TickTask, Back, Backable, ACTIVE_STATES, Statuses
    <3> QED
      BY <1>0, <1>q, <3>1 DEF TypeOK
  <2>3. CASE Close(a, p)
    <3>1. UNCHANGED <<account, author>> /\ status'[p] = "closed" /\ RefundAll(p)
      BY <1>0, <2>3 DEF Close, TypeOK
    <3>2. \A q \in Proposals \ {p} : status'[q] = status[q] /\ refunded'[q] = refunded[q]
      BY <1>0, <2>3, <3>1 DEF Close, RefundAll, TypeOK
    <3> QED
      BY <3>1, <3>2 DEF HomeByLeaver, Nothing
  <2> QED
    BY <1>2, <2>1, <2>2, <2>3 DEF Request
<1>3. ASSUME NEW p \in Proposals, Annul(p), UNCHANGED account PROVE HomeByLeaver'
  <2>1. UNCHANGED author /\ status'[p] = "annulled" /\ RefundAll(p)
    BY <1>0, <1>3 DEF Annul, TypeOK
  <2>2. \A q \in Proposals \ {p} : status'[q] = status[q] /\ refunded'[q] = refunded[q]
    BY <1>0, <1>3, <2>1 DEF Annul, RefundAll, TypeOK
  <2> QED
    BY <1>3, <2>1, <2>2 DEF HomeByLeaver, Nothing
<1>4. ASSUME NEW a \in Accounts, Deletion(a) PROVE HomeByLeaver'
  <2>1. CASE RequestDeletion(a) \/ RetryDeletion(a) \/ FinishDeletion(a)
    BY <1>0, <1>q, <2>1 DEF RequestDeletion, RetryDeletion, FinishDeletion, SignedIn, TypeOK
  <2>2. ASSUME NEW p \in Proposals, Settle(a, p) PROVE HomeByLeaver'
    <3>1. UNCHANGED account /\ account[a] = "leaving" /\ author[p] = a
      BY <2>2 DEF Settle, Authored
    <3>2. CASE SettleActive(a, p)
      BY <1>3, <3>1, <3>2 DEF SettleActive
    <3>3. CASE SettleActioned(a, p)
      <4>1. /\ UNCHANGED <<author, status>> /\ RefundAll(p)
        BY <3>3 DEF SettleActioned
      <4>2. \A q \in Proposals \ {p} : refunded'[q] = refunded[q]
        BY <1>0, <4>1 DEF RefundAll, TypeOK
      <4> QED
        BY <3>1, <4>1, <4>2 DEF HomeByLeaver, Nothing
    <3>4. CASE SettleTerminal(a, p)
      BY <1>q, <3>1, <3>4 DEF SettleTerminal
    <3> QED
      BY <2>2, <3>2, <3>3, <3>4 DEF Settle
  <2> QED
    BY <1>4, <2>1, <2>2 DEF Deletion
<1>5. ASSUME NEW p \in Proposals, Shell(p) PROVE HomeByLeaver'
  <2>1. CASE ShellAction(p)
    BY <1>0, <1>q, <2>1 DEF ShellAction, Backable, TypeOK
  <2>2. CASE ShellAnnul(p)
    BY <1>3, <2>2 DEF ShellAnnul
  <2> QED
    BY <1>5, <2>1, <2>2 DEF Shell
<1>6. CASE UNCHANGED vars \/ \E p \in Proposals : HandOver(p)
  BY <1>q, <1>6 DEF vars, HandOver
<1> QED
  BY <1>1, <1>2, <1>4, <1>5, <1>6 DEF Next

\* While the authors of what they backed stay, the total the wallet shows someone
\* is what they own: their balance and everything still owed to them.
THEOREM WalletRight == Spec => []WalletRightWhileAuthorsStay
<1>1. Init => HomeByLeaver
  BY DEF Init, HomeByLeaver
<1>2. ASSUME SettlementInv, HomeByLeaver PROVE WalletRightWhileAuthorsStay
  <2> SUFFICES ASSUME NEW a \in Accounts,
                      \A p \in Proposals : backed[p][a] > 0 => account[author[p]] = "member"
               PROVE  WalletTotal(a) = balance[a]
                        + SumOver(Proposals, [p \in Proposals |-> Owed(p, a)])
    BY DEF WalletRightWhileAuthorsStay
  <2>t. TypeOK /\ \A p \in Proposals : backed[p][a] \in Nat /\ refunded[p][a] \in Nat
    BY <1>2 DEF SettlementInv, TypeOK
  <2> DEFINE T == {p \in Proposals : status[p] \notin TERMINAL_STATES}
             o == [p \in Proposals |-> Owed(p, a)]
             b == [p \in Proposals |-> backed[p][a]]
  <2>1. ASSUME NEW p \in Proposals PROVE o[p] = (IF p \in T THEN b[p] ELSE 0)
    <3>1. CASE p \notin T
      <4>1. refunded[p] = backed[p]
        BY <1>2, <3>1 DEF SettlementInv, RefundState
      <4> QED
        BY <2>t, <3>1, <4>1 DEF Owed
    <3>2. CASE p \in T /\ refunded[p] = Nothing
      <4>1. refunded[p][a] = 0
        BY <3>2 DEF Nothing
      <4> QED
        BY <2>t, <3>2, <4>1 DEF Owed
    <3>3. CASE p \in T /\ refunded[p] # Nothing
      <4>1. status[p] = "actioned"
        BY <1>2, <2>t, <3>3
           DEF SettlementInv, RefundState, Backable, TypeOK, Statuses, ACTIVE_STATES, T
      <4>2. ~(backed[p][a] > 0)
        BY <1>2, <3>3, <4>1 DEF HomeByLeaver
      <4> QED
        BY <2>t, <3>3, <4>2 DEF Owed
    <3> QED
      BY <3>1, <3>2, <3>3
  <2>2. T \in SUBSET Proposals /\ \A p \in Proposals : b[p] \in Int
    BY <2>t
  <2>3. SumOver(T, b) = SumOver(Proposals, o)
    <3> HIDE DEF T, o, b
    <3>1. IsFiniteSet(T) /\ \A p \in Proposals : o[p] \in Int
      BY <2>1, <2>2, FiniteAssumption, FS_Subset
    <3>2. \A p \in Proposals \ T : o[p] = 0
      BY <2>1
    <3>3. SumOf(Proposals, o) = SumOf(T, o)
      BY <2>2, <3>1, <3>2, FiniteAssumption, SumZeroOutside
    <3>4. SumOf(T, o) = SumOf(T, b)
      BY <2>1, <2>2, <3>1, SumSame
    <3> QED
      BY <3>3, <3>4, SumOverIs
  <2> QED
    BY <2>3 DEF WalletTotal, WalletStaked
<1>3. SettlementInv /\ HomeByLeaver /\ [Next]_vars => HomeByLeaver'
  BY HomeByLeaverInductive
<1> QED
  BY <1>1, <1>2, <1>3, SettlementInvariant, PTL DEF Spec

--------------------------------------------------------------------------------
(* The order of a crew. *)

\* What a step may do to the crew of p.
CrewKeptAt(p) ==
  /\ status[p] \notin ACTIVE_STATES => claimant'[p] = claimant[p]
  /\ heir'[p] \notin {heir[p], NoOne} =>
       heir'[p] \in Joined(p) /\ \A a \in Joined(p) : ~Earlier(joins[p], a, heir'[p])
  /\ Passes(p) =>
       claimant'[p] = heir[p] /\ \A a \in Joined(p) : ~Earlier(joins[p], a, heir[p])
  /\ claimant[p] # NoOne /\ claimant'[p] = NoOne => Joined(p) = {}
  /\ \A a \in Accounts, b \in Joined(p) :
       Earlier(joins'[p], a, b) => Earlier(joins[p], a, b)

\* Taking somebody out of a crew moves nobody ahead of another.
LEMMA WithoutKeepsOrder ==
  ASSUME NEW s \in Seq(Accounts), NEW i \in 1..Len(s), NEW a, NEW b,
         Earlier(Without(s, i), a, b)
  PROVE  Earlier(s, a, b)
<1> DEFINE w == Without(s, i)
<1>1. /\ Len(s) \in Nat /\ Len(w) = Len(s) - 1
      /\ \A j \in 1..(Len(s) - 1) : w[j] = IF j < i THEN s[j] ELSE s[j + 1]
  <2>1. Len(s) \in Nat
    OBVIOUS
  <2> QED
    BY <2>1, WithoutType
<1>2. PICK k \in 1..Len(w), l \in 1..Len(w) : k < l /\ w[k] = a /\ w[l] = b
  BY DEF Earlier
<1> HIDE DEF w
<1> DEFINE at(j) == IF j < i THEN j ELSE j + 1
<1>3. /\ at(k) \in 1..Len(s) /\ at(l) \in 1..Len(s) /\ at(k) < at(l)
      /\ s[at(k)] = a /\ s[at(l)] = b
  BY <1>1, <1>2
<1> QED
  BY <1>3 DEF Earlier

\* Whoever comes and goes in between, a claim goes to who had joined first, past nobody
\* before them who is still there, nobody is moved ahead of another, and what is decided
\* keeps its builder.
THEOREM CrewHandsOverInOrder == Spec => CrewKept
<1>q. ASSUME UNCHANGED <<claimant, joins, heir>>, NEW p \in Proposals PROVE CrewKeptAt(p)
  BY <1>q DEF CrewKeptAt, Passes
<1>r. ASSUME TypeOK, NEW p \in Proposals, NEW b, Removed(b, p), NEW q \in Proposals,
             NEW c, NEW d, Earlier(joins'[q], c, d)
      PROVE  Earlier(joins[q], c, d)
  <2>1. CASE q # p
    BY <1>r, <2>1 DEF Removed, TypeOK
  <2>2. CASE q = p
    <3>1. PICK i \in 1..Len(joins[p]) : joins'[p] = Without(joins[p], i)
      BY <1>r DEF Removed, TypeOK
    <3>2. joins[p] \in Seq(Accounts)
      BY <1>r DEF TypeOK
    <3> QED
      BY <1>r, <2>2, <3>1, <3>2, WithoutKeepsOrder
  <2> QED
    BY <2>1, <2>2
<1>1. ASSUME TypeOK, CrewConsistent, HeirInOrder, Next, NEW q \in Proposals
      PROVE  CrewKeptAt(q)
  <2>0. \A p \in Proposals : joins[p] \in Seq(Accounts)
    BY <1>1 DEF TypeOK
  <2>1. ASSUME NEW a \in Accounts, SignUp(a) \/ Deletion(a) PROVE CrewKeptAt(q)
    BY <1>q, <2>1 DEF SignUp, Deletion, RequestDeletion, RetryDeletion, FinishDeletion,
                      Settle, SettleActive, Annul, SettleActioned, SettleTerminal
  <2>2. ASSUME NEW p \in Proposals, Shell(p) PROVE CrewKeptAt(q)
    BY <1>q, <2>2 DEF Shell, ShellAction, ShellAnnul, Annul
  <2>3. ASSUME NEW a \in Accounts, NEW p \in Proposals, Request(a, p)
        PROVE  CrewKeptAt(q)
    <3>1. CASE \/ Create(a, p) \/ MarkActioned(a, p) \/ Close(a, p) \/ AddTask(a, p)
               \/ ReopenTask(a, p) \/ TickTask(a, p) \/ \E n \in Stakes : Back(a, p, n)
      BY <1>q, <3>1 DEF Create, MarkActioned, Close, AddTask, ReopenTask, TickTask, Back
    <3>2. CASE Claim(a, p)
      <4>1. /\ claimant' = [claimant EXCEPT ![p] = a] /\ UNCHANGED <<joins, heir>>
            /\ status[p] = "open" /\ claimant[p] = NoOne
        BY <1>1, <3>2 DEF Claim, CrewConsistent
      <4>2. CASE q = p
        BY <1>1, <4>1, <4>2 DEF CrewKeptAt, Passes, TypeOK, ACTIVE_STATES
      <4>3. CASE q # p
        BY <1>1, <4>1, <4>3 DEF CrewKeptAt, Passes, TypeOK
      <4> QED
        BY <4>2, <4>3
    <3>3. CASE Unclaim(a, p)
      <4>1. CASE q # p
        <5>1. claimant'[q] = claimant[q] /\ joins'[q] = joins[q] /\ heir'[q] = heir[q]
          BY <1>1, <3>3, <4>1 DEF Unclaim, PickHeir, TypeOK
        <5> QED
          BY <5>1 DEF CrewKeptAt, Passes
      <4>2. CASE q = p /\ joins[p] = <<>>
        <5>1. /\ status[p] \in ACTIVE_STATES /\ Joined(p) = {} /\ claimant'[p] = NoOne
              /\ UNCHANGED <<heir, joins>>
          BY <1>1, <3>3, <4>2 DEF Unclaim, Joined, TypeOK, ACTIVE_STATES
        <5> QED
          BY <4>2, <5>1 DEF CrewKeptAt, Passes
      <4>3. CASE q = p /\ joins[p] # <<>>
        <5> DEFINE s == joins[p]
        <5>1. UNCHANGED <<claimant, joins>> /\ heir'[p] = Head(s)
          BY <1>1, <3>3, <4>3 DEF Unclaim, PickHeir, TypeOK
        <5>2. Len(s) \in Nat \ {0} /\ Head(s) = s[1]
          BY <2>0, <4>3
        <5>3. \A i, j \in 1..Len(s) : s[i] = s[j] => i = j
          BY <1>1 DEF CrewConsistent
        <5>4. Head(s) \in Joined(p)
          BY <5>2 DEF Joined
        <5>5. ASSUME NEW b PROVE ~Earlier(s, b, Head(s))
          <6> SUFFICES ASSUME NEW i \in 1..Len(s), NEW j \in 1..Len(s), i < j, s[j] = Head(s)
                       PROVE  FALSE
            BY DEF Earlier
          <6>1. j = 1
            BY <5>2, <5>3
          <6> QED
            BY <5>2, <6>1
        <5> HIDE DEF s
        <5> QED
          BY <4>3, <5>1, <5>4, <5>5 DEF CrewKeptAt, Passes, s
      <4> QED
        BY <4>1, <4>2, <4>3
    <3>4. CASE Join(a, p)
      <4>1. /\ UNCHANGED <<claimant, heir>> /\ joins' = [joins EXCEPT ![p] = Append(@, a)]
            /\ a \notin Joined(p)
        BY <3>4 DEF Join
      <4>2. CASE q # p
        BY <1>1, <4>1, <4>2 DEF CrewKeptAt, Passes, TypeOK
      <4>3. CASE q = p
        <5> DEFINE s == joins[p]
        <5>1. /\ joins'[p] = Append(s, a) /\ Len(s) \in Nat
              /\ Len(Append(s, a)) = Len(s) + 1
              /\ Append(s, a)[Len(s) + 1] = a
              /\ \A j \in 1..Len(s) : Append(s, a)[j] = s[j]
          BY <1>1, <2>0, <4>1 DEF TypeOK
        <5>2. ASSUME NEW b, NEW c \in Joined(p), Earlier(Append(s, a), b, c)
              PROVE  Earlier(s, b, c)
          <6>1. PICK i \in 1..Len(Append(s, a)), j \in 1..Len(Append(s, a)) :
                  i < j /\ Append(s, a)[i] = b /\ Append(s, a)[j] = c
            BY <5>2 DEF Earlier
          <6>2. j # Len(s) + 1
            BY <4>1, <5>1, <6>1
          <6>3. i \in 1..Len(s) /\ j \in 1..Len(s) /\ s[i] = b /\ s[j] = c
            BY <5>1, <6>1, <6>2
          <6> QED
            BY <6>1, <6>3 DEF Earlier
        <5> HIDE DEF s
        <5> QED
          BY <4>1, <4>3, <5>1, <5>2 DEF CrewKeptAt, Passes, s
      <4> QED
        BY <4>2, <4>3
    <3>5. CASE Leave(a, p)
      BY <1>1, <1>r, <3>5 DEF Leave, CrewKeptAt, Passes
    <3> QED
      BY <2>3, <3>1, <3>2, <3>3, <3>4, <3>5 DEF Request
  <2>4. ASSUME NEW p \in Proposals, HandOver(p) PROVE CrewKeptAt(q)
    <3>1. /\ heir[p] # NoOne /\ claimant'[p] = heir[p] /\ heir'[p] = NoOne
          /\ \A r \in Proposals \ {p} : claimant'[r] = claimant[r] /\ heir'[r] = heir[r]
      BY <1>1, <2>4 DEF HandOver, TypeOK
    <3>2. \A b \in Accounts, c \in Joined(q) :
            Earlier(joins'[q], b, c) => Earlier(joins[q], b, c)
      BY <1>1, <1>r, <2>4 DEF HandOver
    <3>3. CASE q # p
      BY <3>1, <3>2, <3>3 DEF CrewKeptAt, Passes
    <3>4. CASE q = p
      <4>1. /\ status[p] \in ACTIVE_STATES
            /\ \A i \in 1..Len(joins[p]) : joins[p][i] = heir[p] => i = 1
        BY <1>1, <3>1 DEF HeirInOrder, ACTIVE_STATES
      <4>2. ASSUME NEW b PROVE ~Earlier(joins[p], b, heir[p])
        <5> SUFFICES ASSUME NEW i \in 1..Len(joins[p]), NEW j \in 1..Len(joins[p]), i < j,
                            joins[p][j] = heir[p]
                     PROVE  FALSE
          BY DEF Earlier
        <5>1. j = 1
          BY <4>1
        <5> QED
          BY <5>1
      <4> QED
        BY <3>1, <3>2, <3>4, <4>1, <4>2 DEF CrewKeptAt
    <3> QED
      BY <3>3, <3>4
  <2> QED
    BY <1>1, <2>1, <2>2, <2>3, <2>4 DEF Next
<1>2. TypeOK /\ CrewConsistent /\ HeirInOrder /\ [Next]_vars
        => [\A p \in Proposals : CrewKeptAt(p)]_vars
  BY <1>1
<1> QED
  BY <1>2, TypeCorrect, CrewInvariant, PTL DEF Spec, CrewKept, CrewKeptAt

--------------------------------------------------------------------------------
(* The handing over of finished work, however the requests of TaskHandover interleave. *)

\* While the proposal is on the board no request has seen it elsewhere, and nobody was told.
Fresh ==
  proposalStatus = "active" =>
    /\ \A r \in Requests : cached[r] = "active"
    /\ notices = 0

\* Whoever tipped a proposal still on the board is on the way to hand it over.
TipperOnTheWay ==
  AllDone(task) /\ tipper \notin {Proposer, Nobody} /\ proposalStatus = "active" =>
    \E r \in Requests : pc[r] \in {"check", "action"} /\ r.by = tipper

HandoverInv == HandoverTypes /\ Fresh /\ ToldOnce /\ TipperOnTheWay

LEMMA InitHandover == HandoverInit => HandoverInv
<1> SUFFICES ASSUME HandoverInit PROVE HandoverInv
  OBVIOUS
<1>1. HandoverTypes
  BY GivenAssumption DEF HandoverInit, HandoverTypes, Nobody
<1>2. Fresh /\ ToldOnce
  BY DEF HandoverInit, Fresh, ToldOnce
<1>3. TipperOnTheWay
  BY DEF HandoverInit, TipperOnTheWay, Nobody
<1> QED
  BY <1>1, <1>2, <1>3 DEF HandoverInv

\* What each step of a request keeps.
LEMMA StepHandover == HandoverInv /\ [HandoverNext]_handoverVars => HandoverInv'
<1> SUFFICES ASSUME HandoverInv, [HandoverNext]_handoverVars PROVE HandoverInv'
  OBVIOUS
<1> USE DEF HandoverInv
<1>1. ASSUME NEW r \in Requests, Load(r) PROVE HandoverInv'
  <2>1. HandoverTypes'
    BY <1>1, RequestsAssumption DEF Load, Goto, HandoverTypes
  <2>2. Fresh' /\ ToldOnce'
    BY <1>1 DEF Load, Fresh, ToldOnce, HandoverTypes
  <2>3. TipperOnTheWay'
    BY <1>1 DEF Load, Goto, TipperOnTheWay, AllDone, HandoverTypes
  <2> QED
    BY <2>1, <2>2, <2>3
<1>2. ASSUME NEW r \in Requests, Save(r) PROVE HandoverInv'
  <2>1. HandoverTypes'
    BY <1>2, RequestsAssumption DEF Save, Saved, Wanted, Goto, HandoverTypes
  <2>2. Fresh' /\ ToldOnce'
    BY <1>2 DEF Save, Fresh, ToldOnce
  <2>3. TipperOnTheWay'
    <3>1. CASE loaded[r] = Wanted(r)
      BY <1>2, <3>1 DEF Save, Goto, TipperOnTheWay, AllDone, HandoverTypes
    <3>2. CASE loaded[r] # Wanted(r) /\ r.kind = "tick"
      BY <1>2, <3>2 DEF Save, Saved, Goto, TipperOnTheWay, HandoverTypes
    <3>3. CASE loaded[r] # Wanted(r) /\ r.kind # "tick"
      <4>1. task'[r.task] = "todo" /\ r.task \in Tasks
        BY <1>2, <3>3, RequestsAssumption DEF Save, Saved, Wanted, HandoverTypes
      <4> QED
        BY <4>1 DEF TipperOnTheWay, AllDone
    <3> QED
      BY <3>1, <3>2, <3>3
  <2> QED
    BY <2>1, <2>2, <2>3
<1>3. ASSUME NEW r \in Requests, Add(r) PROVE HandoverInv'
  <2>1. HandoverTypes'
    BY <1>3, RequestsAssumption DEF Add, Goto, HandoverTypes
  <2>2. Fresh' /\ ToldOnce'
    BY <1>3 DEF Add, Fresh, ToldOnce
  <2>3. TipperOnTheWay'
    <3>1. CASE AllDone(task) /\ r.kind = "add done"
      <4>1. /\ UNCHANGED <<tipper, proposalStatus>> /\ pc[r] = "start"
            /\ \A q \in Requests \ {r} : pc'[q] = pc[q]
        BY <1>3, <3>1 DEF Add, Goto, HandoverTypes
      <4> QED
        BY <3>1, <4>1 DEF TipperOnTheWay
    <3>2. CASE ~(AllDone(task) /\ r.kind = "add done")
      BY <1>3, <3>2 DEF Add, TipperOnTheWay
    <3> QED
      BY <3>1, <3>2
  <2> QED
    BY <2>1, <2>2, <2>3
<1>4. ASSUME NEW r \in Requests, Check(r) PROVE HandoverInv'
  <2>1. HandoverTypes'
    BY <1>4 DEF Check, Goto, HandoverTypes
  <2>2. Fresh' /\ ToldOnce'
    BY <1>4 DEF Check, Fresh, ToldOnce
  <2>3. TipperOnTheWay'
    BY <1>4 DEF Check, Goto, TipperOnTheWay, Fresh, AllDone, HandoverTypes
  <2> QED
    BY <2>1, <2>2, <2>3
<1>5. ASSUME NEW r \in Requests, Action(r) PROVE HandoverInv'
  <2>1. HandoverTypes'
    BY <1>5 DEF Action, Goto, HandoverTypes
  <2>2. proposalStatus' # "active"
    BY <1>5 DEF Action
  <2>3. ToldOnce'
    BY <1>5 DEF Action, Fresh, ToldOnce
  <2> QED
    BY <2>1, <2>2, <2>3 DEF Fresh, TipperOnTheWay
<1>6. CASE Decide
  <2>1. HandoverTypes' /\ proposalStatus' # "active" /\ ToldOnce'
    BY <1>6 DEF Decide, HandoverTypes, ToldOnce
  <2> QED
    BY <2>1 DEF Fresh, TipperOnTheWay
<1>7. CASE UNCHANGED handoverVars
  BY <1>7 DEF handoverVars, HandoverTypes, Fresh, ToldOnce, TipperOnTheWay, AllDone
<1> QED
  BY <1>1, <1>2, <1>3, <1>4, <1>5, <1>6, <1>7 DEF HandoverNext

LEMMA AlwaysHandover == HandoverSpec => []HandoverInv
<1> QED
  BY InitHandover, StepHandover, PTL DEF HandoverSpec

\* TasksController's handover: finished work is never forgotten on the board, whoever ticks
\* the last tasks at once and whatever is reopened or added meanwhile.
THEOREM NoHandoverIsLost == HandoverSpec => []NoLostHandover
<1>1. HandoverInv => NoLostHandover
  BY DEF HandoverInv, TipperOnTheWay, NoLostHandover, Running
<1> QED
  BY <1>1, AlwaysHandover, PTL

\* TasksController's notice: the proposer is told once, however many find the work complete.
THEOREM ProposerToldOnce == HandoverSpec => []ToldOnce
<1>1. HandoverInv => ToldOnce
  BY DEF HandoverInv
<1> QED
  BY <1>1, AlwaysHandover, PTL
================================================================================
