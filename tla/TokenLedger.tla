------------------------------ MODULE TokenLedger ------------------------------
(***************************************************************************)
(* What the Kommons token economy promises, without saying how.            *)
(*                                                                         *)
(* An account has a purse.  While a proposal takes backing, tokens can     *)
(* move from a purse into the proposal's escrow, never back out.  A        *)
(* proposal stops taking backing once, for good.  Escrow leaves a proposal *)
(* only to the account that put it there: all of it when the proposal is   *)
(* released or completed, one backer at a time when its proposer has gone. *)
(* Completion also pays the proposer, once, from outside the ledger.       *)
(*                                                                         *)
(* Kommons (one action per request) and TokenSettlement (one action per    *)
(* database step) are both shown to implement this module.                 *)
(***************************************************************************)
EXTENDS Integers

CONSTANTS Accounts, Proposals

VARIABLES
  purse,     \* tokens an account can spend
  escrow,    \* escrow[p][a]: a's tokens held by p
  raised,    \* raised[p]: all that was ever staked on p
  phase      \* "taking" backing, "held" for the proposer's word, "done"

ledgerVars == <<purse, escrow, raised, phase>>

NoEscrow == [a \in Accounts |-> 0]

\* max(1, floor(total / 10)).
Reward(total) == IF total \div 10 > 1 THEN total \div 10 ELSE 1

LedgerInit ==
  /\ purse \in [Accounts -> Nat]
  /\ escrow = [p \in Proposals |-> NoEscrow]
  /\ raised = [p \in Proposals |-> 0]
  /\ phase = [p \in Proposals |-> "taking"]

Issue(a) ==
  /\ purse' = [purse EXCEPT ![a] = purse'[a]]
  /\ purse'[a] \in Nat /\ purse'[a] > purse[a]
  /\ UNCHANGED <<escrow, raised, phase>>

Stake(a, p) ==
  /\ phase[p] = "taking"
  /\ \E n \in 1..purse[a] :
       /\ purse' = [purse EXCEPT ![a] = @ - n]
       /\ escrow' = [escrow EXCEPT ![p][a] = @ + n]
       /\ raised' = [raised EXCEPT ![p] = @ + n]
  /\ UNCHANGED phase

Hold(p) ==
  /\ phase[p] = "taking"
  /\ phase' = [phase EXCEPT ![p] = "held"]
  /\ UNCHANGED <<purse, escrow, raised>>

\* Everyone's escrow in p goes home at once, and nobody is paid.
Release(p) ==
  /\ phase[p] = "taking"
  /\ phase' = [phase EXCEPT ![p] = "done"]
  /\ purse' = [a \in Accounts |-> purse[a] + escrow[p][a]]
  /\ escrow' = [escrow EXCEPT ![p] = NoEscrow]
  /\ UNCHANGED raised

\* Everyone's escrow in p goes home at once, and payee gets the reward.
Complete(p, payee) ==
  /\ phase[p] = "held"
  /\ phase' = [phase EXCEPT ![p] = "done"]
  /\ purse' = [a \in Accounts |->
                 purse[a] + escrow[p][a] +
                   (IF a = payee THEN Reward(raised[p]) ELSE 0)]
  /\ escrow' = [escrow EXCEPT ![p] = NoEscrow]
  /\ UNCHANGED raised

\* The proposer of a held proposal has gone: some backers get their escrow back.
SendHome(p, backers) ==
  /\ phase[p] = "held"
  /\ purse' = [a \in Accounts |->
                 purse[a] + (IF a \in backers THEN escrow[p][a] ELSE 0)]
  /\ escrow' = [escrow EXCEPT ![p] =
                  [a \in Accounts |-> IF a \in backers THEN 0 ELSE @[a]]]
  /\ UNCHANGED <<raised, phase>>

LedgerNext ==
  \/ \E a \in Accounts : Issue(a)
  \/ \E a \in Accounts, p \in Proposals : Stake(a, p)
  \/ \E p \in Proposals : Hold(p) \/ Release(p)
  \/ \E p \in Proposals, payee \in Accounts : Complete(p, payee)
  \/ \E p \in Proposals, backers \in SUBSET Accounts : SendHome(p, backers)

LedgerSpec == LedgerInit /\ [][LedgerNext]_ledgerVars
================================================================================
