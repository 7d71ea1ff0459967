------------------------------ MODULE TaskHandover ------------------------------
(***************************************************************************)
(* Ticking the last task of a proposal hands it to its proposer            *)
(* (TasksController).                                                      *)
(*                                                                         *)
(* The request loads the task, saves it, asks whether every task is done   *)
(* and only then actions the proposal: four steps with nothing locked      *)
(* between them, so they interleave with other requests on the same        *)
(* proposal.  Only ProposalStates.action! itself takes the proposal's row. *)
(***************************************************************************)
EXTENDS Integers

CONSTANTS
  Tasks,      \* tasks the proposal may have
  Given,      \* the tasks it has at first, all to do
  Proposer,   \* who proposed it
  Requests    \* the requests of the run: [kind, by, task, no]

Kinds == {"tick", "reopen", "add", "add done"}

ASSUME GivenAssumption == Given \subseteq Tasks
ASSUME RequestsAssumption ==
  \A r \in Requests : r.kind \in Kinds /\ r.task \in Tasks

VARIABLES
  proposalStatus, \* "active" (open or claimed), "actioned", "over"
  task,      \* each task: "none", "todo" (open or in progress) or "done"
  pc,        \* where each request is
  loaded,    \* the task as set_task loaded it
  cached,    \* the proposal's status as the task's association cached it
  notices,   \* notices the proposer got that the proposal is actioned
  tipper     \* who last changed a task so that all were done

handoverVars == <<proposalStatus, task, pc, loaded, cached, notices, tipper>>

Nobody == "nobody"
AllDone(t) == /\ \E k \in Tasks : t[k] # "none"
              /\ \A k \in Tasks : t[k] # "todo"

HandoverInit ==
  /\ proposalStatus = "active"
  /\ task = [k \in Tasks |-> IF k \in Given THEN "todo" ELSE "none"]
  /\ pc = [r \in Requests |-> "start"]
  /\ loaded = [r \in Requests |-> "none"]
  /\ cached = [r \in Requests |-> "active"]
  /\ notices = 0
  /\ tipper = Nobody

Goto(r, where) == pc' = [pc EXCEPT ![r] = where]

\* What a save leaves behind: who tipped the list to done, if it is done now.
Saved(r, k, s) ==
  /\ task' = [task EXCEPT ![k] = s]
  /\ tipper' = IF AllDone(task') THEN r.by ELSE Nobody

\* set_task, and the proposal it loads to check the caller.
Load(r) ==
  /\ pc[r] = "start" /\ r.kind \in {"tick", "reopen"}
  /\ task[r.task] # "none"
  /\ loaded' = [loaded EXCEPT ![r] = task[r.task]]
  /\ cached' = [cached EXCEPT ![r] = proposalStatus]
  /\ Goto(r, "save")
  /\ UNCHANGED <<proposalStatus, task, notices, tipper>>

\* The status the form asks for.
Wanted(r) == IF r.kind = "tick" THEN "done" ELSE "todo"

\* Task.update: nothing is written, and no handover considered, when the status is
\* what was loaded.
Save(r) ==
  /\ pc[r] = "save"
  /\ IF loaded[r] = Wanted(r) THEN UNCHANGED <<task, tipper>>
     ELSE Saved(r, r.task, Wanted(r))
  /\ Goto(r, IF loaded[r] # Wanted(r) /\ r.kind = "tick" THEN "check" ELSE "end")
  /\ UNCHANGED <<proposalStatus, loaded, cached, notices>>

\* A new task is to do, or done already if its form says so, in whatever state the
\* proposal is; no handover is considered.
Add(r) ==
  /\ pc[r] = "start" /\ r.kind \in {"add", "add done"}
  /\ task[r.task] = "none"
  /\ task' = [task EXCEPT ![r.task] = IF r.kind = "add" THEN "todo" ELSE "done"]
  /\ tipper' = IF AllDone(task) /\ r.kind = "add done" THEN tipper ELSE Nobody
  /\ Goto(r, "end")
  /\ UNCHANGED <<proposalStatus, loaded, cached, notices>>

\* Altered (for the NoLostHandover mutant): the check is made in the transaction of
\* the save, so another request's save is still to do until that request has ended.
CheckBeforeCommit(r) ==
  /\ pc[r] = "check"
  /\ Goto(r, IF /\ cached[r] = "active" /\ AllDone(task) /\ r.by # Proposer
                /\ \A q \in Requests \ {r} : pc[q] \notin {"check", "action"}
             THEN "action" ELSE "end")
  /\ UNCHANGED <<proposalStatus, task, loaded, cached, notices, tipper>>

\* action_proposal_if_work_complete: the cached status, the tasks as they are now.
Check(r) ==
  /\ pc[r] = "check"
  /\ Goto(r, IF cached[r] = "active" /\ AllDone(task) /\ r.by # Proposer
             THEN "action" ELSE "end")
  /\ UNCHANGED <<proposalStatus, task, loaded, cached, notices, tipper>>

\* Altered (for the ToldOnce mutant): the state is not checked again under the lock.
ActionUnchecked(r) ==
  /\ pc[r] = "action"
  /\ proposalStatus' = "actioned" /\ notices' = notices + 1
  /\ Goto(r, "end")
  /\ UNCHANGED <<task, loaded, cached, tipper>>

\* ProposalStates.action! under the lock; InvalidTransition is logged.
Action(r) ==
  /\ pc[r] = "action"
  /\ IF proposalStatus = "active"
     THEN proposalStatus' = "actioned" /\ notices' = notices + 1
     ELSE UNCHANGED <<proposalStatus, notices>>
  /\ Goto(r, "end")
  /\ UNCHANGED <<task, loaded, cached, tipper>>

\* The shell annuls the proposal, or its proposer closes it once actioned.
Decide ==
  /\ proposalStatus \in {"active", "actioned"}
  /\ proposalStatus' = "over"
  /\ UNCHANGED <<task, pc, loaded, cached, notices, tipper>>

HandoverNext ==
  \/ \E r \in Requests : Load(r) \/ Save(r) \/ Add(r) \/ Check(r) \/ Action(r)
  \/ Decide

HandoverSpec == HandoverInit /\ [][HandoverNext]_handoverVars

--------------------------------------------------------------------------------
(* Properties. *)

\* Every variable has its type.
HandoverTypes ==
  /\ proposalStatus \in {"active", "actioned", "over"}
  /\ task \in [Tasks -> {"none", "todo", "done"}]
  /\ pc \in [Requests -> {"start", "save", "check", "action", "end"}]
  /\ loaded \in [Requests -> {"none", "todo", "done"}]
  /\ cached \in [Requests -> {"active", "actioned", "over"}]
  /\ notices \in Nat
  /\ tipper \in {r.by : r \in Requests} \cup {Nobody}

Running(r) == pc[r] \in {"save", "check", "action"}

\* Finished work is never forgotten: when somebody other than the proposer changed the
\* task that made all done, and no request is on its way, the proposal is no longer
\* on the board.  Two people ticking the last two tasks at once cannot each see the
\* other's still to do.
NoLostHandover ==
  AllDone(task) /\ tipper \notin {Proposer, Nobody} /\ (\A r \in Requests : ~Running(r))
    => proposalStatus # "active"

\* So no list that stewards alone have worked on stays on the board finished.  Not kept:
\* create considers no handover, so a list that is done from its first task stays there.
FinishedByOthers ==
  AllDone(task) /\ (\A r \in Requests : r.by # Proposer /\ pc[r] = "end")
    => proposalStatus # "active"

\* TasksController: "one signal, not two": however many requests find the work
\* complete at once, the proposer is told once.
ToldOnce == notices <= 1

\* TasksController: the "guards ensure we only action an open (or claimed) proposal
\* whose work is actually finished".
WorkFinishedWhenActioned ==
  [][proposalStatus = "active" /\ proposalStatus' = "actioned" => AllDone(task)]_handoverVars
================================================================================
