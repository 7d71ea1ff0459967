--------------------------- MODULE MCTokenSettlement ---------------------------
(* The jobs of the runs of TokenSettlement. *)
EXTENDS TokenSettlement, TLC

Job(op, who, p, amount) == [op |-> op, who |-> who, prop |-> p, amount |-> amount]

\* Account 1 proposed 1, account 2 proposed 2.
OwnAuthor == 1 :> 1 @@ 2 :> 2

\* Account 1 proposed both.
OneAuthor == 1 :> 1 @@ 2 :> 1

\* Account 1 stakes more than it has on two proposals; both are backed by account 2;
\* proposal 1 is closed by two requests at once; proposal 2 is annulled by the shell
\* meanwhile, and may wait for a close that waits for it.
RequestJobs ==
  {Job("back", 2, 1, 20), Job("back", 2, 2, 10), Job("back", 1, 2, 10), Job("back", 1, 1, 25),
   Job("action", 2, 1, 0), Job("close", 1, 1, 0), Job("close", 1, 1, 1), Job("annul", 2, 2, 0)}

\* Two people back each other's proposals and close their own.
CrossJobs ==
  {Job("back", 2, 1, 20), Job("back", 1, 2, 20), Job("action", 2, 1, 0),
   Job("action", 1, 2, 0), Job("close", 1, 1, 0), Job("close", 2, 2, 0)}

\* The proposer of both proposals deletes their account, while one is actioned and
\* the other backed and annulled under the worker's feet.
DeletionJobs ==
  {Job("back", 2, 1, 20), Job("action", 2, 1, 0), Job("back", 2, 2, 10),
   Job("annul", 2, 2, 0), Job("delete", 1, 1, 0)}

\* The proposer closes an actioned proposal and deletes their account at once.
LastCloseJobs ==
  {Job("back", 2, 1, 20), Job("action", 2, 1, 0), Job("close", 1, 1, 0),
   Job("delete", 1, 1, 0)}
================================================================================
