-------------------------------- MODULE MCKrews --------------------------------
(* A small Krew: the requests each run explores. *)
EXTENDS Krews, TLC

ComingAndGoing == {"join", "ask", "accept", "leave", "archive", "answer", "invite"}
TakingBack == {"ask", "back out", "accept", "join", "leave", "seed"}
Seeding == {"join", "leave", "seed"}
Chatting == {"join", "leave", "chat"}
Inviting == {"join", "invite"}
Archiving == {"join", "ask", "archive"}
AccountSymmetry == Permutations(Accounts)
================================================================================
