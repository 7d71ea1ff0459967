------------------------- MODULE MCStreamSubscriptions -------------------------
(* Two connections of one account and token: a websocket and another, or an event source. *)
EXTENDS StreamSubscriptions, TLC

MCSystemChannel == [c \in Conns |-> "system"]
MCTokenChannel == [c \in Conns |-> "token"]
MCStreamIds ==
  [c \in Conns |-> [s \in Streams |->
     CASE s = "user" -> <<"home", "notifications">>
       [] s = "user:notification" -> <<"notifications">>
       [] s = "list" -> <<"list">>]]
MCSseStream == [c \in Conns |-> "list"]
MCChannels == {"system", "token"} \cup UNION {Range(MCStreamIds[c][s]) : c \in Conns, s \in Streams}
================================================================================
