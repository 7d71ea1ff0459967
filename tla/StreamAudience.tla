---------------------------- MODULE StreamAudience ----------------------------
(***************************************************************************)
(* What the streaming server promises: a message goes, once, to every      *)
(* stream that is being listened to on a connection that is open, and to   *)
(* nobody else; a connection that was dropped gets nothing ever again.     *)
(* A stream is the sequence of Redis channels that feed it.                *)
(***************************************************************************)
EXTENDS Sequences, Functions

CONSTANTS
  Conns,      \* connections
  Channels,   \* Redis channels
  Keys        \* streams

VARIABLES
  audience,   \* who is listening: pairs of a connection and a stream
  dropped,    \* connections that were closed
  sent        \* the message the last step sent, and to whom

audienceVars == <<audience, dropped, sent>>

Nothing == [channel |-> {}, to |-> {}]

Init ==
  /\ audience = {}
  /\ dropped = {}
  /\ sent = Nothing

Join(c, k) ==
  /\ c \notin dropped
  /\ audience' = audience \cup {<<c, k>>}
  /\ UNCHANGED dropped
  /\ sent' = Nothing

Leave(c, k) ==
  /\ audience' = audience \ {<<c, k>>}
  /\ UNCHANGED dropped
  /\ sent' = Nothing

Drop(cs) ==
  /\ dropped' = dropped \cup cs
  /\ audience' = {e \in audience : e[1] \notin cs}
  /\ sent' = Nothing

Send(ch) ==
  /\ sent' = [channel |-> {ch}, to |-> {e \in audience : ch \in Range(e[2])}]
  /\ UNCHANGED <<audience, dropped>>

Silence == sent' = Nothing /\ UNCHANGED <<audience, dropped>>

Next ==
  \/ Silence
  \/ \E c \in Conns, k \in Keys : Join(c, k) \/ Leave(c, k)
  \/ \E cs \in SUBSET Conns : Drop(cs)
  \/ \E ch \in Channels : Send(ch)

Spec == Init /\ [][Next]_audienceVars
================================================================================
