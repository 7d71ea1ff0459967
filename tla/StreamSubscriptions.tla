-------------------------- MODULE StreamSubscriptions --------------------------
(***************************************************************************)
(* The streaming server (streaming/index.js): who is connected, which      *)
(* listeners its Redis channels call, and what Redis was asked to send.    *)
(*                                                                         *)
(* It is one thread: a handler runs to its first await, and other handlers *)
(* run before its answer.  Three things are awaited: the account of a new  *)
(* connection, whether it may have a stream (some streams need no query    *)
(* and are subscribed at once), and Redis.                                 *)
(*                                                                         *)
(* A stream is the sequence of channels that feed it; joined by ';' it is  *)
(* the key of a session's subscriptions.  What a message is, filtering it  *)
(* and failing to reach Redis or the database are left out.                *)
(***************************************************************************)
EXTENDS Integers, Sequences, Functions

CONSTANTS
  Conns,        \* connections, each made at most once
  Sse,          \* those that are an event source, the others are websockets
  SseStream,    \* what an event source's path asks for
  Streams,      \* what can be asked for
  Guarded,      \* streams that need a query: a list, a chat, a feed with settings
  Channels,     \* Redis channels
  StreamIds,    \* the channels of a stream, for a connection
  TokenChannel, \* timeline:access_token:<id> of a connection
  SystemChannel,\* timeline:system:<account> of a connection
  Copies,       \* names for the listeners made for one stream of a connection
  Slots,        \* bound: requests of a connection that await the database
  MaxNews,      \* bound: messages Redis has sent and the server has not read
  MaxWire,      \* bound: commands on their way to Redis, of each channel
  None

Accounts == {SystemChannel[c] : c \in Conns}
SystemIds(c) == <<TokenChannel[c], SystemChannel[c]>>
Keys == {StreamIds[c][s] : c \in Conns, s \in Streams}
SystemKeys == {<<TokenChannel[c]>> : c \in Conns} \cup {<<SystemChannel[c]>> : c \in Conns}
Listeners == UNION {[conn : {c}, ids : Keys \cup {SystemIds(c)}, copy : Copies] : c \in Conns}

ASSUME StreamsAssumption ==
  /\ Sse \subseteq Conns /\ Guarded \subseteq Streams
  /\ SseStream \in [Conns -> Guarded]
  /\ StreamIds \in [Conns -> [Streams -> Seq(Channels)]]
  /\ TokenChannel \in [Conns -> Channels] /\ SystemChannel \in [Conns -> Channels]
  /\ \A c \in Conns, s \in Streams : StreamIds[c][s] # <<>>
\* System channels are no stream's, and no connection's token is its account's.
ASSUME ChannelsAssumption ==
  \A c, d \in Conns :
    /\ TokenChannel[c] # SystemChannel[d]
    /\ \A s \in Streams : {TokenChannel[c], SystemChannel[c]} \cap Range(StreamIds[d][s]) = {}
ASSUME NoneAssumption == None \notin Listeners /\ Copies # {}
ASSUME BoundsAssumption == MaxNews \in Nat /\ MaxWire \in Nat

VARIABLES
  phase,     \* of a connection: "none", "asking", "known", "refused", "up", "ended"
  closed,    \* connections whose close event has come
  revoked,   \* channels of tokens revoked and accounts disabled
  access,    \* which guarded streams an account may have, by the database
  awaiting,  \* requests of each connection that await the database
  session,   \* what a connection's close takes down: stream to its listener
  subs,      \* subs: the listeners of each channel
  hearts,    \* listeners whose subscriptionHeartbeat is running
  wire,      \* commands on their way to Redis, of each channel
  listening, \* channels Redis sends
  news,      \* messages on their way from Redis
  sent       \* the message the last step sent, and to whom

conns == <<phase, closed>>
index == <<session, subs, hearts, wire>>
redis == <<listening, news>>
vars == <<conns, revoked, access, awaiting, index, redis, sent>>

Nothing == [channel |-> {}, to |-> {}]
Free == [op |-> "free"]
Requests == [op : {"subscribe", "unsubscribe"}, stream : Streams, answer : {"none", "yes", "no"}]
\* Kills are published on system channels, statuses and the rest on streams'.
SystemIdsOfAll == UNION {Range(SystemIds(c)) : c \in Conns}
Messages == {m \in [channel : Channels, kill : BOOLEAN] : m.kill <=> m.channel \in SystemIdsOfAll}

\* ws.readyState is OPEN: nothing is sent otherwise.
Open(c) == phase[c] = "up" /\ c \notin closed

Init ==
  /\ phase = [c \in Conns |-> "none"]
  /\ closed = {}
  /\ revoked = {}
  /\ access = Accounts \X Guarded
  /\ awaiting = [c \in Conns |-> [i \in Slots |-> Free]]
  /\ session = [c \in Conns |-> [k \in Keys \cup SystemKeys |-> None]]
  /\ subs = [ch \in Channels |-> {}]
  /\ hearts = {}
  /\ wire = [ch \in Channels |-> <<>>]
  /\ listening = {}
  /\ news = <<>>
  /\ sent = Nothing

--------------------------------------------------------------------------------
(* The index: subs and what Redis is asked. *)

\* subscribe, for each channel of ids: Redis is asked when the channel's list was empty.
Subscribe(ids, l) ==
  /\ subs' = [ch \in Channels |-> subs[ch] \cup (IF ch \in Range(ids) THEN {l} ELSE {})]
  /\ wire' = [ch \in Channels |-> IF ch \in Range(ids) /\ subs[ch] = {}
                                  THEN Append(wire[ch], "subscribe") ELSE wire[ch]]

\* The listeners a session's entries ks take off a channel.
Taken(c, ks, ch) == {session[c][k] : k \in {j \in ks : ch \in Range(j)}}

\* Altered (for a RedisAgrees mutant): Redis is told whenever a listener goes.
UnsubscribeEach(c, ks) ==
  /\ subs' = [ch \in Channels |-> subs[ch] \ Taken(c, ks, ch)]
  /\ wire' = [ch \in Channels |->
       IF subs'[ch] # subs[ch] THEN Append(wire[ch], "unsubscribe") ELSE wire[ch]]

\* unsubscribe, for each channel of each entry: Redis is told when its list becomes empty.
Unsubscribe(c, ks) ==
  /\ subs' = [ch \in Channels |-> subs[ch] \ Taken(c, ks, ch)]
  /\ wire' = [ch \in Channels |->
       IF subs[ch] # {} /\ subs'[ch] = {} THEN Append(wire[ch], "unsubscribe") ELSE wire[ch]]

\* A new closure: none of the listeners that are called for ids now.
NewListener(c, ids) ==
  CHOOSE l \in Listeners : /\ l.conn = c /\ l.ids = ids
                           /\ \A ch \in Channels : l \notin subs[ch]

\* Altered (for an Indexed mutant): whether the stream is there is not looked at.
AttachAgain(c, s) ==
  LET k == StreamIds[c][s]
      l == NewListener(c, k)
  IN  /\ Subscribe(k, l)
      /\ hearts' = hearts \cup {l}
      /\ session' = [session EXCEPT ![c][k] = l]

\* streamFrom, with a heartbeat, unless the connection has the stream already.
Attach(c, s) ==
  LET k == StreamIds[c][s]
      l == NewListener(c, k)
  IN  IF session[c][k] # None THEN UNCHANGED index
      ELSE /\ Subscribe(k, l)
           /\ hearts' = hearts \cup {l}
           /\ session' = [session EXCEPT ![c][k] = l]

\* Altered (for a CloseTakesAll mutant): the heartbeat is not stopped.
RemoveBeating(c, ks) ==
  /\ Unsubscribe(c, ks)
  /\ session' = [session EXCEPT ![c] = [k \in DOMAIN @ |-> IF k \in ks THEN None ELSE @[k]]]
  /\ UNCHANGED hearts

\* removeSubscription, of each of the entries ks.
Remove(c, ks) ==
  /\ Unsubscribe(c, ks)
  /\ hearts' = hearts \ {session[c][k] : k \in ks}
  /\ session' = [session EXCEPT ![c] = [k \in DOMAIN @ |-> IF k \in ks THEN None ELSE @[k]]]

\* The streams among ks that a session has.
Present(c, ks) == {k \in ks : session[c][k] # None}

\* subscribeWebsocketToSystemChannel and subscribeHttpToSystemChannel: one listener, two entries.
AttachSystem(c) ==
  LET l == NewListener(c, SystemIds(c))
  IN  /\ Subscribe(SystemIds(c), l)
      /\ session' = [session EXCEPT ![c][<<TokenChannel[c]>>] = l,
                                    ![c][<<SystemChannel[c]>>] = l]
      /\ UNCHANGED hearts

--------------------------------------------------------------------------------
(* Connections. *)

\* A request to upgrade, or for an event source: accountFromRequest is asked for.
Connect(c) ==
  /\ phase[c] = "none"
  /\ phase' = [phase EXCEPT ![c] = "asking"]
  /\ UNCHANGED <<closed, revoked, access, awaiting, index, redis>>
  /\ sent' = Nothing

\* accountFromToken's query runs: a revoked token or a disabled account finds no row.
ReadAccount(c) ==
  /\ phase[c] = "asking"
  /\ phase' = [phase EXCEPT ![c] = IF revoked \cap Range(SystemIds(c)) = {}
                                   THEN "known" ELSE "refused"]
  /\ UNCHANGED <<closed, revoked, access, awaiting, index, redis>>
  /\ sent' = Nothing

\* The account is back and the socket still there: handleUpgrade, then onConnection.
Upgrade(c) ==
  /\ c \notin Sse /\ phase[c] = "known" /\ c \notin closed
  /\ phase' = [phase EXCEPT ![c] = "up"]
  /\ AttachSystem(c)
  /\ UNCHANGED <<closed, revoked, access, awaiting, redis>>
  /\ sent' = Nothing

\* The account is back: authenticationMiddleware goes on to the route, which asks for the
\* stream, whether or not the connection is still there.
StartSse(c) ==
  /\ c \in Sse /\ phase[c] = "known"
  /\ phase' = [phase EXCEPT ![c] = "up"]
  /\ AttachSystem(c)
  /\ awaiting' = [awaiting EXCEPT ![c] =
       [i \in Slots |-> IF i = CHOOSE j \in Slots : TRUE
                        THEN [op |-> "subscribe", stream |-> SseStream[c], answer |-> "none"]
                        ELSE Free]]
  /\ UNCHANGED <<closed, revoked, access, redis>>
  /\ sent' = Nothing

\* A websocket, open or closing, can send a message.  (Bound: MaxWire.)
Speaks(c) ==
  /\ c \notin Sse /\ phase[c] \in {"up", "ended"} /\ c \notin closed
  /\ \A ch \in Channels : Len(wire[ch]) < MaxWire

\* A message on a websocket about a stream that needs a query.
Ask(c, s, op) ==
  /\ Speaks(c)
  /\ s \in Guarded
  /\ \E i \in Slots : awaiting[c][i] = Free
  /\ LET i == CHOOSE j \in Slots : awaiting[c][j] = Free
     IN  awaiting' = [awaiting EXCEPT ![c][i] = [op |-> op, stream |-> s, answer |-> "none"]]
  /\ UNCHANGED <<conns, revoked, access, index, redis>>
  /\ sent' = Nothing

\* What a request does once its stream is allowed.
Apply(c, s, op) ==
  \/ op = "subscribe" /\ Attach(c, s)
  \/ op = "unsubscribe" /\ Remove(c, Present(c, {StreamIds[c][s]}))

\* A message on a websocket about a stream that needs none.
Change(c, s, op) ==
  /\ Speaks(c)
  /\ s \notin Guarded
  /\ Apply(c, s, op)
  /\ UNCHANGED <<conns, revoked, access, awaiting, redis>>
  /\ sent' = Nothing

\* authorizeListAccess or authorizeNudgeConversationAccess, in the database.
ReadAccess(c, i) ==
  /\ awaiting[c][i] # Free /\ awaiting[c][i].answer = "none"
  /\ awaiting' = [awaiting EXCEPT ![c][i].answer =
       IF <<SystemChannel[c], awaiting[c][i].stream>> \in access THEN "yes" ELSE "no"]
  /\ UNCHANGED <<conns, revoked, access, index, redis>>
  /\ sent' = Nothing

\* A response that has ended takes neither headers nor an error.
Unwritable(c) == c \in Sse /\ phase[c] = "ended"

\* subscribeWebsocketToChannel, unsubscribeWebsocketFromChannel or the event source's
\* route, after channelNameToIds: whatever became of the connection meanwhile.
Answer(c, i) ==
  /\ awaiting[c][i] # Free /\ awaiting[c][i].answer # "none"
  /\ ~Unwritable(c)
  /\ IF awaiting[c][i].answer = "yes"
     THEN Apply(c, awaiting[c][i].stream, awaiting[c][i].op)
     ELSE UNCHANGED index
  /\ awaiting' = [awaiting EXCEPT ![c][i] = Free]
  /\ UNCHANGED <<conns, revoked, access, redis>>
  /\ sent' = Nothing

\* The answer comes for an event source whose response a kill has ended: its headers
\* cannot be set, nor the error written, and nothing catches that.  The process exits
\* with all it had, and is started again.
Exit(c, i) ==
  /\ awaiting[c][i] # Free /\ awaiting[c][i].answer # "none"
  /\ Unwritable(c)
  /\ phase' = [d \in Conns |-> IF phase[d] = "none" THEN "none" ELSE "ended"]
  /\ closed' = closed \cup {d \in Conns : phase[d] # "none"}
  /\ awaiting' = [d \in Conns |-> [j \in Slots |-> Free]]
  /\ session' = [d \in Conns |-> [k \in Keys \cup SystemKeys |-> None]]
  /\ subs' = [ch \in Channels |-> {}]
  /\ hearts' = {}
  /\ wire' = [ch \in Channels |-> <<>>]
  /\ listening' = {} /\ news' = <<>>
  /\ UNCHANGED <<revoked, access>>
  /\ sent' = Nothing

\* The close event: onWebsocketClose, or the event source's close handlers, for what there
\* is to take down by now.
Close(c) ==
  /\ phase[c] \notin {"none", "refused"} /\ c \notin closed
  /\ closed' = closed \cup {c}
  /\ Remove(c, Present(c, Keys \cup SystemKeys))
  /\ UNCHANGED <<phase, revoked, access, awaiting, redis>>
  /\ sent' = Nothing

--------------------------------------------------------------------------------
(* Redis and the database. *)

\* A channel's next command reaches Redis.
Obey(ch) ==
  /\ wire[ch] # <<>>
  /\ listening' = IF Head(wire[ch]) = "subscribe" THEN listening \cup {ch} ELSE listening \ {ch}
  /\ wire' = [wire EXCEPT ![ch] = Tail(@)]
  /\ UNCHANGED <<conns, revoked, access, awaiting, session, subs, hearts, news>>
  /\ sent' = Nothing

\* Redis sends a published message if the server is subscribed to its channel.
Publish(ch, kill) ==
  /\ Len(news) < MaxNews
  /\ news' = IF ch \in listening THEN Append(news, [channel |-> ch, kill |-> kill]) ELSE news
  /\ UNCHANGED listening

PublishData(ch) ==
  /\ ch \notin SystemIdsOfAll
  /\ Publish(ch, FALSE)
  /\ UNCHANGED <<conns, revoked, access, awaiting, index>>
  /\ sent' = Nothing

\* AccessToken#push_to_streaming_api, User#disable!: the row is saved, then the kill is published.
Revoke(ch) ==
  /\ ch \in SystemIdsOfAll \ revoked
  /\ revoked' = revoked \cup {ch}
  /\ Publish(ch, TRUE)
  /\ UNCHANGED <<conns, access, awaiting, index>>
  /\ sent' = Nothing

\* Someone leaves a chat, or a list is deleted: nothing tells the streaming server.
LoseAccess(a, s) ==
  /\ access' = access \ {<<a, s>>}
  /\ access' # access
  /\ UNCHANGED <<conns, revoked, awaiting, index, redis>>
  /\ sent' = Nothing

\* Altered (for an ImplementsAudience mutant): readyState is not looked at.
ReachedAnyway(ch) == {<<l.conn, l.ids>> : l \in subs[ch]}

\* streamToWs: nothing is written to a websocket that is not open, nor to a response that
\* has ended.
Reached(ch) == {<<l.conn, l.ids>> : l \in {m \in subs[ch] : Open(m.conn)}}

\* Altered (for a KillsArrive mutant): only its token's kill closes a connection.
KilledByToken(ch) == {c \in Conns : ch = TokenChannel[c] /\ \E l \in subs[ch] : l.conn = c}

\* createSystemMessageListener, called with a kill.
Killed(ch) == {c \in Conns : \E l \in subs[ch] : l.conn = c /\ l.ids = SystemIds(c)}

\* onRedisMessage: each listener of the channel is called.  A system listener closes its
\* connection on a kill; a stream's sends, if its connection is open.
Receive ==
  /\ news # <<>>
  /\ LET ch == Head(news).channel
     IN  IF Head(news).kill
         THEN /\ phase' = [c \in Conns |-> IF c \in Killed(ch) THEN "ended" ELSE phase[c]]
              /\ sent' = Nothing
         ELSE /\ sent' = [channel |-> {ch}, to |-> Reached(ch)]
              /\ UNCHANGED phase
  /\ news' = Tail(news)
  /\ UNCHANGED <<closed, revoked, access, awaiting, index, listening>>

Next ==
  \/ \E c \in Conns : ReadAccount(c) \/ Upgrade(c) \/ StartSse(c)
  \/ \E c \in Conns, i \in Slots : ReadAccess(c, i) \/ Answer(c, i) \/ Exit(c, i)
  \/ \E ch \in Channels : Obey(ch)
  \/ Receive
  \/ \E c \in Conns : Connect(c) \/ Close(c)
  \/ \E c \in Conns, s \in Streams, op \in {"subscribe", "unsubscribe"} :
       Ask(c, s, op) \/ Change(c, s, op)
  \/ \E ch \in Channels : PublishData(ch) \/ Revoke(ch)
  \/ \E a \in Accounts, s \in Guarded : LoseAccess(a, s)

Spec == Init /\ [][Next]_vars

\* The server's event loop keeps turning.
FairSpec == Spec /\ WF_vars(Receive)

--------------------------------------------------------------------------------
(* Properties. *)

TypeOK ==
  /\ phase \in [Conns -> {"none", "asking", "known", "refused", "up", "ended"}]
  /\ closed \subseteq Conns
  /\ revoked \subseteq Channels
  /\ access \subseteq Accounts \X Guarded
  /\ awaiting \in [Conns -> [Slots -> Requests \cup {Free}]]
  /\ session \in [Conns -> [Keys \cup SystemKeys -> Listeners \cup {None}]]
  /\ subs \in [Channels -> SUBSET Listeners]
  /\ hearts \subseteq Listeners
  /\ wire \in [Channels -> Seq({"subscribe", "unsubscribe"})]
  /\ listening \subseteq Channels
  /\ news \in Seq(Messages)
  /\ sent \in [channel : SUBSET Channels, to : SUBSET (Conns \X Keys)]

\* What a session would take down on closing is what the channels call: each of its
\* entries is called, for the channels of its stream.
EntriesCalled ==
  \A c \in Conns, k \in Keys \cup SystemKeys :
    session[c][k] # None =>
      /\ session[c][k].conn = c
      /\ session[c][k].ids = IF k \in SystemKeys THEN SystemIds(c) ELSE k
      /\ \A ch \in Range(k) : session[c][k] \in subs[ch]

\* The entry of a session a listener is under, on a channel.
EntryOf(l, ch) == IF l.ids = SystemIds(l.conn) THEN <<ch>> ELSE l.ids

\* Nothing else is called: an orphan would be called, and its stream kept, for ever; two
\* for one stream would send everything twice.
NoOrphans ==
  \A ch \in Channels : \A l \in subs[ch] :
    ch \in Range(l.ids) /\ session[l.conn][EntryOf(l, ch)] = l

\* A heartbeat runs for each stream subscribed, and no other: Rails goes by it.
HeartsBeat == hearts = {session[c][k] : c \in Conns, k \in Keys} \ {None}

\* The sessions, the channels' listeners and the heartbeats agree, whatever the order
\* answers come in and whatever was closed meanwhile.
Indexed == EntriesCalled /\ NoOrphans /\ HeartsBeat

\* Once it has obeyed what it was sent, Redis sends the channels that have listeners and
\* no others.
RedisAgrees ==
  \A ch \in Channels :
    subs[ch] # {} <=> IF wire[ch] = <<>> THEN ch \in listening
                      ELSE wire[ch][Len(wire[ch])] = "subscribe"

\* What a connection is called for.
CalledFor(c) == {ch \in Channels : \E l \in subs[ch] : l.conn = c}

\* Closing a connection leaves nothing of what it had, of either kind of stream.
CloseTakesAll ==
  [][\A c \in closed' \ closed : CalledFor(c)' = {} /\ \A l \in hearts' : l.conn # c]_vars

\* The server gives what StreamAudience promises: a message goes once to each stream
\* subscribed on an open connection and to no other, and to a connection that was killed
\* or closed nothing again.
Audience == INSTANCE StreamAudience WITH
  audience <- {e \in Conns \X Keys : Open(e[1]) /\ session[e[1]][e[2]] # None},
  dropped <- {c \in Conns : phase[c] = "ended" \/ c \in closed}
ImplementsAudience == Audience!Spec

\* A kill that Redis sends for a connection that is open ends it.
KillsArrive ==
  \A c \in Conns :
    (/\ Open(c)
     /\ \E i \in 1..Len(news) : news[i].kill /\ news[i].channel \in Range(SystemIds(c)))
      ~> ~Open(c)

\* Nothing is on its way.
Quiet(c) == news = <<>> /\ (\A ch \in Channels : wire[ch] = <<>>) /\ awaiting[c] = [i \in Slots |-> Free]

\* The process that serves everybody is not ended by what becomes of one connection.
\* Not kept: a kill that comes while an event source's stream is asked for does it.
ServesOn == [][\A d \in closed' \ closed : closed' = closed \cup {d}]_vars

\* User#disable!, "This terminates all connections for the given account with the
\* streaming server": once it has, and nothing is on its way, none is open.
DisabledTerminates ==
  \A c \in Conns : SystemChannel[c] \in revoked /\ Quiet(c) => ~Open(c)

\* onWebsocketClose: nothing of a closed connection is held on to.
NothingHeld == \A c \in closed : Quiet(c) /\ phase[c] # "known" => CalledFor(c) = {}

\* Someone who left a chat is not sent it.
NotReadAlong ==
  \A c \in Conns, s \in Guarded :
    <<SystemChannel[c], s>> \notin access /\ Quiet(c) /\ Open(c) => session[c][StreamIds[c][s]] = None
================================================================================
