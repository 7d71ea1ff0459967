----------------------- MODULE StreamSubscriptionsProofs -----------------------
(***************************************************************************)
(* Theorems about StreamSubscriptions, for any connections, streams and    *)
(* channels: the index is right whatever order answers and closes come in, *)
(* and the server implements StreamAudience.                               *)
(***************************************************************************)
EXTENDS StreamSubscriptions, SequenceTheorems, TLAPS

\* What the system channels of a connection are, together and one by one.
LEMMA SystemRanges ==
  ASSUME NEW c \in Conns
  PROVE  /\ \A ch : ch \in Range(SystemIds(c)) <=> ch \in {TokenChannel[c], SystemChannel[c]}
         /\ \A ch, e : ch \in Range(<<e>>) <=> ch = e
<1>1. \A ch : ch \in Range(SystemIds(c)) <=> ch \in {TokenChannel[c], SystemChannel[c]}
  <2>1. SystemIds(c)[1] = TokenChannel[c] /\ SystemIds(c)[2] = SystemChannel[c]
    BY DEF SystemIds
  <2>2. DOMAIN SystemIds(c) = {1, 2}
    BY DEF SystemIds
  <2> QED
    BY <2>1, <2>2 DEF Range
<1>2. \A ch, e : ch \in Range(<<e>>) <=> ch = e
  BY DEF Range
<1> QED
  BY <1>1, <1>2

\* A stream and a system entry share no channel, and no stream is a connection's system
\* channels.
LEMMA KeysApart ==
  ASSUME NEW k \in Keys, NEW c \in Conns
  PROVE  /\ k # SystemIds(c)
         /\ k \notin SystemKeys
         /\ k \in Seq(Channels)
         /\ TokenChannel[c] \notin Range(k) /\ SystemChannel[c] \notin Range(k)
<1>1. PICK d \in Conns, s \in Streams : k = StreamIds[d][s]
  BY DEF Keys
<1>2. TokenChannel[c] \notin Range(k) /\ SystemChannel[c] \notin Range(k)
  BY <1>1, ChannelsAssumption
<1>3. \A e \in Conns : TokenChannel[e] \notin Range(k) /\ SystemChannel[e] \notin Range(k)
  BY <1>1, ChannelsAssumption
<1>4. k # SystemIds(c)
  <2>1. TokenChannel[c] \in Range(SystemIds(c))
    BY SystemRanges
  <2> QED
    BY <1>2, <2>1
<1>5. k \notin SystemKeys
  <2>1. \A e \in Conns : /\ TokenChannel[e] \in Range(<<TokenChannel[e]>>)
                        /\ SystemChannel[e] \in Range(<<SystemChannel[e]>>)
    BY SystemRanges
  <2> QED
    BY <1>3, <2>1 DEF SystemKeys
<1> QED
  BY <1>1, <1>2, <1>4, <1>5, StreamsAssumption

\* The channels of an entry are channels.
LEMMA KeysInChannels ==
  ASSUME NEW k \in Keys \cup SystemKeys
  PROVE  Range(k) \subseteq Channels
<1>1. CASE k \in Keys
  BY <1>1, KeysApart, StreamsAssumption DEF Keys, Range
<1>2. CASE k \in SystemKeys
  BY <1>2, SystemRanges, StreamsAssumption DEF SystemKeys
<1> QED
  BY <1>1, <1>2

\* What a listener is.
LEMMA ListenerParts ==
  ASSUME NEW l \in Listeners
  PROVE  /\ l.conn \in Conns
         /\ l.ids \in Keys \cup {SystemIds(l.conn)}
         /\ l # None
  BY NoneAssumption DEF Listeners

\* A channel of a listener has an entry of its session.
LEMMA EntryOfType ==
  ASSUME NEW l \in Listeners, NEW ch \in Range(l.ids)
  PROVE  EntryOf(l, ch) \in Keys \cup SystemKeys /\ ch \in Range(EntryOf(l, ch))
<1>1. CASE l.ids = SystemIds(l.conn)
  <2>1. ch \in {TokenChannel[l.conn], SystemChannel[l.conn]}
    BY <1>1, SystemRanges, ListenerParts
  <2> QED
    BY <1>1, <2>1, ListenerParts, SystemRanges DEF EntryOf, SystemKeys
<1>2. CASE l.ids # SystemIds(l.conn)
  BY <1>2, ListenerParts DEF EntryOf
<1> QED
  BY <1>1, <1>2

--------------------------------------------------------------------------------
(* The index is kept by what changes it. *)

IndexTypes ==
  /\ session \in [Conns -> [Keys \cup SystemKeys -> Listeners \cup {None}]]
  /\ subs \in [Channels -> SUBSET Listeners]
  /\ hearts \subseteq Listeners
  /\ wire \in [Channels -> Seq({"subscribe", "unsubscribe"})]

\* A stream that is not listened to has a listener to be made for it.
LEMMA NewListenerIsNew ==
  ASSUME NEW c \in Conns, NEW ids \in Keys \cup {SystemIds(c)},
         \A ch \in Channels : \A l \in subs[ch] : ~(l.conn = c /\ l.ids = ids)
  PROVE  /\ NewListener(c, ids) \in Listeners
         /\ NewListener(c, ids).conn = c /\ NewListener(c, ids).ids = ids
         /\ \A ch \in Channels : NewListener(c, ids) \notin subs[ch]
<1>1. PICK i \in Copies : TRUE
  BY NoneAssumption
<1> DEFINE l == [conn |-> c, ids |-> ids, copy |-> i]
<1>2. l \in Listeners
  BY DEF Listeners
<1>3. l.conn = c /\ l.ids = ids /\ \A ch \in Channels : l \notin subs[ch]
  OBVIOUS
<1> HIDE DEF l
<1> QED
  BY <1>2, <1>3 DEF NewListener

\* Nothing listens to a stream a session does not have.
LEMMA AbsentUnheard ==
  ASSUME IndexTypes, NoOrphans, NEW c \in Conns, NEW k \in Keys, session[c][k] = None,
         NEW ch \in Channels, NEW l \in subs[ch]
  PROVE  ~(l.conn = c /\ l.ids = k)
<1> SUFFICES ASSUME l.conn = c, l.ids = k
             PROVE  FALSE
  OBVIOUS
<1>1. l \in Listeners
  BY DEF IndexTypes
<1>2. EntryOf(l, ch) = k
  BY KeysApart DEF EntryOf
<1>3. session[c][k] = l
  BY <1>2 DEF NoOrphans
<1> QED
  BY <1>1, <1>3, ListenerParts

\* The index is of the sessions, the listeners and the heartbeats alone.
LEMMA SameIndex ==
  ASSUME Indexed, UNCHANGED <<session, subs, hearts>>
  PROVE  Indexed'
<1>1. EntriesCalled'
  BY DEF Indexed, EntriesCalled
<1>2. NoOrphans'
  BY DEF Indexed, NoOrphans, EntryOf
<1>3. HeartsBeat'
  BY DEF Indexed, HeartsBeat
<1> QED
  BY <1>1, <1>2, <1>3 DEF Indexed

\* streamFrom keeps the index.
LEMMA AttachKeeps ==
  ASSUME IndexTypes, Indexed, NEW c \in Conns, NEW s \in Streams, Attach(c, s)
  PROVE  IndexTypes' /\ Indexed'
<1> DEFINE k == StreamIds[c][s]
           l == NewListener(c, k)
<1>1. k \in Keys
  BY DEF Keys
<1>2. CASE session[c][k] # None
  <2>1. UNCHANGED index
    BY <1>2 DEF Attach
  <2> QED
    BY <2>1, SameIndex DEF index, IndexTypes
<1>3. CASE session[c][k] = None
  <2>1. /\ Subscribe(k, l)
        /\ hearts' = hearts \cup {l}
        /\ session' = [session EXCEPT ![c][k] = l]
    BY <1>3 DEF Attach
  <2>2. \A ch \in Channels : \A m \in subs[ch] : ~(m.conn = c /\ m.ids = k)
    BY <1>1, <1>3, AbsentUnheard DEF Indexed
  <2>3. /\ l \in Listeners /\ l.conn = c /\ l.ids = k
        /\ \A ch \in Channels : l \notin subs[ch]
    BY <1>1, <2>2, NewListenerIsNew
  <2>4. k \in Seq(Channels) /\ k \notin SystemKeys /\ k # SystemIds(c)
    BY <1>1, KeysApart
  <2> HIDE DEF l, k
  <2>5. \A d \in Conns, j \in Keys \cup SystemKeys :
          session'[d][j] = IF d = c /\ j = k THEN l ELSE session[d][j]
    BY <1>1, <2>1 DEF IndexTypes
  <2>6. \A ch \in Channels : subs'[ch] = subs[ch] \cup (IF ch \in Range(k) THEN {l} ELSE {})
    BY <2>1 DEF Subscribe
  <2>7. IndexTypes'
    <3>1. session' \in [Conns -> [Keys \cup SystemKeys -> Listeners \cup {None}]]
      BY <1>1, <2>1, <2>3 DEF IndexTypes
    <3>2. subs' \in [Channels -> SUBSET Listeners] /\ hearts' \subseteq Listeners
      BY <2>1, <2>3 DEF IndexTypes, Subscribe
    <3>3. wire' \in [Channels -> Seq({"subscribe", "unsubscribe"})]
      BY <2>1 DEF IndexTypes, Subscribe
    <3> QED
      BY <3>1, <3>2, <3>3 DEF IndexTypes
  <2>8. EntriesCalled'
    <3> SUFFICES ASSUME NEW d \in Conns, NEW j \in Keys \cup SystemKeys, session'[d][j] # None
                 PROVE  /\ session'[d][j].conn = d
                        /\ session'[d][j].ids = IF j \in SystemKeys THEN SystemIds(d) ELSE j
                        /\ \A ch \in Range(j) : session'[d][j] \in subs'[ch]
      BY DEF EntriesCalled
    <3>1. Range(j) \subseteq Channels
      BY KeysInChannels
    <3>2. CASE d = c /\ j = k
      BY <3>1, <3>2, <2>3, <2>4, <2>5, <2>6
    <3>3. CASE ~(d = c /\ j = k)
      BY <3>1, <3>3, <2>5, <2>6 DEF Indexed, EntriesCalled
    <3> QED
      BY <3>2, <3>3
  <2>9. NoOrphans'
    <3> SUFFICES ASSUME NEW ch \in Channels, NEW m \in subs'[ch]
                 PROVE  ch \in Range(m.ids) /\ session'[m.conn][EntryOf(m, ch)] = m
      BY DEF NoOrphans, EntryOf
    <3>1. CASE m = l
      BY <3>1, <1>1, <2>3, <2>4, <2>5, <2>6 DEF EntryOf
    <3>2. CASE m # l
      <4>1. m \in subs[ch] /\ m \in Listeners
        BY <3>2, <2>6 DEF IndexTypes
      <4>2. ch \in Range(m.ids) /\ session[m.conn][EntryOf(m, ch)] = m
        BY <4>1 DEF Indexed, NoOrphans
      <4>3. EntryOf(m, ch) \in Keys \cup SystemKeys /\ m.conn \in Conns /\ m # None
        BY <4>1, <4>2, EntryOfType, ListenerParts
      <4> QED
        BY <4>2, <4>3, <1>3, <2>5 DEF k
    <3> QED
      BY <3>1, <3>2
  <2>10. HeartsBeat'
    BY <1>1, <1>3, <2>1, <2>3, <2>5, ListenerParts DEF Indexed, HeartsBeat, k
  <2> QED
    BY <2>7, <2>8, <2>9, <2>10 DEF Indexed
<1> QED
  BY <1>2, <1>3

\* removeSubscription keeps the index, whichever entries it is called for.
LEMMA RemoveKeeps ==
  ASSUME IndexTypes, Indexed, NEW c \in Conns, NEW ks \in SUBSET (Keys \cup SystemKeys),
         Remove(c, ks)
  PROVE  IndexTypes' /\ Indexed'
<1>1. \A d \in Conns, j \in Keys \cup SystemKeys :
        session'[d][j] = IF d = c /\ j \in ks THEN None ELSE session[d][j]
  BY DEF Remove, IndexTypes
<1>2. \A ch \in Channels : subs'[ch] = subs[ch] \ Taken(c, ks, ch)
  BY DEF Remove, Unsubscribe
<1>3. IndexTypes'
  <2>1. session' \in [Conns -> [Keys \cup SystemKeys -> Listeners \cup {None}]]
    BY DEF Remove, IndexTypes
  <2>2. subs' \in [Channels -> SUBSET Listeners] /\ hearts' \subseteq Listeners
    BY DEF Remove, Unsubscribe, IndexTypes
  <2>3. wire' \in [Channels -> Seq({"subscribe", "unsubscribe"})]
    BY DEF Remove, Unsubscribe, IndexTypes
  <2> QED
    BY <2>1, <2>2, <2>3 DEF IndexTypes
<1>4. EntriesCalled'
  <2> SUFFICES ASSUME NEW d \in Conns, NEW j \in Keys \cup SystemKeys, session'[d][j] # None
               PROVE  /\ session'[d][j].conn = d
                      /\ session'[d][j].ids = IF j \in SystemKeys THEN SystemIds(d) ELSE j
                      /\ \A ch \in Range(j) : session'[d][j] \in subs'[ch]
    BY DEF EntriesCalled
  <2> DEFINE l == session[d][j]
  <2>1. ~(d = c /\ j \in ks) /\ session'[d][j] = l /\ l # None
    BY <1>1
  <2>2. /\ l.conn = d
        /\ l.ids = IF j \in SystemKeys THEN SystemIds(d) ELSE j
        /\ \A ch \in Range(j) : l \in subs[ch]
    BY <2>1 DEF Indexed, EntriesCalled
  <2>3. ASSUME NEW ch \in Range(j), l \in Taken(c, ks, ch)
        PROVE  FALSE
    <3>1. PICK i \in ks : session[c][i] = l /\ ch \in Range(i)
      BY <2>3 DEF Taken
    <3>2. /\ l.conn = c
          /\ l.ids = IF i \in SystemKeys THEN SystemIds(c) ELSE i
      BY <2>1, <3>1 DEF Indexed, EntriesCalled
    <3>3. d = c /\ i # j
      BY <2>1, <2>2, <3>1, <3>2
    <3>4. i \in SystemKeys /\ j \in SystemKeys
      BY <2>2, <3>2, <3>3, KeysApart
    <3> QED
      BY <2>3, <3>1, <3>3, <3>4, SystemRanges DEF SystemKeys
  <2>4. Range(j) \subseteq Channels
    BY KeysInChannels
  <2> QED
    BY <1>2, <2>1, <2>2, <2>3, <2>4
<1>5. NoOrphans'
  <2> SUFFICES ASSUME NEW ch \in Channels, NEW m \in subs'[ch]
               PROVE  ch \in Range(m.ids) /\ session'[m.conn][EntryOf(m, ch)] = m
    BY DEF NoOrphans, EntryOf
  <2>1. m \in subs[ch] /\ m \in Listeners /\ m \notin Taken(c, ks, ch)
    BY <1>2 DEF IndexTypes
  <2>2. ch \in Range(m.ids) /\ session[m.conn][EntryOf(m, ch)] = m
    BY <2>1 DEF Indexed, NoOrphans
  <2>3. /\ EntryOf(m, ch) \in Keys \cup SystemKeys /\ ch \in Range(EntryOf(m, ch))
        /\ m.conn \in Conns
    BY <2>1, <2>2, EntryOfType, ListenerParts
  <2>4. ~(m.conn = c /\ EntryOf(m, ch) \in ks)
    BY <2>1, <2>2, <2>3 DEF Taken
  <2> QED
    BY <1>1, <2>2, <2>3, <2>4
<1>6. HeartsBeat'
  <2>1. hearts' = hearts \ {session[c][k] : k \in ks}
    BY DEF Remove
  <2>2. ASSUME NEW d \in Conns, NEW j \in Keys, session[d][j] # None, ~(d = c /\ j \in ks)
        PROVE  session[d][j] \notin {session[c][k] : k \in ks}
    <3> SUFFICES ASSUME NEW i \in ks, session[c][i] = session[d][j]
                 PROVE  FALSE
      OBVIOUS
    <3>1. session[d][j].conn = d /\ session[d][j].ids = j
      BY <2>2, KeysApart DEF Indexed, EntriesCalled
    <3>2. /\ session[c][i].conn = c
          /\ session[c][i].ids = IF i \in SystemKeys THEN SystemIds(c) ELSE i
      BY <2>2 DEF Indexed, EntriesCalled
    <3> QED
      BY <2>2, <3>1, <3>2, KeysApart
  <2>3. hearts = {session[d][k] : d \in Conns, k \in Keys} \ {None}
    BY DEF Indexed, HeartsBeat
  <2>4. \A x : x \in hearts' <=> \E d \in Conns, j \in Keys : x = session'[d][j] /\ x # None
    BY <1>1, <2>1, <2>2, <2>3
  <2> QED
    BY <2>4 DEF HeartsBeat
<1> QED
  BY <1>3, <1>4, <1>5, <1>6 DEF Indexed

\* A connection whose session has nothing has no listener anywhere.
LEMMA AbsentSystemUnheard ==
  ASSUME IndexTypes, NoOrphans, NEW c \in Conns,
         session[c][<<TokenChannel[c]>>] = None, session[c][<<SystemChannel[c]>>] = None,
         NEW ch \in Channels, NEW l \in subs[ch]
  PROVE  ~(l.conn = c /\ l.ids = SystemIds(c))
<1> SUFFICES ASSUME l.conn = c, l.ids = SystemIds(c)
             PROVE  FALSE
  OBVIOUS
<1>1. l \in Listeners
  BY DEF IndexTypes
<1>2. ch \in Range(SystemIds(c)) /\ session[c][<<ch>>] = l
  BY DEF NoOrphans, EntryOf
<1>3. ch = TokenChannel[c] \/ ch = SystemChannel[c]
  BY <1>2, SystemRanges
<1> QED
  BY <1>1, <1>2, <1>3, ListenerParts

\* Listening to the system channels of a new connection keeps the index.
LEMMA AttachSystemKeeps ==
  ASSUME IndexTypes, Indexed, NEW c \in Conns,
         session[c][<<TokenChannel[c]>>] = None, session[c][<<SystemChannel[c]>>] = None,
         AttachSystem(c)
  PROVE  IndexTypes' /\ Indexed'
<1> DEFINE l == NewListener(c, SystemIds(c))
           tk == <<TokenChannel[c]>>
           sk == <<SystemChannel[c]>>
<1>1. tk \in SystemKeys /\ sk \in SystemKeys
  BY DEF SystemKeys
<1>2. \A ch \in Channels : \A m \in subs[ch] : ~(m.conn = c /\ m.ids = SystemIds(c))
  BY AbsentSystemUnheard DEF Indexed
<1>3. /\ l \in Listeners /\ l.conn = c /\ l.ids = SystemIds(c)
      /\ \A ch \in Channels : l \notin subs[ch]
  BY <1>2, NewListenerIsNew
<1>4. /\ Subscribe(SystemIds(c), l)
      /\ session' = [session EXCEPT ![c][tk] = l, ![c][sk] = l]
      /\ hearts' = hearts
  BY DEF AttachSystem
<1> HIDE DEF l
<1>5. \A d \in Conns, j \in Keys \cup SystemKeys :
        session'[d][j] = IF d = c /\ j \in {tk, sk} THEN l ELSE session[d][j]
  BY <1>1, <1>4 DEF IndexTypes
<1>6. \A ch \in Channels :
        subs'[ch] = subs[ch] \cup (IF ch \in Range(SystemIds(c)) THEN {l} ELSE {})
  BY <1>4 DEF Subscribe
<1>7. IndexTypes'
  <2>1. session' \in [Conns -> [Keys \cup SystemKeys -> Listeners \cup {None}]]
    BY <1>1, <1>3, <1>4 DEF IndexTypes
  <2>2. subs' \in [Channels -> SUBSET Listeners] /\ hearts' \subseteq Listeners
    BY <1>3, <1>4 DEF IndexTypes, Subscribe
  <2>3. wire' \in [Channels -> Seq({"subscribe", "unsubscribe"})]
    BY <1>4 DEF IndexTypes, Subscribe
  <2> QED
    BY <2>1, <2>2, <2>3 DEF IndexTypes
<1>8. EntriesCalled'
  <2> SUFFICES ASSUME NEW d \in Conns, NEW j \in Keys \cup SystemKeys, session'[d][j] # None
               PROVE  /\ session'[d][j].conn = d
                      /\ session'[d][j].ids = IF j \in SystemKeys THEN SystemIds(d) ELSE j
                      /\ \A ch \in Range(j) : session'[d][j] \in subs'[ch]
    BY DEF EntriesCalled
  <2>1. Range(j) \subseteq Channels
    BY KeysInChannels
  <2>2. CASE d = c /\ j \in {tk, sk}
    <3>1. \A ch \in Range(j) : ch \in Range(SystemIds(c))
      BY <2>2, SystemRanges
    <3> QED
      BY <1>1, <1>3, <1>5, <1>6, <2>1, <2>2, <3>1
  <2>3. CASE ~(d = c /\ j \in {tk, sk})
    BY <1>5, <1>6, <2>1, <2>3 DEF Indexed, EntriesCalled
  <2> QED
    BY <2>2, <2>3
<1>9. NoOrphans'
  <2> SUFFICES ASSUME NEW ch \in Channels, NEW m \in subs'[ch]
               PROVE  ch \in Range(m.ids) /\ session'[m.conn][EntryOf(m, ch)] = m
    BY DEF NoOrphans, EntryOf
  <2>1. CASE m = l
    <3>1. ch \in Range(SystemIds(c))
      BY <1>3, <1>6, <2>1
    <3>2. EntryOf(m, ch) = <<ch>> /\ <<ch>> \in {tk, sk}
      BY <1>3, <2>1, <3>1, SystemRanges DEF EntryOf
    <3> QED
      BY <1>1, <1>3, <1>5, <2>1, <3>1, <3>2
  <2>2. CASE m # l
    <3>1. m \in subs[ch] /\ m \in Listeners
      BY <2>2, <1>6 DEF IndexTypes
    <3>2. ch \in Range(m.ids) /\ session[m.conn][EntryOf(m, ch)] = m
      BY <3>1 DEF Indexed, NoOrphans
    <3>3. EntryOf(m, ch) \in Keys \cup SystemKeys /\ m.conn \in Conns /\ m # None
      BY <3>1, <3>2, EntryOfType, ListenerParts
    <3> QED
      BY <3>2, <3>3, <1>5
  <2> QED
    BY <2>1, <2>2
<1>10. HeartsBeat'
  <2>1. \A d \in Conns, j \in Keys : session'[d][j] = session[d][j]
    BY <1>1, <1>5, KeysApart
  <2>2. hearts = {session[d][k] : d \in Conns, k \in Keys} \ {None}
    BY DEF Indexed, HeartsBeat
  <2>3. hearts' = hearts
    BY <1>4
  <2>4. \A x : x \in hearts' <=> \E d \in Conns, j \in Keys : x = session'[d][j] /\ x # None
    BY <2>1, <2>2, <2>3
  <2> QED
    BY <2>4 DEF HeartsBeat
<1> QED
  BY <1>7, <1>8, <1>9, <1>10 DEF Indexed

--------------------------------------------------------------------------------
(* The invariant. *)

\* A connection that is not set up yet has nothing in its session and asked for nothing:
\* what onConnection adds is not there before.
Unstarted ==
  \A c \in Conns : phase[c] \notin {"up", "ended"} =>
    /\ \A k \in Keys \cup SystemKeys : session[c][k] = None
    /\ \A i \in Slots : awaiting[c][i] = Free

IndexInv == TypeOK /\ Indexed /\ Unstarted

\* The initial state is indexed: nothing is subscribed.
LEMMA InitIndexed == Init => IndexInv
<1> SUFFICES ASSUME Init PROVE IndexInv
  OBVIOUS
<1>1. TypeOK
  BY DEF Init, TypeOK, Accounts, Nothing
<1>2. EntriesCalled
  BY DEF Init, EntriesCalled
<1>3. NoOrphans
  BY DEF Init, NoOrphans
<1>4. HeartsBeat
  BY DEF Init, HeartsBeat
<1>5. Unstarted
  BY DEF Init, Unstarted
<1> QED
  BY <1>1, <1>2, <1>3, <1>4, <1>5 DEF IndexInv, Indexed

\* A request that was asked and may be applied is one of a stream.
LEMMA AwaitingParts ==
  ASSUME TypeOK, NEW c \in Conns, NEW i \in Slots, awaiting[c][i] # Free
  PROVE  awaiting[c][i] \in Requests /\ awaiting[c][i].stream \in Streams
  BY DEF TypeOK, Requests

\* What a request does keeps the index, and touches one session only.
LEMMA ApplyKeeps ==
  ASSUME IndexTypes, Indexed, NEW c \in Conns, NEW s \in Streams, NEW op, Apply(c, s, op)
  PROVE  /\ IndexTypes' /\ Indexed'
         /\ \A d \in Conns \ {c} : session'[d] = session[d]
<1>1. CASE Attach(c, s)
  <2>1. \A d \in Conns \ {c} : session'[d] = session[d]
    BY <1>1 DEF Attach, IndexTypes, index
  <2> QED
    BY <1>1, <2>1, AttachKeeps
<1>2. CASE Remove(c, Present(c, {StreamIds[c][s]}))
  <2>1. Present(c, {StreamIds[c][s]}) \in SUBSET (Keys \cup SystemKeys)
    BY DEF Present, Keys
  <2>2. \A d \in Conns \ {c} : session'[d] = session[d]
    BY <1>2 DEF Remove, IndexTypes
  <2> QED
    BY <1>2, <2>1, <2>2, RemoveKeeps
<1> QED
  BY <1>1, <1>2 DEF Apply

\* Only connections that are set up hear the system channels.
LEMMA KilledAreUp ==
  ASSUME IndexInv, NEW ch \in Channels, NEW c \in Killed(ch)
  PROVE  c \in Conns /\ phase[c] \in {"up", "ended"}
<1>1. PICK l \in subs[ch] : l.conn = c /\ l.ids = SystemIds(c)
  BY DEF Killed
<1>2. l \in Listeners /\ session[c][EntryOf(l, ch)] = l /\ ch \in Range(l.ids)
  BY <1>1 DEF IndexInv, TypeOK, Indexed, NoOrphans
<1>3. EntryOf(l, ch) \in Keys \cup SystemKeys /\ l # None
  BY <1>2, EntryOfType, ListenerParts
<1> QED
  BY <1>2, <1>3 DEF IndexInv, Unstarted, Killed

\* What is not a kill reaches streams.
LEMMA ReachedAreStreams ==
  ASSUME IndexInv, NEW ch \in Channels \ SystemIdsOfAll
  PROVE  Reached(ch) \subseteq Conns \X Keys
<1> SUFFICES ASSUME NEW l \in subs[ch]
             PROVE  l.conn \in Conns /\ l.ids \in Keys
  BY DEF Reached
<1>1. l \in Listeners /\ ch \in Range(l.ids)
  BY DEF IndexInv, TypeOK, Indexed, NoOrphans
<1> QED
  BY <1>1, ListenerParts DEF SystemIdsOfAll

\* Every step keeps the invariant.
LEMMA StepIndexed == IndexInv /\ [Next]_vars => IndexInv'
<1> SUFFICES ASSUME IndexInv, [Next]_vars
             PROVE  IndexInv'
  OBVIOUS
<1> USE DEF IndexInv
<1>0. IndexTypes
  BY DEF TypeOK, IndexTypes
<1>1. ASSUME NEW c \in Conns, ReadAccount(c)
      PROVE  IndexInv'
  <2>1. TypeOK'
    BY <1>1 DEF ReadAccount, TypeOK, index, redis, Nothing
  <2>2. Indexed'
    BY <1>1, SameIndex DEF ReadAccount, index
  <2>3. Unstarted'
    BY <1>1 DEF ReadAccount, Unstarted, index, TypeOK
  <2> QED
    BY <2>1, <2>2, <2>3
<1>2. ASSUME NEW c \in Conns, AttachSystem(c), phase[c] = "known",
             phase' = [phase EXCEPT ![c] = "up"],
             UNCHANGED <<closed, revoked, access, redis>>, sent' = Nothing,
             \/ UNCHANGED awaiting
             \/ \E r \in Requests : awaiting' = [awaiting EXCEPT ![c] =
                  [i \in Slots |-> IF i = CHOOSE j \in Slots : TRUE THEN r ELSE Free]]
      PROVE  IndexInv'
  <2>1. \A k \in Keys \cup SystemKeys : session[c][k] = None
    BY <1>2 DEF Unstarted
  <2>2. IndexTypes' /\ Indexed'
    BY <1>0, <1>2, <2>1, AttachSystemKeeps DEF SystemKeys
  <2>3. TypeOK'
    <3>1. awaiting' \in [Conns -> [Slots -> Requests \cup {Free}]]
      <4>1. CASE UNCHANGED awaiting
        BY <4>1 DEF TypeOK
      <4>2. ASSUME NEW r \in Requests,
                   awaiting' = [awaiting EXCEPT ![c] =
                     [i \in Slots |-> IF i = CHOOSE j \in Slots : TRUE THEN r ELSE Free]]
            PROVE  awaiting' \in [Conns -> [Slots -> Requests \cup {Free}]]
        BY <4>2 DEF TypeOK
      <4> QED
        BY <1>2, <4>1, <4>2
    <3> QED
      BY <1>2, <2>2, <3>1 DEF TypeOK, IndexTypes, redis, Nothing
  <2>4. \A d \in Conns \ {c} : session'[d] = session[d]
    BY <1>2 DEF AttachSystem, TypeOK
  <2>5. Unstarted'
    BY <1>2, <2>4 DEF Unstarted, TypeOK
  <2> QED
    BY <2>2, <2>3, <2>5
<1>3. ASSUME NEW c \in Conns, Upgrade(c)
      PROVE  IndexInv'
  <2>1. UNCHANGED <<closed, revoked, access, redis>> /\ UNCHANGED awaiting
    BY <1>3 DEF Upgrade, redis
  <2> QED
    BY <1>2, <1>3, <2>1 DEF Upgrade
<1>4. ASSUME NEW c \in Conns, StartSse(c)
      PROVE  IndexInv'
  <2>1. [op |-> "subscribe", stream |-> SseStream[c], answer |-> "none"] \in Requests
    BY StreamsAssumption DEF Requests
  <2>2. UNCHANGED <<closed, revoked, access, redis>>
    BY <1>4 DEF StartSse, redis
  <2> QED
    BY <1>2, <1>4, <2>1, <2>2 DEF StartSse
<1>5. ASSUME NEW c \in Conns, NEW i \in Slots, ReadAccess(c, i)
      PROVE  IndexInv'
  <2>1. awaiting[c][i] \in Requests
    BY <1>5, AwaitingParts DEF ReadAccess
  <2>2. TypeOK'
    BY <1>5, <2>1 DEF ReadAccess, TypeOK, conns, index, redis, Nothing, Requests
  <2>3. Indexed'
    BY <1>5, SameIndex DEF ReadAccess, index
  <2>4. phase[c] \in {"up", "ended"}
    BY <1>5 DEF ReadAccess, Unstarted
  <2>5. Unstarted'
    BY <1>5, <2>4 DEF ReadAccess, Unstarted, conns, index, TypeOK
  <2> QED
    BY <2>2, <2>3, <2>5
<1>6. ASSUME NEW c \in Conns, NEW i \in Slots, Answer(c, i)
      PROVE  IndexInv'
  <2>1. /\ IndexTypes' /\ Indexed'
        /\ \A d \in Conns \ {c} : session'[d] = session[d]
    <3>1. CASE awaiting[c][i].answer = "yes"
      BY <1>0, <1>6, <3>1, AwaitingParts, ApplyKeeps DEF Answer
    <3>2. CASE awaiting[c][i].answer # "yes"
      BY <1>0, <1>6, <3>2, SameIndex DEF Answer, index, IndexTypes
    <3> QED
      BY <3>1, <3>2
  <2>2. TypeOK'
    BY <1>6, <2>1 DEF Answer, TypeOK, IndexTypes, conns, redis, Nothing
  <2>3. phase[c] \in {"up", "ended"}
    BY <1>6 DEF Answer, Unstarted
  <2>4. Unstarted'
    BY <1>6, <2>1, <2>3 DEF Answer, Unstarted, conns, TypeOK
  <2> QED
    BY <2>1, <2>2, <2>4
<1>16. ASSUME NEW c \in Conns, NEW i \in Slots, Exit(c, i)
      PROVE  IndexInv'
  <2>1. TypeOK'
    BY <1>16 DEF Exit, TypeOK, Nothing
  <2>2. EntriesCalled'
    BY <1>16 DEF Exit, EntriesCalled
  <2>3. NoOrphans'
    BY <1>16 DEF Exit, NoOrphans
  <2>4. HeartsBeat'
    BY <1>16 DEF Exit, HeartsBeat
  <2>5. Unstarted'
    BY <1>16 DEF Exit, Unstarted
  <2> QED
    BY <2>1, <2>2, <2>3, <2>4, <2>5 DEF Indexed
<1>7. ASSUME NEW ch \in Channels, Obey(ch)
      PROVE  IndexInv'
  <2>1. Head(wire[ch]) \in {"subscribe", "unsubscribe"}
        /\ Tail(wire[ch]) \in Seq({"subscribe", "unsubscribe"})
    BY <1>7 DEF Obey, TypeOK
  <2>2. TypeOK'
    BY <1>7, <2>1 DEF Obey, TypeOK, conns, Nothing
  <2>3. Indexed'
    BY <1>7, SameIndex DEF Obey
  <2>4. Unstarted'
    BY <1>7 DEF Obey, Unstarted, conns
  <2> QED
    BY <2>2, <2>3, <2>4
<1>8. CASE Receive
  <2>1. news # <<>> /\ Head(news) \in Messages /\ Tail(news) \in Seq(Messages)
    BY <1>8 DEF Receive, TypeOK
  <2>2. Head(news).channel \in Channels
    BY <2>1 DEF Messages
  <2>3. ~Head(news).kill => Reached(Head(news).channel) \subseteq Conns \X Keys
    BY <2>1, <2>2, ReachedAreStreams DEF Messages
  <2>4. TypeOK'
    <3>1. sent' \in [channel : SUBSET Channels, to : SUBSET (Conns \X Keys)]
      BY <1>8, <2>2, <2>3 DEF Receive, Nothing
    <3>2. phase' \in [Conns -> {"none", "asking", "known", "refused", "up", "ended"}]
      BY <1>8 DEF Receive, TypeOK
    <3> QED
      BY <1>8, <2>1, <3>1, <3>2 DEF Receive, TypeOK, index
  <2>5. Indexed'
    BY <1>8, SameIndex DEF Receive, index
  <2>6. \A c \in Conns : phase'[c] = phase[c] \/ phase'[c] \in {"up", "ended"}
    BY <1>8 DEF Receive
  <2>7. \A c \in Conns : phase'[c] \notin {"up", "ended"} => phase[c] \notin {"up", "ended"}
    BY <1>8 DEF Receive, TypeOK
  <2>8. Unstarted'
    BY <1>8, <2>7 DEF Receive, Unstarted, index
  <2> QED
    BY <2>4, <2>5, <2>8
<1>9. ASSUME NEW c \in Conns, Connect(c)
      PROVE  IndexInv'
  <2>1. TypeOK'
    BY <1>9 DEF Connect, TypeOK, index, redis, Nothing
  <2>2. Indexed'
    BY <1>9, SameIndex DEF Connect, index
  <2>3. Unstarted'
    BY <1>9 DEF Connect, Unstarted, index, TypeOK
  <2> QED
    BY <2>1, <2>2, <2>3
<1>10. ASSUME NEW c \in Conns, Close(c)
       PROVE  IndexInv'
  <2>1. Present(c, Keys \cup SystemKeys) \in SUBSET (Keys \cup SystemKeys)
    BY DEF Present
  <2>2. IndexTypes' /\ Indexed'
    BY <1>0, <1>10, <2>1, RemoveKeeps DEF Close
  <2>3. TypeOK'
    BY <1>10, <2>2 DEF Close, TypeOK, IndexTypes, redis, Nothing
  <2>4. \A d \in Conns : session'[d] = session[d] \/ d = c
    BY <1>10 DEF Close, Remove, TypeOK
  <2>5. \A k \in Keys \cup SystemKeys : session'[c][k] = None
    BY <1>10 DEF Close, Remove, Present, TypeOK
  <2>6. UNCHANGED <<phase, awaiting>>
    BY <1>10 DEF Close
  <2>7. Unstarted'
    <3> SUFFICES ASSUME NEW d \in Conns, phase[d] \notin {"up", "ended"}
                 PROVE  /\ \A k \in Keys \cup SystemKeys : session'[d][k] = None
                        /\ \A i \in Slots : awaiting[d][i] = Free
      BY <2>6 DEF Unstarted
    <3> QED
      BY <2>4, <2>5 DEF Unstarted
  <2> QED
    BY <2>2, <2>3, <2>7
<1>11. ASSUME NEW c \in Conns, NEW s \in Streams, NEW op \in {"subscribe", "unsubscribe"},
              Ask(c, s, op)
       PROVE  IndexInv'
  <2>1. [op |-> op, stream |-> s, answer |-> "none"] \in Requests
    BY DEF Requests
  <2>2. (CHOOSE j \in Slots : awaiting[c][j] = Free) \in Slots
    BY <1>11 DEF Ask
  <2>3. TypeOK'
    BY <1>11, <2>1, <2>2 DEF Ask, TypeOK, conns, index, redis, Nothing
  <2>4. Indexed'
    BY <1>11, SameIndex DEF Ask, index
  <2>5. Unstarted'
    BY <1>11 DEF Ask, Speaks, Unstarted, conns, index, TypeOK
  <2> QED
    BY <2>3, <2>4, <2>5
<1>12. ASSUME NEW c \in Conns, NEW s \in Streams, NEW op \in {"subscribe", "unsubscribe"},
              Change(c, s, op)
       PROVE  IndexInv'
  <2>1. /\ IndexTypes' /\ Indexed'
        /\ \A d \in Conns \ {c} : session'[d] = session[d]
    BY <1>0, <1>12, ApplyKeeps DEF Change
  <2>2. TypeOK'
    BY <1>12, <2>1 DEF Change, TypeOK, IndexTypes, conns, redis, Nothing
  <2>3. UNCHANGED <<phase, awaiting>> /\ phase[c] \in {"up", "ended"}
    BY <1>12 DEF Change, Speaks, conns
  <2>4. Unstarted'
    <3> SUFFICES ASSUME NEW d \in Conns, phase[d] \notin {"up", "ended"}
                 PROVE  /\ \A k \in Keys \cup SystemKeys : session'[d][k] = None
                        /\ \A i \in Slots : awaiting[d][i] = Free
      BY <2>3 DEF Unstarted
    <3> QED
      BY <2>1, <2>3 DEF Unstarted
  <2> QED
    BY <2>1, <2>2, <2>4
<1>13. ASSUME NEW ch \in Channels, PublishData(ch) \/ Revoke(ch)
       PROVE  IndexInv'
  <2>1. news' \in Seq(Messages)
    <3>1. ch \notin SystemIdsOfAll => [channel |-> ch, kill |-> FALSE] \in Messages
      BY DEF Messages
    <3>2. ch \in SystemIdsOfAll => [channel |-> ch, kill |-> TRUE] \in Messages
      BY DEF Messages
    <3>3. CASE PublishData(ch)
      BY <3>1, <3>3 DEF PublishData, Publish, TypeOK
    <3>4. CASE Revoke(ch)
      BY <3>2, <3>4 DEF Revoke, Publish, TypeOK
    <3> QED
      BY <1>13, <3>3, <3>4
  <2>2. TypeOK'
    <3>1. CASE PublishData(ch)
      BY <2>1, <3>1 DEF PublishData, Publish, TypeOK, conns, index, Nothing
    <3>2. CASE Revoke(ch)
      BY <2>1, <3>2 DEF Revoke, Publish, TypeOK, conns, index, Nothing
    <3> QED
      BY <1>13, <3>1, <3>2
  <2>3. Indexed'
    BY <1>13, SameIndex DEF PublishData, Revoke, index
  <2>4. Unstarted'
    BY <1>13 DEF PublishData, Revoke, Unstarted, conns, index
  <2> QED
    BY <2>2, <2>3, <2>4
<1>14. ASSUME NEW a \in Accounts, NEW s \in Guarded, LoseAccess(a, s)
       PROVE  IndexInv'
  <2>1. TypeOK'
    BY <1>14 DEF LoseAccess, TypeOK, conns, index, redis, Nothing
  <2>2. Indexed'
    BY <1>14, SameIndex DEF LoseAccess, index
  <2>3. Unstarted'
    BY <1>14 DEF LoseAccess, Unstarted, conns, index
  <2> QED
    BY <2>1, <2>2, <2>3
<1>15. CASE UNCHANGED vars
  <2>1. TypeOK'
    BY <1>15 DEF vars, TypeOK, conns, index, redis
  <2>2. Indexed'
    BY <1>15, SameIndex DEF vars, index
  <2>3. Unstarted'
    BY <1>15 DEF vars, Unstarted, conns, index
  <2> QED
    BY <2>1, <2>2, <2>3
<1> QED
  BY <1>1, <1>3, <1>4, <1>5, <1>6, <1>7, <1>8, <1>9, <1>10, <1>11, <1>12, <1>13, <1>14, <1>15,
     <1>16 DEF Next

\* The type invariant, of every state of the server.
THEOREM TypesHold == Spec => []TypeOK
<1>1. IndexInv => TypeOK
  BY DEF IndexInv
<1> QED
  BY <1>1, InitIndexed, StepIndexed, PTL DEF Spec

\* Sessions, listeners and heartbeats agree, however many connections come and go and in
\* whatever order the database answers: no orphan is left, nothing is sent twice.
THEOREM IndexHolds == Spec => []Indexed
<1>1. IndexInv => Indexed
  BY DEF IndexInv
<1> QED
  BY <1>1, InitIndexed, StepIndexed, PTL DEF Spec

--------------------------------------------------------------------------------
(* Closing. *)

\* removeSubscription of all of a session's entries leaves nothing of it.
LEMMA CloseStep ==
  ASSUME IndexInv, NEW c \in Conns, Close(c)
  PROVE  CalledFor(c)' = {} /\ \A l \in hearts' : l.conn # c
<1> DEFINE ks == Present(c, Keys \cup SystemKeys)
<1>1. \A ch \in Channels : subs'[ch] = subs[ch] \ Taken(c, ks, ch)
  BY DEF Close, Remove, Unsubscribe
<1>2. ASSUME NEW ch \in Channels, NEW l \in subs'[ch], l.conn = c
      PROVE  FALSE
  <2>1. l \in subs[ch] /\ l \in Listeners /\ l \notin Taken(c, ks, ch)
    BY <1>1, <1>2 DEF IndexInv, TypeOK
  <2>2. ch \in Range(l.ids) /\ session[c][EntryOf(l, ch)] = l
    BY <1>2, <2>1 DEF IndexInv, Indexed, NoOrphans
  <2>3. /\ EntryOf(l, ch) \in Keys \cup SystemKeys /\ ch \in Range(EntryOf(l, ch))
        /\ l # None
    BY <2>1, <2>2, EntryOfType, ListenerParts
  <2> QED
    BY <2>1, <2>2, <2>3 DEF Taken, Present
<1>3. ASSUME NEW l \in hearts', l.conn = c
      PROVE  FALSE
  <2>1. l \in hearts /\ l \notin {session[c][k] : k \in ks}
    BY <1>3 DEF Close, Remove
  <2>2. PICK d \in Conns, k \in Keys : l = session[d][k] /\ l # None
    BY <2>1 DEF IndexInv, Indexed, HeartsBeat
  <2>3. d = c
    BY <1>3, <2>2 DEF IndexInv, Indexed, EntriesCalled
  <2> QED
    BY <2>1, <2>2, <2>3 DEF Present
<1> QED
  BY <1>2, <1>3 DEF CalledFor

\* Closing a connection leaves nothing of what it had.
THEOREM ClosingTakesAll == Spec => CloseTakesAll
<1> DEFINE Leaves == \A c \in closed' \ closed :
                       CalledFor(c)' = {} /\ \A l \in hearts' : l.conn # c
<1>1. IndexInv /\ [Next]_vars => [Leaves]_vars
  <2> SUFFICES ASSUME IndexInv, Next, NEW c \in closed' \ closed
               PROVE  CalledFor(c)' = {} /\ \A l \in hearts' : l.conn # c
    OBVIOUS
  <2>1. CASE c \in Conns /\ Close(c)
    BY <2>1, CloseStep
  <2>2. ASSUME NEW d \in Conns, NEW i \in Slots, Exit(d, i)
        PROVE  CalledFor(c)' = {} /\ \A l \in hearts' : l.conn # c
    BY <2>2 DEF Exit, CalledFor
  <2>3. \/ c \in Conns /\ Close(c)
        \/ \E d \in Conns, i \in Slots : Exit(d, i)
    BY DEF Next, ReadAccount, Upgrade, StartSse, ReadAccess, Answer, Obey, Receive, Connect,
           Close, Ask, Change, PublishData, Revoke, LoseAccess, conns, IndexInv, TypeOK
  <2> QED
    BY <2>1, <2>2, <2>3
<1> QED
  BY <1>1, InitIndexed, StepIndexed, PTL DEF Spec, CloseTakesAll

--------------------------------------------------------------------------------
(* Redis. *)

\* What a channel's next command asked changes with its last one only.
LEMMA AppendLast ==
  ASSUME NEW q \in Seq({"subscribe", "unsubscribe"}), NEW x \in {"subscribe", "unsubscribe"}
  PROVE  Append(q, x) # <<>> /\ Append(q, x)[Len(Append(q, x))] = x
  OBVIOUS

\* Adding a listener asks Redis for the channels that had none.
LEMMA SubscribeAgrees ==
  ASSUME IndexTypes, RedisAgrees, NEW ids, NEW l, Subscribe(ids, l), listening' = listening
  PROVE  RedisAgrees'
<1> SUFFICES ASSUME NEW ch \in Channels
             PROVE  subs'[ch] # {} <=> IF wire'[ch] = <<>> THEN ch \in listening'
                                       ELSE wire'[ch][Len(wire'[ch])] = "subscribe"
  BY DEF RedisAgrees
<1>1. CASE ch \in Range(ids) /\ subs[ch] = {}
  BY <1>1, AppendLast DEF Subscribe, IndexTypes
<1>2. CASE ~(ch \in Range(ids) /\ subs[ch] = {})
  <2>1. wire'[ch] = wire[ch] /\ (subs'[ch] # {} <=> subs[ch] # {})
    BY <1>2 DEF Subscribe
  <2> QED
    BY <2>1 DEF RedisAgrees
<1> QED
  BY <1>1, <1>2

\* Taking listeners away tells Redis of the channels that have none left.
LEMMA UnsubscribeAgrees ==
  ASSUME IndexTypes, RedisAgrees, NEW c, NEW ks, Unsubscribe(c, ks), listening' = listening
  PROVE  RedisAgrees'
<1> SUFFICES ASSUME NEW ch \in Channels
             PROVE  subs'[ch] # {} <=> IF wire'[ch] = <<>> THEN ch \in listening'
                                       ELSE wire'[ch][Len(wire'[ch])] = "subscribe"
  BY DEF RedisAgrees
<1>1. CASE subs[ch] # {} /\ subs'[ch] = {}
  BY <1>1, AppendLast DEF Unsubscribe, IndexTypes
<1>2. CASE ~(subs[ch] # {} /\ subs'[ch] = {})
  <2>1. wire'[ch] = wire[ch] /\ (subs'[ch] # {} <=> subs[ch] # {})
    BY <1>2 DEF Unsubscribe
  <2> QED
    BY <2>1 DEF RedisAgrees
<1> QED
  BY <1>1, <1>2

\* Nothing else changes what is listened to or asked.
LEMMA SameAgrees ==
  ASSUME RedisAgrees, UNCHANGED <<subs, wire, listening>>
  PROVE  RedisAgrees'
  BY DEF RedisAgrees

\* Redis obeying a command leaves what it will end up with.
LEMMA ObeyAgrees ==
  ASSUME IndexTypes, RedisAgrees, NEW ch \in Channels, Obey(ch)
  PROVE  RedisAgrees'
<1>1. ASSUME NEW e \in Channels
      PROVE  subs'[e] # {} <=> IF wire'[e] = <<>> THEN e \in listening'
                               ELSE wire'[e][Len(wire'[e])] = "subscribe"
  <2>1. CASE e # ch
    BY <2>1 DEF Obey, RedisAgrees, IndexTypes
  <2>2. CASE e = ch
    <3> DEFINE q == wire[ch]
    <3>1. q \in Seq({"subscribe", "unsubscribe"}) /\ q # <<>>
      BY DEF Obey, IndexTypes
    <3>2. wire'[ch] = Tail(q) /\ subs'[ch] = subs[ch]
      BY DEF Obey, IndexTypes
    <3>3. subs[ch] # {} <=> q[Len(q)] = "subscribe"
      BY <3>1 DEF RedisAgrees
    <3> HIDE DEF q
    <3>4. Len(q) \in Nat /\ Len(q) > 0
      BY <3>1, EmptySeq
    <3>5. PICK t \in Seq({"subscribe", "unsubscribe"}) :
            /\ t = Tail(q) /\ Len(t) = Len(q) - 1 /\ \A i \in 1..Len(t) : t[i] = q[i + 1]
      BY <3>1, HeadTailProperties
    <3>6. Len(t) \in Nat /\ (t = <<>> <=> Len(t) = 0)
      BY EmptySeq
    <3>7. ch \in listening' <=> Head(q) = "subscribe"
      BY DEF Obey, q
    <3>8. CASE Len(q) = 1
      <4>1. Head(q) = q[Len(q)]
        BY <3>1, <3>8
      <4>2. Len(t) = 0
        BY <3>5, <3>6, <3>8
      <4>3. t = <<>>
        BY <3>6, <4>2
      <4> QED
        BY <2>2, <3>2, <3>3, <3>5, <3>7, <4>1, <4>3
    <3>9. CASE Len(q) # 1
      <4>1. Len(t) # 0 /\ Len(t) \in 1..Len(t) /\ Len(t) + 1 = Len(q)
        BY <3>4, <3>5, <3>6, <3>9
      <4>2. t[Len(t)] = q[Len(q)]
        BY <3>5, <4>1
      <4>3. t # <<>>
        BY <3>6, <4>1
      <4> QED
        BY <2>2, <3>2, <3>3, <3>5, <4>2, <4>3
    <3> QED
      BY <3>8, <3>9
  <2> QED
    BY <2>1, <2>2
<1> QED
  BY <1>1 DEF RedisAgrees

\* What a request does, and what Redis is asked with it.
LEMMA ApplyAgrees ==
  ASSUME IndexTypes, RedisAgrees, NEW c, NEW s, NEW op, Apply(c, s, op), listening' = listening
  PROVE  RedisAgrees'
<1>1. CASE Attach(c, s)
  BY <1>1, SubscribeAgrees, SameAgrees DEF Attach, index
<1>2. CASE Remove(c, Present(c, {StreamIds[c][s]}))
  BY <1>2, UnsubscribeAgrees DEF Remove
<1> QED
  BY <1>1, <1>2 DEF Apply

\* Redis ends up sending the channels that are listened to, and no others.
THEOREM RedisFollows == Spec => []RedisAgrees
<1>1. Init => RedisAgrees
  BY DEF Init, RedisAgrees
<1>2. IndexInv /\ RedisAgrees /\ [Next]_vars => RedisAgrees'
  <2> SUFFICES ASSUME IndexInv, RedisAgrees, [Next]_vars
               PROVE  RedisAgrees'
    OBVIOUS
  <2>1. IndexTypes
    BY DEF IndexInv, TypeOK, IndexTypes
  <2>2. ASSUME NEW c \in Conns, Upgrade(c) \/ StartSse(c)
        PROVE  RedisAgrees'
    BY <2>1, <2>2, SubscribeAgrees DEF Upgrade, StartSse, AttachSystem, redis
  <2>3. ASSUME NEW c \in Conns, NEW i \in Slots, Answer(c, i)
        PROVE  RedisAgrees'
    BY <2>1, <2>3, ApplyAgrees, SameAgrees DEF Answer, redis, index
  <2>4. ASSUME NEW c \in Conns, NEW s \in Streams,
               NEW op \in {"subscribe", "unsubscribe"}, Change(c, s, op)
        PROVE  RedisAgrees'
    BY <2>1, <2>4, ApplyAgrees DEF Change, redis
  <2>5. ASSUME NEW c \in Conns, Close(c)
        PROVE  RedisAgrees'
    BY <2>1, <2>5, UnsubscribeAgrees DEF Close, Remove, redis
  <2>6. ASSUME NEW ch \in Channels, Obey(ch)
        PROVE  RedisAgrees'
    BY <2>1, <2>6, ObeyAgrees
  <2>7. CASE UNCHANGED <<subs, wire, listening>>
    BY <2>7, SameAgrees
  <2>8. ASSUME NEW c \in Conns, NEW i \in Slots, Exit(c, i)
        PROVE  RedisAgrees'
    BY <2>8 DEF Exit, RedisAgrees
  <2> QED
    BY <2>2, <2>3, <2>4, <2>5, <2>6, <2>7, <2>8
       DEF Next, ReadAccount, ReadAccess, Receive, Connect, Ask, PublishData, Revoke, Publish,
           LoseAccess, vars, index, redis
<1> QED
  BY <1>1, <1>2, InitIndexed, StepIndexed, PTL DEF Spec

--------------------------------------------------------------------------------
(* The server implements StreamAudience. *)

\* Who listens, and who was dropped, as the server has them.
Heard == {e \in Conns \X Keys : Open(e[1]) /\ session[e[1]][e[2]] # None}
Gone == {c \in Conns : phase[c] = "ended" \/ c \in closed}

\* A message reaches those who listen to its channel, each for its stream.
LEMMA ReachesHeard ==
  ASSUME IndexInv, NEW ch \in Channels \ SystemIdsOfAll
  PROVE  Reached(ch) = {e \in Heard : ch \in Range(e[2])}
<1>1. ASSUME NEW l \in subs[ch], Open(l.conn)
      PROVE  <<l.conn, l.ids>> \in Heard /\ ch \in Range(l.ids)
  <2>1. l \in Listeners /\ ch \in Range(l.ids) /\ session[l.conn][EntryOf(l, ch)] = l
    BY DEF IndexInv, TypeOK, Indexed, NoOrphans
  <2>2. l.conn \in Conns /\ l.ids \in Keys /\ l # None
    BY <2>1, ListenerParts DEF SystemIdsOfAll
  <2>3. EntryOf(l, ch) = l.ids
    BY <2>2, KeysApart DEF EntryOf
  <2> QED
    BY <1>1, <2>1, <2>2, <2>3 DEF Heard
<1>2. ASSUME NEW c \in Conns, NEW k \in Keys, <<c, k>> \in Heard, ch \in Range(k)
      PROVE  <<c, k>> \in Reached(ch)
  <2>1. Open(c) /\ session[c][k] # None
    BY <1>2 DEF Heard
  <2>2. session[c][k] \in subs[ch] /\ session[c][k].conn = c /\ session[c][k].ids = k
    BY <1>2, <2>1, KeysApart DEF IndexInv, Indexed, EntriesCalled
  <2> QED
    BY <2>1, <2>2 DEF Reached
<1>3. \A e \in Heard : e[1] \in Conns /\ e[2] \in Keys /\ e = <<e[1], e[2]>>
  BY DEF Heard
<1>4. \A e \in Heard : ch \in Range(e[2]) => e \in Reached(ch)
  BY <1>2, <1>3
<1>5. \A e \in Reached(ch) : e \in Heard /\ ch \in Range(e[2])
  BY <1>1 DEF Reached
<1> QED
  BY <1>4, <1>5

\* What StreamAudience would do, in the server's terms.
Hushed == sent' = Nothing /\ Heard' = Heard /\ Gone' = Gone
Joins(c, k) == c \notin Gone /\ sent' = Nothing /\ Gone' = Gone /\ Heard' = Heard \cup {<<c, k>>}
Leaves(c, k) == sent' = Nothing /\ Gone' = Gone /\ Heard' = Heard \ {<<c, k>>}
Drops(cs) == sent' = Nothing /\ Gone' = Gone \cup cs /\ Heard' = {e \in Heard : e[1] \notin cs}
Sends(ch) ==
  /\ sent' = [channel |-> {ch}, to |-> {e \in Heard : ch \in Range(e[2])}]
  /\ Heard' = Heard /\ Gone' = Gone

AudienceStep ==
  \/ Hushed
  \/ \E c \in Conns, k \in Keys : Joins(c, k) \/ Leaves(c, k)
  \/ \E cs \in SUBSET Conns : Drops(cs)
  \/ \E ch \in Channels : Sends(ch)

\* Nobody's listening changes when neither their connection nor their session does.
LEMMA SameHeard ==
  ASSUME closed' = closed,
         \A c \in Conns : phase'[c] = phase[c] \/ {phase[c], phase'[c]} \cap {"up", "ended"} = {},
         \A c \in Conns, k \in Keys : session'[c][k] = session[c][k]
  PROVE  Heard' = Heard /\ Gone' = Gone
<1>1. \A c \in Conns : Open(c)' <=> Open(c)
  BY DEF Open
<1>2. \A e : e \in Heard' <=> e \in Heard
  BY <1>1 DEF Heard, Open
<1>3. \A c : c \in Gone' <=> c \in Gone
  BY DEF Gone
<1> QED
  BY <1>2, <1>3

\* What a request does joins or leaves one stream, or nothing.
LEMMA ApplyStep ==
  ASSUME IndexInv, NEW c \in Conns, NEW s \in Streams, NEW op, Apply(c, s, op),
         UNCHANGED conns, sent' = Nothing
  PROVE  AudienceStep
<1> DEFINE k == StreamIds[c][s]
<1>1. k \in Keys
  BY DEF Keys
<1>2. Gone' = Gone /\ \A d \in Conns : Open(d)' <=> Open(d)
  BY DEF conns, Gone, Open
<1>3. CASE Attach(c, s) /\ session[c][k] = None
  <2>1. PICK l : session' = [session EXCEPT ![c][k] = l] /\ l \in Listeners
    <3>1. \A ch \in Channels : \A m \in subs[ch] : ~(m.conn = c /\ m.ids = k)
      BY <1>1, <1>3, AbsentUnheard DEF IndexInv, Indexed, TypeOK, IndexTypes
    <3>2. NewListener(c, k) \in Listeners
      BY <1>1, <3>1, NewListenerIsNew
    <3> QED
      BY <1>3, <3>2 DEF Attach
  <2>2. \A d \in Conns, j \in Keys :
          session'[d][j] = IF d = c /\ j = k THEN l ELSE session[d][j]
    BY <1>1, <2>1 DEF IndexInv, TypeOK
  <2>3. l # None
    BY <2>1, NoneAssumption
  <2> HIDE DEF k
  <2>4. CASE Open(c)
    <3>1. c \notin Gone
      BY <2>4 DEF Gone, Open
    <3>2. ASSUME NEW d \in Conns, NEW j \in Keys
          PROVE  <<d, j>> \in Heard' <=> <<d, j>> \in Heard \cup {<<c, k>>}
      BY <1>1, <1>2, <2>2, <2>3, <2>4 DEF Heard
    <3>3. Heard' = Heard \cup {<<c, k>>}
      BY <1>1, <3>2 DEF Heard
    <3> QED
      BY <1>1, <1>2, <3>1, <3>3 DEF AudienceStep, Joins
  <2>5. CASE ~Open(c)
    <3>1. ASSUME NEW d \in Conns, NEW j \in Keys
          PROVE  <<d, j>> \in Heard' <=> <<d, j>> \in Heard
      BY <1>2, <2>2, <2>5 DEF Heard
    <3>2. Heard' = Heard
      BY <3>1 DEF Heard
    <3> QED
      BY <1>2, <3>2 DEF AudienceStep, Hushed
  <2> QED
    BY <2>4, <2>5
<1>4. CASE Attach(c, s) /\ session[c][k] # None
  <2>1. session' = session
    BY <1>4 DEF Attach, index
  <2>2. Heard' = Heard
    BY <2>1, SameHeard DEF conns
  <2> QED
    BY <1>2, <2>2 DEF AudienceStep, Hushed
<1>5. CASE Remove(c, Present(c, {k}))
  <2>1. \A d \in Conns, j \in Keys :
          session'[d][j] = IF d = c /\ j = k THEN None ELSE session[d][j]
    BY <1>1, <1>5 DEF Remove, Present, IndexInv, TypeOK
  <2> HIDE DEF k
  <2>2. ASSUME NEW d \in Conns, NEW j \in Keys
        PROVE  <<d, j>> \in Heard' <=> <<d, j>> \in Heard \ {<<c, k>>}
    BY <1>2, <2>1 DEF Heard
  <2>3. Heard' = Heard \ {<<c, k>>}
    BY <2>2 DEF Heard
  <2> QED
    BY <1>1, <1>2, <2>3 DEF AudienceStep, Leaves
<1> QED
  BY <1>3, <1>4, <1>5 DEF Apply

\* Every step of the server is one of StreamAudience.
LEMMA StepAudience ==
  ASSUME IndexInv, [Next]_vars
  PROVE  AudienceStep \/ UNCHANGED <<Heard, Gone, sent>>
<1>1. ASSUME NEW c \in Conns, ReadAccount(c) \/ Connect(c)
      PROVE  AudienceStep
  <2>1. Heard' = Heard /\ Gone' = Gone /\ sent' = Nothing
    BY <1>1, SameHeard DEF ReadAccount, Connect, index, IndexInv, TypeOK
  <2> QED
    BY <2>1 DEF AudienceStep, Hushed
<1>2. ASSUME NEW c \in Conns, Upgrade(c) \/ StartSse(c)
      PROVE  AudienceStep
  <2>1. /\ AttachSystem(c) /\ phase[c] = "known" /\ phase' = [phase EXCEPT ![c] = "up"]
        /\ closed' = closed /\ sent' = Nothing
    BY <1>2 DEF Upgrade, StartSse
  <2>2. \A d \in Conns, k \in Keys : session'[d][k] = session[d][k]
    <3>1. <<TokenChannel[c]>> \notin Keys /\ <<SystemChannel[c]>> \notin Keys
      BY KeysApart DEF SystemKeys
    <3>2. PICK l : session' = [session EXCEPT ![c][<<TokenChannel[c]>>] = l,
                                              ![c][<<SystemChannel[c]>>] = l]
      BY <2>1 DEF AttachSystem
    <3> QED
      BY <3>1, <3>2 DEF IndexInv, TypeOK
  <2>3. \A k \in Keys : session[c][k] = None
    BY <2>1 DEF IndexInv, Unstarted
  <2>4. ASSUME NEW d \in Conns, NEW k \in Keys
        PROVE  <<d, k>> \in Heard' <=> <<d, k>> \in Heard
    BY <2>1, <2>2, <2>3 DEF Heard, Open, IndexInv, TypeOK
  <2>5. Heard' = Heard
    BY <2>4 DEF Heard
  <2>6. Gone' = Gone
    BY <2>1 DEF Gone, IndexInv, TypeOK
  <2> QED
    BY <2>1, <2>5, <2>6 DEF AudienceStep, Hushed
<1>3. ASSUME NEW c \in Conns, NEW i \in Slots, Answer(c, i)
      PROVE  AudienceStep
  <2>1. CASE awaiting[c][i].answer = "yes"
    <3>1. awaiting[c][i].stream \in Streams
      BY <1>3, AwaitingParts DEF Answer, IndexInv
    <3> QED
      BY <1>3, <2>1, <3>1, ApplyStep DEF Answer
  <2>2. CASE awaiting[c][i].answer # "yes"
    <3>1. Heard' = Heard /\ Gone' = Gone /\ sent' = Nothing
      BY <1>3, <2>2, SameHeard DEF Answer, index, conns
    <3> QED
      BY <3>1 DEF AudienceStep, Hushed
  <2> QED
    BY <2>1, <2>2
<1>4. ASSUME NEW c \in Conns, NEW s \in Streams, NEW op \in {"subscribe", "unsubscribe"},
             Change(c, s, op)
      PROVE  AudienceStep
  BY <1>4, ApplyStep DEF Change
<1>5. ASSUME NEW c \in Conns, Close(c)
      PROVE  AudienceStep
  <2>1. /\ \A d \in Conns, k \in Keys : d # c => session'[d][k] = session[d][k]
        /\ phase' = phase /\ closed' = closed \cup {c} /\ sent' = Nothing
    BY <1>5 DEF Close, Remove, IndexInv, TypeOK
  <2>2. ASSUME NEW d \in Conns, NEW k \in Keys
        PROVE  <<d, k>> \in Heard' <=> <<d, k>> \in Heard /\ d \notin {c}
    BY <2>1 DEF Heard, Open
  <2>3. Heard' = {e \in Heard : e[1] \notin {c}}
    BY <2>2 DEF Heard
  <2>4. Gone' = Gone \cup {c}
    BY <2>1 DEF Gone
  <2> QED
    BY <2>1, <2>3, <2>4 DEF AudienceStep, Drops
<1>6. CASE Receive
  <2> DEFINE ch == Head(news).channel
  <2>1. Head(news) \in Messages /\ ch \in Channels
    BY <1>6 DEF Receive, IndexInv, TypeOK, Messages
  <2>2. closed' = closed /\ session' = session
    BY <1>6 DEF Receive, index
  <2>3. CASE Head(news).kill
    <3>1. /\ phase' = [c \in Conns |-> IF c \in Killed(ch) THEN "ended" ELSE phase[c]]
          /\ sent' = Nothing
      BY <1>6, <2>3 DEF Receive
    <3>2. Killed(ch) \in SUBSET Conns
      BY DEF Killed
    <3> HIDE DEF ch
    <3>3. ASSUME NEW d \in Conns, NEW k \in Keys
          PROVE  <<d, k>> \in Heard' <=> <<d, k>> \in Heard /\ d \notin Killed(ch)
      BY <2>2, <3>1 DEF Heard, Open
    <3>4. Heard' = {e \in Heard : e[1] \notin Killed(ch)}
      BY <3>3 DEF Heard
    <3>5. Gone' = Gone \cup Killed(ch)
      BY <2>2, <3>1, <3>2 DEF Gone
    <3> QED
      BY <3>1, <3>2, <3>4, <3>5 DEF AudienceStep, Drops
  <2>4. CASE ~Head(news).kill
    <3>1. ch \in Channels \ SystemIdsOfAll
      BY <2>1, <2>4 DEF Messages
    <3>2. phase' = phase /\ sent' = [channel |-> {ch}, to |-> Reached(ch)]
      BY <1>6, <2>4 DEF Receive
    <3>3. Heard' = Heard /\ Gone' = Gone
      BY <2>2, <3>2, SameHeard
    <3> HIDE DEF ch
    <3>4. Reached(ch) = {e \in Heard : ch \in Range(e[2])}
      BY <3>1, ReachesHeard
    <3> QED
      BY <2>1, <3>2, <3>3, <3>4 DEF AudienceStep, Sends, ch
  <2> QED
    BY <2>3, <2>4
<1>8. ASSUME NEW c \in Conns, NEW i \in Slots, Exit(c, i)
      PROVE  AudienceStep
  <2> DEFINE cs == {d \in Conns : phase[d] # "none"}
  <2>1. /\ closed' = closed \cup cs /\ sent' = Nothing
        /\ phase' = [d \in Conns |-> IF phase[d] = "none" THEN "none" ELSE "ended"]
        /\ \A d \in Conns, k \in Keys : session'[d][k] = None
    BY <1>8 DEF Exit
  <2>2. Heard' = {} /\ \A e \in Heard : e[1] \in cs
    BY <2>1 DEF Heard, Open
  <2>3. Gone' = Gone \cup cs
    BY <2>1 DEF Gone
  <2> QED
    BY <2>1, <2>2, <2>3 DEF AudienceStep, Drops
<1>7. CASE UNCHANGED <<phase, closed, session>> /\ (sent' = Nothing \/ UNCHANGED sent)
  <2>1. Heard' = Heard /\ Gone' = Gone
    BY <1>7, SameHeard
  <2> QED
    BY <1>7, <2>1 DEF AudienceStep, Hushed
<1> QED
  BY <1>1, <1>2, <1>3, <1>4, <1>5, <1>6, <1>7, <1>8
     DEF Next, ReadAccess, Obey, Ask, PublishData, Revoke, LoseAccess, vars, conns, index

\* The server gives what StreamAudience promises.
THEOREM AudienceImplemented == Spec => ImplementsAudience
<1>1. Init => Audience!Init
  <2> SUFFICES ASSUME Init PROVE Audience!Init
    OBVIOUS
  <2>1. Heard = {} /\ Gone = {}
    BY DEF Init, Heard, Open, Gone
  <2> QED
    BY <2>1 DEF Init, Audience!Init, Heard, Gone, Nothing, Audience!Nothing
<1>2. IndexInv /\ [Next]_vars => [Audience!Next]_(Audience!audienceVars)
  <2> SUFFICES ASSUME IndexInv, [Next]_vars
               PROVE  [Audience!Next]_(Audience!audienceVars)
    OBVIOUS
  <2>1. CASE Hushed
    BY <2>1 DEF Hushed, Heard, Gone, Nothing, Audience!Nothing, Audience!Next, Audience!Silence
  <2>2. ASSUME NEW c \in Conns, NEW k \in Keys, Joins(c, k)
        PROVE  Audience!Next
    BY <2>2 DEF Joins, Heard, Gone, Nothing, Audience!Nothing, Audience!Next, Audience!Join
  <2>3. ASSUME NEW c \in Conns, NEW k \in Keys, Leaves(c, k)
        PROVE  Audience!Next
    BY <2>3 DEF Leaves, Heard, Gone, Nothing, Audience!Nothing, Audience!Next, Audience!Leave
  <2>4. ASSUME NEW cs \in SUBSET Conns, Drops(cs)
        PROVE  Audience!Next
    BY <2>4 DEF Drops, Heard, Gone, Nothing, Audience!Nothing, Audience!Next, Audience!Drop
  <2>5. ASSUME NEW ch \in Channels, Sends(ch)
        PROVE  Audience!Next
    BY <2>5 DEF Sends, Heard, Gone, Range, Audience!Range, Audience!Next, Audience!Send
  <2>6. CASE UNCHANGED <<Heard, Gone, sent>>
    BY <2>6 DEF Heard, Gone, Audience!audienceVars
  <2>7. AudienceStep \/ UNCHANGED <<Heard, Gone, sent>>
    BY StepAudience
  <2> QED
    BY <2>1, <2>2, <2>3, <2>4, <2>5, <2>6, <2>7 DEF AudienceStep
<1> QED
  BY <1>1, <1>2, InitIndexed, StepIndexed, PTL DEF Spec, ImplementsAudience, Audience!Spec
================================================================================
