--------------------------------- MODULE Drafts ---------------------------------
(***************************************************************************)
(* Drafts of one composer in one browser tab (hooks/useDraft.ts), with the *)
(* server's copies (Api::V1::DraftsController) and this device's.          *)
(*                                                                         *)
(* Each time the composer opens is a mount, with refs of its own.  Its     *)
(* saves run one at a time, in a chain that outlives it.  Timers, answers  *)
(* and what the writer does come in any order; what is ready in a chain    *)
(* runs before any of them.                                                *)
(*                                                                         *)
(* A text is what was typed so far: the work it is of, and how much was    *)
(* typed before it.  Uploads, versions of a composer's fields, drafts of   *)
(* other composers and devices, and the limit of 50, are left out.         *)
(***************************************************************************)
EXTENDS Integers, Sequences, FiniteSets, SequencesExt

CONSTANTS
  Mounts,     \* bound: times the composer is opened, 1..n
  MaxTyped,   \* bound: texts typed
  MaxAsked,   \* bound: drafts asked for that are not loaded yet
  MaxTroubles,  \* bound: kinds of Troubles that come
  Failures,   \* what may fail: "signal", requests or answers are lost; "tab", the tab is closed
  Resuming,   \* a draft is put back on opening; not so from a record, or after half an hour
  None

ASSUME DraftsAssumption ==
  /\ Mounts \subseteq Nat /\ Mounts # {}
  /\ MaxTyped \in Nat /\ MaxAsked \in Nat /\ MaxTroubles \in Nat
  /\ Failures \subseteq {"signal", "tab"} /\ Resuming \subseteq BOOLEAN

\* Whatever the writer does in the way of the hook, it lets them: "early", the composer is
\* opened before its earlier saves and discards are over; "list", something is written before
\* its drafts are back; "switch", the writer goes on, or asks for another draft, while the one
\* asked for waits for a save; "quick", the composer closes, or is emptied, within
\* LOCAL_DEBOUNCE of typing.
Troubles == Failures \cup {"early", "list", "switch", "quick"}

Texts == [work : 1..MaxTyped, n : 1..MaxTyped]
Ids == Nat \ {0}
Listed == [id : Ids, text : Texts]
Copies == [id : Ids \cup {None}, text : Texts, newer : BOOLEAN]
Calls == [id : Ids, text : Texts, forgotten : BOOLEAN, at : {"sent", "saved", "failed"}]
           \cup [id : {None}, text : Texts, forgotten : BOOLEAN, at : {"sent", "failed"}]

ASSUME NoneAssumption ==
  None \notin Ids \cup Texts \cup [id : Ids \cup {None}, text : Texts] \cup Copies \cup Calls

VARIABLES
  drafts,   \* the server's drafts, last saved first
  made,     \* how many drafts the server made
  device,   \* the copy in localStorage
  mount,    \* what each mount of the composer holds
  deleting, \* drafts of which a DELETE is on its way
  typed,    \* how many texts were typed
  wanted,   \* of each work, the text its writer wants kept
  gone,     \* the works discarded, posted, or left empty for the pause
  trouble   \* what has failed, or come in the way, so far

server == <<drafts, made>>
writer == <<typed, wanted, gone>>
vars == <<server, device, mount, deleting, writer, trouble>>

Unopened == [phase |-> "none", local |-> None, list |-> <<>>, field |-> None, work |-> 0,
             current |-> None, pending |-> None, sent |-> None, chain |-> <<>>, call |-> None,
             localDue |-> FALSE, serverDue |-> FALSE, emptyDue |-> FALSE]

Init ==
  /\ drafts = <<>> /\ made = 0
  /\ device = None
  /\ mount = [m \in Mounts |-> Unopened]
  /\ deleting = {}
  /\ typed = 0 /\ wanted = [w \in 1..MaxTyped |-> None] /\ gone = {}
  /\ trouble = {}

Becomes(m, r) == mount' = [mount EXCEPT ![m] = r]

\* Bound: only so many kinds of trouble come.
InTheWay(kinds) == trouble' = trouble \cup kinds /\ Cardinality(trouble') <= MaxTroubles

\* Bound: each failure comes once.
Failure(kind) == kind \in Failures \ trouble /\ InTheWay({kind})

\* A chain's next step waits for nothing.
Ready(m) == mount[m].chain # <<>> /\ mount[m].call = None

\* Nothing is ready: the event loop takes the next event.
Turn == \A m \in Mounts : ~Ready(m)

\* The list without the draft id, if it is there: no two have one id.
Without(list, id) ==
  IF \E i \in DOMAIN list : list[i].id = id
  THEN RemoveAt(list, CHOOSE i \in DOMAIN list : list[i].id = id)
  ELSE list

SaveIn(list, id, text) == <<[id |-> id, text |-> text]>> \o Without(list, id)

Copy(id, text, newer) == [id |-> id, text |-> text, newer |-> newer]

--------------------------------------------------------------------------------
(* The parts of the hook, as changes of a mount's record r. *)

\* flush: what is pending joins the chain.
Flush(r) ==
  IF r.pending = None THEN r
  ELSE [r EXCEPT !.pending = None,
                 !.chain = Append(@, [do |-> "save", text |-> r.pending, forgotten |-> FALSE])]

\* The effect of a change of the fields to text, or of having loaded.  Emptied by hand, a
\* draft goes after a pause; what was pending stays pending.
Written(r, text) ==
  IF text = None
  THEN [r EXCEPT !.field = None, !.localDue = FALSE, !.serverDue = FALSE,
                 !.emptyDue = r.current # None]
  ELSE [r EXCEPT !.field = text, !.work = text.work, !.pending = text,
                 !.localDue = TRUE, !.serverDue = TRUE, !.emptyDue = FALSE]

\* Altered (for an OwnWork mutant): the id of the draft that was open is kept.
LoadNameless(r, draft) ==
  LET text == IF draft = None THEN None ELSE draft.text
      s == [r EXCEPT !.pending = None, !.sent = None, !.work = IF text = None THEN 0 ELSE text.work]
  IN  IF r.phase # "open" \/ text = r.field THEN s ELSE Written(s, text)

\* load: the fields take the draft, or are blanked; of a composer that is closed they are no more.
Load(r, draft) ==
  LET text == IF draft = None THEN None ELSE draft.text
      s == [r EXCEPT !.pending = None, !.sent = None,
                     !.work = IF text = None THEN 0 ELSE text.work,
                     !.current = IF draft = None THEN None ELSE draft.id]
  IN  IF r.phase # "open" \/ text = r.field THEN s ELSE Written(s, text)

\* forget: saves under way are to be thrown away, and the draft deleted after them.
Forget(r) ==
  LET thrown == [i \in DOMAIN r.chain |->
                   IF r.chain[i].do = "save" THEN [r.chain[i] EXCEPT !.forgotten = TRUE]
                   ELSE r.chain[i]]
  IN  [r EXCEPT !.pending = None, !.current = None, !.work = 0, !.list = Without(@, r.current),
                !.localDue = FALSE, !.serverDue = FALSE, !.emptyDue = FALSE,
                !.call = IF @ = None THEN None ELSE [@ EXCEPT !.forgotten = TRUE],
                !.chain = IF r.current = None THEN thrown
                          ELSE Append(thrown, [do |-> "discard", id |-> r.current])]

--------------------------------------------------------------------------------
(* The writer. *)

\* The composer opens: the device copy is read, the drafts are asked for.
Open(m) ==
  /\ Turn
  /\ mount[m].phase = "none"
  /\ \A l \in Mounts : l < m => mount[l].phase = "closed"
  /\ InTheWay(IF deleting = {} /\ \A l \in Mounts : mount[l].chain = <<>> THEN {} ELSE {"early"})
  /\ Becomes(m, [Unopened EXCEPT !.phase = "listing", !.local = device])
  /\ UNCHANGED <<server, device, deleting, writer>>

Here(m) == Turn /\ mount[m].phase \in {"listing", "listed", "open"}

\* The drafts asked for that wait for a save.
AskedFor(r) == {i \in DOMAIN r.chain : r.chain[i].do = "load"}

\* What comes in the way when something is written, or another draft is asked for.
Waits(m) ==
  (IF mount[m].phase = "open" THEN {} ELSE {"list"})
    \cup (IF AskedFor(mount[m]) = {} THEN {} ELSE {"switch"})

\* The device has not got what was typed.
Quick(m) == IF mount[m].localDue THEN {"quick"} ELSE {}

\* Typing goes on with the work in the composer, or starts one; until its drafts are back,
\* the hook sees nothing of it.
Type(m) ==
  /\ Here(m) /\ InTheWay(Waits(m))
  /\ typed < MaxTyped
  /\ typed' = typed + 1
  /\ LET w == IF mount[m].work = 0 THEN typed' ELSE mount[m].work
         text == [work |-> w, n |-> typed']
     IN  /\ Becomes(m, IF mount[m].phase = "open" THEN Written(mount[m], text)
                        ELSE [mount[m] EXCEPT !.field = text, !.work = w])
         /\ wanted' = [wanted EXCEPT ![w] = text]
  /\ UNCHANGED <<server, device, deleting, gone>>

\* Everything is deleted by hand.
Empty(m) ==
  /\ Here(m) /\ InTheWay(Waits(m) \cup Quick(m))
  /\ mount[m].field # None
  /\ Becomes(m, Written(mount[m], None))
  /\ wanted' = [wanted EXCEPT ![mount[m].field.work] = None]
  /\ UNCHANGED <<server, device, deleting, typed, gone>>

\* startNew: this one is saved first, then the fields are blanked.
StartNew(m) ==
  /\ Here(m) /\ mount[m].phase = "open" /\ Cardinality(AskedFor(mount[m])) < MaxAsked
  /\ InTheWay(Waits(m))
  /\ LET r == Flush([mount[m] EXCEPT !.pending = IF mount[m].field = None THEN @ ELSE mount[m].field])
     IN  Becomes(m, [r EXCEPT !.chain = Append(@, [do |-> "load", draft |-> None])])
  /\ UNCHANGED <<server, device, deleting, writer>>

\* switchTo another draft of the list.
SwitchTo(m, d) ==
  /\ Here(m) /\ mount[m].phase = "open" /\ Cardinality(AskedFor(mount[m])) < MaxAsked
  /\ InTheWay(Waits(m))
  /\ d \in ToSet(mount[m].list) /\ d.id # mount[m].current
  /\ LET r == Flush([mount[m] EXCEPT !.pending = IF mount[m].field = None THEN @ ELSE mount[m].field])
     IN  Becomes(m, [r EXCEPT !.chain = Append(@, [do |-> "load", draft |-> d])])
  /\ UNCHANGED <<server, device, deleting, writer>>

\* discard, and finish after posting: the work is done with, and the fields are blanked.
Discard(m) ==
  /\ Here(m) /\ InTheWay(Waits(m))
  /\ mount[m].field # None
  /\ Becomes(m, [Forget(mount[m]) EXCEPT !.field = None])
  /\ device' = None
  /\ wanted' = [wanted EXCEPT ![mount[m].field.work] = None]
  /\ gone' = gone \cup {mount[m].field.work}
  /\ UNCHANGED <<server, deleting, typed>>

\* Altered (for a NothingLostUntroubled mutant): what is pending is left.
CloseUnsaved(m) ==
  /\ Here(m) /\ InTheWay(Quick(m))
  /\ Becomes(m, [mount[m] EXCEPT !.phase = "closed", !.field = None, !.pending = None,
                                 !.serverDue = FALSE, !.emptyDue = FALSE])
  /\ UNCHANGED <<server, device, deleting, writer>>

\* The composer closes: its timers go, and it saves on the way out.
Close(m) ==
  /\ Here(m) /\ InTheWay(Quick(m))
  /\ Becomes(m, [Flush(mount[m]) EXCEPT !.phase = "closed", !.field = None, !.localDue = FALSE,
                                        !.serverDue = FALSE, !.emptyDue = FALSE])
  /\ UNCHANGED <<server, device, deleting, writer>>

\* onPageHide: a device copy is left, and with the page go its chains.
CloseTab ==
  /\ Turn /\ Failure("tab")
  /\ \E m \in Mounts :
       /\ mount[m].phase \in {"listing", "listed", "open"}
       /\ device' = IF mount[m].field = None THEN device
                    ELSE Copy(mount[m].current, mount[m].field, TRUE)
  /\ mount' = [m \in Mounts |-> IF mount[m].phase = "none" THEN mount[m]
                                ELSE [Unopened EXCEPT !.phase = "closed"]]
  /\ UNCHANGED <<server, deleting, writer>>

--------------------------------------------------------------------------------
(* Timers. *)

\* LOCAL_DEBOUNCE has passed: the device has it.
LocalTimer(m) ==
  /\ Turn /\ mount[m].localDue
  /\ device' = Copy(mount[m].current, mount[m].field, TRUE)
  /\ Becomes(m, [mount[m] EXCEPT !.localDue = FALSE])
  /\ UNCHANGED <<server, deleting, writer, trouble>>

\* SERVER_DEBOUNCE has passed.
ServerTimer(m) ==
  /\ Turn /\ mount[m].serverDue /\ ~mount[m].localDue
  /\ Becomes(m, [Flush(mount[m]) EXCEPT !.serverDue = FALSE])
  /\ UNCHANGED <<server, device, deleting, writer, trouble>>

\* SERVER_DEBOUNCE has passed since it was emptied.
EmptyTimer(m) ==
  /\ Turn /\ mount[m].emptyDue
  /\ Becomes(m, Forget(mount[m]))
  /\ device' = None
  /\ gone' = gone \cup ({mount[m].work} \ {0})
  /\ UNCHANGED <<server, deleting, typed, wanted, trouble>>

--------------------------------------------------------------------------------
(* Opening: what the server has, and what the device has. *)

\* DraftsController#index; no signal is no drafts.
List(m) ==
  /\ Turn /\ mount[m].phase = "listing"
  /\ \/ /\ Becomes(m, [mount[m] EXCEPT !.phase = "listed", !.list = drafts])
        /\ UNCHANGED trouble
     \/ Becomes(m, [mount[m] EXCEPT !.phase = "listed"]) /\ Failure("signal")
  /\ UNCHANGED <<server, device, deleting, writer>>

\* mergeLocal: a device copy newer than the server's is laid over it; one the server never
\* got has no id; one of a draft the server does not list was discarded elsewhere.
Known(local, list) == \E i \in DOMAIN list : list[i].id = local.id
Dirty(local, list) == local # None /\ (local.id # None => local.newer /\ Known(local, list))

\* The drafts are back: the newest is put into an empty composer, or left aside, and a
\* device copy that was put back is sent up.  Having loaded counts as a change.
Loaded(m) ==
  /\ Turn /\ mount[m].phase = "listed"
  /\ \E resume \in Resuming :
       LET r == mount[m]
           dirty == Dirty(r.local, r.list)
           merged == IF dirty THEN SaveIn(r.list, r.local.id, r.local.text) ELSE r.list
           first == IF merged # <<>> /\ resume THEN Head(merged) ELSE None
           s == [r EXCEPT !.phase = "open", !.list = Without(merged, None),
                          !.current = IF first = None THEN None ELSE first.id]
           sent == IF dirty /\ first # None THEN Flush([s EXCEPT !.pending = first.text]) ELSE s
           text == IF first = None THEN r.field ELSE first.text
       IN  Becomes(m, IF text = None THEN sent ELSE Written(sent, text))
  /\ UNCHANGED <<server, device, deleting, writer, trouble>>

--------------------------------------------------------------------------------
(* The chain of saves. *)

\* A save runs: one that was forgotten, or that the server has, is skipped.
StartSave(m) ==
  /\ Ready(m) /\ Head(mount[m].chain).do = "save"
  /\ LET r == mount[m]
         job == Head(r.chain)
     IN  IF job.forgotten \/ (job.text = r.sent /\ r.current # None)
         THEN Becomes(m, [r EXCEPT !.chain = Tail(@)])
         ELSE Becomes(m, [r EXCEPT !.call =
                [id |-> r.current, text |-> job.text, forgotten |-> FALSE, at |-> "sent"]])
  /\ UNCHANGED <<server, device, deleting, writer, trouble>>

\* The one before is saved: the other draft is loaded.
StartLoad(m) ==
  /\ Ready(m) /\ Head(mount[m].chain).do = "load"
  /\ LET r == [mount[m] EXCEPT !.chain = Tail(@)]
     IN  Becomes(m, Load(r, Head(mount[m].chain).draft))
  /\ device' = None
  /\ UNCHANGED <<server, deleting, writer, trouble>>

StartDiscard(m) ==
  /\ Ready(m) /\ Head(mount[m].chain).do = "discard"
  /\ Becomes(m, [mount[m] EXCEPT !.chain = Tail(@)])
  /\ deleting' = deleting \cup {Head(mount[m].chain).id}
  /\ UNCHANGED <<server, device, writer, trouble>>

\* A copy of draft id, as the server saves the draft.
Older(copy, id) == IF copy # None /\ copy.id = id THEN [copy EXCEPT !.newer = FALSE] ELSE copy

\* DraftsController#create and #update: a draft that is gone is not found.
Save(m) ==
  /\ Turn /\ mount[m].call # None /\ mount[m].call.at = "sent"
  /\ LET c == mount[m].call
         id == IF c.id = None THEN made + 1 ELSE c.id
         found == c.id # None => \E i \in DOMAIN drafts : drafts[i].id = c.id
     IN  /\ made' = IF c.id = None THEN made + 1 ELSE made
         /\ drafts' = IF found THEN SaveIn(drafts, id, c.text) ELSE drafts
         /\ device' = IF found THEN Older(device, id) ELSE device
         /\ mount' = [l \in Mounts |->
              [mount[l] EXCEPT
                 !.local = IF found /\ mount[l].phase = "listing" THEN Older(@, id) ELSE @,
                 !.call = IF l # m THEN @ ELSE [@ EXCEPT !.at = IF found THEN "saved" ELSE "failed",
                                                         !.id = id]]]
  /\ UNCHANGED <<deleting, writer, trouble>>

\* There is no signal: the request, or its answer, is lost.
Fail(m) ==
  /\ Failure("signal")
  /\ mount[m].call # None /\ mount[m].call.at \in {"sent", "saved"}
  /\ Becomes(m, [mount[m] EXCEPT !.call.at = "failed"])
  /\ UNCHANGED <<server, device, deleting, writer>>

\* What Saved does, given whether the draft was forgotten and the id it goes on with.
SavedAs(m, forgotten, id) ==
  /\ Turn /\ mount[m].call # None /\ mount[m].call.at = "saved"
  /\ LET r == [mount[m] EXCEPT !.call = None, !.chain = Tail(@)]
         c == mount[m].call
     IN  IF forgotten
         THEN /\ Becomes(m, r)
              /\ deleting' = deleting \cup {c.id}
              /\ UNCHANGED device
         ELSE /\ Becomes(m, [r EXCEPT !.sent = c.text, !.current = id,
                                      !.list = SaveIn(@, c.id, c.text)])
              /\ device' = IF device # None /\ device.text = c.text
                           THEN Copy(c.id, c.text, FALSE) ELSE device
              /\ UNCHANGED deleting
  /\ UNCHANGED <<server, writer, trouble>>

\* Altered (for a GoneUntroubled mutant): a draft discarded while it was saved is kept.
SavedThough(m) == mount[m].call # None /\ SavedAs(m, FALSE, mount[m].call.id)

\* Altered (for an OnceUntroubled mutant): the id is not remembered.
SavedNameless(m) == mount[m].call # None /\ SavedAs(m, mount[m].call.forgotten, mount[m].current)

\* The server has it: its id is known, to the device too, unless it was forgotten meanwhile.
Saved(m) ==
  mount[m].call # None /\ SavedAs(m, mount[m].call.forgotten, mount[m].call.id)

\* Kept on this device.
Failed(m) ==
  /\ Turn /\ mount[m].call # None /\ mount[m].call.at = "failed"
  /\ Becomes(m, [mount[m] EXCEPT !.call = None, !.chain = Tail(@)])
  /\ UNCHANGED <<server, device, deleting, writer, trouble>>

\* DraftsController#destroy.
Destroy(id) ==
  /\ Turn /\ id \in deleting
  /\ deleting' = deleting \ {id}
  /\ \/ drafts' = Without(drafts, id) /\ UNCHANGED trouble
     \/ UNCHANGED drafts /\ Failure("signal")
  /\ UNCHANGED <<made, device, mount, writer>>

Next ==
  \/ \E m \in Mounts :
       \/ Open(m) \/ Type(m) \/ Empty(m) \/ StartNew(m) \/ Discard(m) \/ Close(m)
       \/ \E d \in ToSet(mount[m].list) : SwitchTo(m, d)
       \/ LocalTimer(m) \/ ServerTimer(m) \/ EmptyTimer(m)
       \/ List(m) \/ Loaded(m)
       \/ StartSave(m) \/ StartLoad(m) \/ StartDiscard(m)
       \/ Save(m) \/ Fail(m) \/ Saved(m) \/ Failed(m)
  \/ CloseTab
  \/ \E id \in deleting : Destroy(id)

Spec == Init /\ [][Next]_vars

--------------------------------------------------------------------------------
(* Properties. *)

\* Nothing is under way.
Quiet ==
  /\ deleting = {}
  /\ \A m \in Mounts : /\ mount[m].phase \notin {"listing", "listed"}
                       /\ mount[m].chain = <<>>
                       /\ ~(mount[m].localDue \/ mount[m].serverDue \/ mount[m].emptyDue)

\* What waits in a chain.
Chained == [do : {"save"}, text : Texts, forgotten : BOOLEAN]
             \cup [do : {"load"}, draft : Listed \cup {None}]
             \cup [do : {"discard"}, id : Ids]

Composers == [
  phase : {"none", "listing", "listed", "open", "closed"}, local : Copies \cup {None}, list : Seq(Listed),
  field : Texts \cup {None}, work : 0..MaxTyped, current : Ids \cup {None},
  pending : Texts \cup {None}, sent : Texts \cup {None},
  chain : Seq(Chained), call : Calls \cup {None},
  localDue : BOOLEAN, serverDue : BOOLEAN, emptyDue : BOOLEAN]

TypeOK ==
  /\ drafts \in Seq(Listed) /\ made \in Nat
  /\ device \in Copies \cup {None}
  /\ mount \in [Mounts -> Composers]
  /\ deleting \subseteq Ids
  /\ typed \in 0..MaxTyped
  /\ wanted \in [1..MaxTyped -> Texts \cup {None}]
  /\ gone \subseteq 1..MaxTyped
  /\ trouble \subseteq Troubles

\* None of these has failed, or come in the way.
Spared(kinds) == trouble \cap kinds = {}

\* "Nothing is lost by closing": what was written last of each work that was not discarded,
\* posted or emptied is in the composer, on the server or on the device.
Kept ==
  \A w \in 1..MaxTyped : wanted[w] # None =>
    \/ \E i \in DOMAIN drafts : drafts[i].text = wanted[w]
    \/ device # None /\ device.text = wanted[w]
    \/ \E m \in Mounts : mount[m].field = wanted[w]

NothingLost == Quiet => Kept

NothingLostUntroubled == Spared(Troubles) => NothingLost

\* "A draft is never created twice": the server has one draft of a work.
NeverTwice ==
  \A i, j \in DOMAIN drafts : drafts[i].text.work = drafts[j].text.work => i = j

OnceUntroubled == Spared(Troubles) => NeverTwice

\* A work that was discarded, posted or left empty is nowhere once nothing is under way.
GoneForGood ==
  Quiet => \A w \in gone :
    /\ \A i \in DOMAIN drafts : drafts[i].text.work # w
    /\ device # None => device.text.work # w

GoneUntroubled == Spared(Troubles) => GoneForGood

\* No draft is saved over with another work's text, unless the writer has gone on while a draft
\* asked for waited.
OwnWork ==
  [][Spared({"switch"})' => \A i \in DOMAIN drafts, j \in DOMAIN drafts' :
       drafts[i].id = drafts'[j].id => drafts[i].text.work = drafts'[j].text.work]_drafts

\* "What was deleted doesn't come back": a work emptied by hand, in a composer still open, is
\* not kept once the pause is over.
EmptiedGoes ==
  Quiet => \A m \in Mounts : mount[m].phase = "open" /\ mount[m].field = None =>
    /\ \A i \in DOMAIN drafts : drafts[i].text.work # mount[m].work
    /\ device # None => device.text.work # mount[m].work
================================================================================
