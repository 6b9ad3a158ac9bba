----------------------------- MODULE ShownProofs -----------------------------
(***************************************************************************)
(* The theorem about what the panel's pages show once nothing is awaited.    *)
(*                                                                         *)
(* A page that reads again knows which of its reads was asked last.  The     *)
(* invariant of a part says of that read, once it is answered, and of the    *)
(* page, once that read is shown, that they are what the api holds, unless a *)
(* handler still owes the read that will tell what it changed.               *)
(***************************************************************************)
EXTENDS PanelProofs, FiniteSetTheorems

\* The panel follows one part, which takes the steps of its module.
LEMMA ShownStays ==
  ASSUME [Next]_vars
  PROVE  /\ part' = part
         /\ part = "feed" => [Feed!Next]_<<srv, ui, net>>
         /\ part = "digest" => [Digest!Next]_<<srv, ui, net>>
         /\ part = "product" => [Product!Next]_<<srv, ui, net>>
         /\ part = "table" => [Table!Next]_<<srv, ui, net>>
         /\ part = "people" => [People!Next]_<<srv, ui, net>>
         /\ part = "history" => [History!Next]_<<srv, ui, net>>
         /\ part = "economy" => [Economy!Next]_<<srv, ui, net>>
         /\ part = "wizard" => [Wizard!Next]_<<srv, ui, net>>
         /\ part = "registry" => [Registry!Next]_<<srv, ui, net>>
         /\ part = "health" => [Health!Next]_<<srv, ui, net>>
         /\ part = "theme" => [Theme!Next]_<<srv, ui, net>>
BY DEF Next, vars

-----------------------------------------------------------------------------
(* Reading a list again: the read that was asked last marks the others.        *)

LastOf(reads) == {r \in reads : r.last = TRUE}
\* One read at most was asked last.
ReadsOk(reads, fields) ==
  /\ \A r \in reads : fields \cup {"last"} \subseteq DOMAIN r /\ r.last \in BOOLEAN
  /\ \A r, q \in LastOf(reads) : r = q
Demoted(reads) == {[r EXCEPT !.last = FALSE] : r \in reads}

\* A new read is the only one that was asked last.
LEMMA AskedLast ==
  ASSUME NEW reads, NEW fields, ReadsOk(reads, fields),
         NEW new, fields \cup {"last"} \subseteq DOMAIN new, new.last = TRUE
  PROVE  /\ ReadsOk(Demoted(reads) \cup {new}, fields)
         /\ LastOf(Demoted(reads) \cup {new}) = {new}
<1>1. ASSUME NEW r \in reads
      PROVE  /\ fields \cup {"last"} \subseteq DOMAIN [r EXCEPT !.last = FALSE]
             /\ [r EXCEPT !.last = FALSE].last = FALSE
  <2>1. fields \cup {"last"} \subseteq DOMAIN r
    BY DEF ReadsOk
  <2>2. QED
    BY <2>1
<1>2. \A q \in Demoted(reads) : fields \cup {"last"} \subseteq DOMAIN q /\ q.last = FALSE
  BY <1>1 DEF Demoted
<1>3. LastOf(Demoted(reads) \cup {new}) = {new}
  BY <1>2 DEF LastOf
<1>4. QED
  BY <1>2, <1>3 DEF ReadsOk

\* An answer changes nothing of when a read was asked.
LEMMA AnsweredLast ==
  ASSUME NEW reads, NEW fields, ReadsOk(reads, fields), NEW r \in reads,
         NEW q, fields \cup {"last"} \subseteq DOMAIN q, q.last = r.last
  PROVE  /\ ReadsOk((reads \ {r}) \cup {q}, fields)
         /\ r \in LastOf(reads) => LastOf((reads \ {r}) \cup {q}) = {q}
         /\ r \notin LastOf(reads) => LastOf((reads \ {r}) \cup {q}) = LastOf(reads)
BY DEF ReadsOk, LastOf

\* A read that ended was the last one, or that one is still awaited.
LEMMA EndedLast ==
  ASSUME NEW reads, NEW fields, ReadsOk(reads, fields), NEW r \in reads
  PROVE  /\ ReadsOk(reads \ {r}, fields)
         /\ r \in LastOf(reads) => LastOf(reads \ {r}) = {}
         /\ r \notin LastOf(reads) => LastOf(reads \ {r}) = LastOf(reads)
BY DEF ReadsOk, LastOf

-----------------------------------------------------------------------------
(* The feed: what changes the list is told to the page, which reads it again.   *)

FeedNet == {"reads", "late", "lookup", "events", "lastId", "missed", "blind", "calls", "ops"}
FeedFields(s, u, n) ==
  /\ {"present", "found", "snoozes", "group"} \subseteq DOMAIN s
  /\ {"list", "loading", "error", "conn", "snoozes", "dialog", "busy"} \subseteq DOMAIN u
  /\ FeedNet \subseteq DOMAIN n
  /\ n.events \in Seq(Feed!Heard)
  /\ ReadsOk(n.reads, {"answered", "list"})
  /\ \A c \in n.calls : {"about", "st"} \subseteq DOMAIN c /\ c.about.op \in Feed!Ops
  /\ u.dialog # Nothing => u.dialog.op \in Feed!Ops
\* What still leads to a read, and what nobody heard.
FeedTold(u, n) ==
  \/ n.events # <<>> \/ n.blind = TRUE
  \/ n.missed = TRUE /\ u.conn # "open"
  \/ \E c \in n.calls : c.st = "ok" /\ c.about.op = "group"
FeedShows(l, u, n) ==
  /\ \A r \in LastOf(n.reads) : r.answered => DOMAIN r.list = l
  /\ LastOf(n.reads) = {} => u.error = TRUE \/ n.late = TRUE \/ DOMAIN u.list = l
FeedFresh(l, s, u, n) == FeedFields(s, u, n) /\ (FeedTold(u, n) \/ FeedShows(l, u, n))

LEMMA FeedReloaded ==
  ASSUME NEW n, FeedNet \subseteq DOMAIN n, ReadsOk(n.reads, {"answered", "list"}),
         NEW m, m = Feed!Reloaded(n)
  PROVE  /\ DOMAIN m = DOMAIN n /\ m.events = n.events /\ m.calls = n.calls
         /\ m.missed = n.missed /\ m.blind = n.blind
         /\ ReadsOk(m.reads, {"answered", "list"})
         /\ \A r \in LastOf(m.reads) : ~r.answered
         /\ LastOf(m.reads) # {}
<1> DEFINE new == [last |-> TRUE, answered |-> FALSE, list |-> <<>>]
<1>1. m = [n EXCEPT !.reads = Demoted(n.reads) \cup {new}]
  BY DEF Feed!Reloaded, Demoted
<1>2. {"answered", "list"} \cup {"last"} \subseteq DOMAIN new /\ new.last = TRUE /\ ~new.answered
  OBVIOUS
<1> HIDE DEF new
<1>3. /\ ReadsOk(Demoted(n.reads) \cup {new}, {"answered", "list"})
      /\ LastOf(Demoted(n.reads) \cup {new}) = {new}
  BY <1>2, AskedLast
<1>4. m.reads = Demoted(n.reads) \cup {new}
  BY <1>1 DEF FeedNet
<1>5. /\ DOMAIN m = DOMAIN n /\ m.events = n.events /\ m.calls = n.calls
      /\ m.missed = n.missed /\ m.blind = n.blind
  BY <1>1 DEF FeedNet
<1>6. QED
  BY <1>2, <1>3, <1>4, <1>5

LEMMA FeedInit == ASSUME Feed!Init PROVE FeedFresh(Feed!Listed, srv, ui, net)
<1>1. PICK n : /\ n = [reads |-> {}, late |-> FALSE, lookup |-> TRUE, events |-> <<>>,
                       lastId |-> FALSE, missed |-> FALSE, blind |-> FALSE, calls |-> {}, ops |-> 0]
               /\ net = Feed!Reloaded(n)
  BY DEF Feed!Init
<1>2. FeedNet \subseteq DOMAIN n /\ ReadsOk(n.reads, {"answered", "list"}) /\ n.events = <<>> /\ n.calls = {}
  BY <1>1 DEF FeedNet, ReadsOk, LastOf
<1>3. /\ DOMAIN net = DOMAIN n /\ net.events = <<>> /\ net.calls = {}
      /\ ReadsOk(net.reads, {"answered", "list"})
      /\ \A r \in LastOf(net.reads) : ~r.answered
      /\ LastOf(net.reads) # {}
  BY <1>1, <1>2, FeedReloaded
<1>4. /\ {"present", "found", "snoozes", "group"} \subseteq DOMAIN srv
      /\ {"list", "loading", "error", "conn", "snoozes", "dialog", "busy"} \subseteq DOMAIN ui
      /\ ui.dialog = Nothing
  BY DEF Feed!Init, Feed!EmptyPage
<1>5. <<>> \in Seq(Feed!Heard)
  OBVIOUS
<1>6. QED
  BY <1>2, <1>3, <1>4, <1>5 DEF FeedFresh, FeedFields, FeedShows

\* A page that asks again shows, in the end, what it is answered.
LEMMA FeedAsks ==
  ASSUME NEW l, NEW s, NEW u, NEW n, FeedFields(s, u, n), NEW m, m = Feed!Reloaded(n)
  PROVE  FeedFresh(l, s, u, m)
<1>1. /\ DOMAIN m = DOMAIN n /\ m.events = n.events /\ m.calls = n.calls
      /\ ReadsOk(m.reads, {"answered", "list"})
      /\ \A r \in LastOf(m.reads) : ~r.answered
      /\ LastOf(m.reads) # {}
  BY FeedReloaded DEF FeedFields
<1>2. QED
  BY <1>1 DEF FeedFresh, FeedFields, FeedShows

\* A step that moves neither the list nor what is told of it.
LEMMA FeedBeside ==
  ASSUME NEW l, NEW s, NEW u, NEW n, FeedFresh(l, s, u, n),
         NEW k, NEW t, NEW v, NEW m, FeedFields(t, v, m), k = l,
         v.list = u.list, v.error = u.error, v.conn = u.conn,
         m.reads = n.reads, m.late = n.late, m.events = n.events,
         m.missed = n.missed, m.blind = n.blind,
         \A c \in n.calls : c.st = "ok" /\ c.about.op = "group" =>
           \E d \in m.calls : d.st = "ok" /\ d.about.op = "group"
  PROVE  FeedFresh(k, t, v, m)
BY DEF FeedFresh, FeedTold, FeedShows

\* A read is answered, shown or lost.
LEMMA FeedReads ==
  ASSUME FeedFresh(Feed!Listed, srv, ui, net), NEW r \in net.reads,
         Feed!AnswerRead(r) \/ Feed!ShowRead(r) \/ Feed!FailRead(r)
  PROVE  FeedFresh(Feed!Listed', srv', ui', net')
<1>1. FeedFields(srv, ui, net)
  BY DEF FeedFresh
<1>0. r \in net.reads /\ ReadsOk(net.reads, {"answered", "list"})
  BY <1>1 DEF FeedFields
<1>2. Feed!Listed' = Feed!Listed /\ srv' = srv
  BY DEF Feed!AnswerRead, Feed!ShowRead, Feed!FailRead, Feed!Listed
<1>3. {"answered", "list"} \cup {"last"} \subseteq DOMAIN r /\ r.last \in BOOLEAN
  BY <1>0 DEF ReadsOk
<1>4. CASE Feed!AnswerRead(r)
  <2> DEFINE q == [r EXCEPT !.answered = TRUE, !.list = Feed!List]
             reads == (net.reads \ {r}) \cup {q}
  <2>1. ui' = ui /\ net' = [net EXCEPT !.reads = reads]
    BY <1>4 DEF Feed!AnswerRead
  <2>2. {"answered", "list"} \cup {"last"} \subseteq DOMAIN q /\ q.last = r.last /\ q.list = Feed!List
    BY <1>3
  <2>3. DOMAIN q.list = Feed!Listed
    BY <2>2 DEF Feed!List
  <2> HIDE DEF q
  <2>4. /\ ReadsOk(reads, {"answered", "list"})
        /\ r \in LastOf(net.reads) => LastOf(reads) = {q}
        /\ r \notin LastOf(net.reads) => LastOf(reads) = LastOf(net.reads)
    BY ONLY <1>0, <2>2, AnsweredLast
  <2> HIDE DEF reads
  <2>5. /\ DOMAIN net' = DOMAIN net /\ net'.reads = reads /\ net'.events = net.events
        /\ net'.calls = net.calls /\ net'.missed = net.missed /\ net'.blind = net.blind
        /\ net'.late = net.late
    BY <1>1, <2>1 DEF FeedFields, FeedNet
  <2>6. FeedFields(srv', ui', net')
    BY <1>1, <1>2, <2>1, <2>4, <2>5 DEF FeedFields
  <2>7. FeedTold(ui, net) => FeedTold(ui', net')
    BY <2>1, <2>5 DEF FeedTold
  <2>8. FeedShows(Feed!Listed, ui, net) => FeedShows(Feed!Listed, ui', net')
    BY <1>3, <2>1, <2>3, <2>4, <2>5 DEF FeedShows
  <2>9. QED
    BY <1>2, <2>6, <2>7, <2>8 DEF FeedFresh
<1>5. CASE Feed!ShowRead(r) \/ Feed!FailRead(r)
  <2> DEFINE reads == net.reads \ {r}
  <2>1. /\ ReadsOk(reads, {"answered", "list"})
        /\ r \in LastOf(net.reads) => LastOf(reads) = {}
        /\ r \notin LastOf(net.reads) => LastOf(reads) = LastOf(net.reads)
    BY ONLY <1>0, EndedLast
  <2>2. net'.reads = reads
    BY <1>1, <1>5 DEF Feed!ShowRead, Feed!FailRead, FeedFields, FeedNet
  <2>3. /\ DOMAIN net' = DOMAIN net /\ net'.events = net.events
        /\ net'.calls = net.calls /\ net'.missed = net.missed /\ net'.blind = net.blind
    BY <1>1, <1>5 DEF Feed!ShowRead, Feed!FailRead, FeedFields, FeedNet
  <2>4. DOMAIN ui' = DOMAIN ui /\ ui'.conn = ui.conn /\ ui'.dialog = ui.dialog
    BY <1>1, <1>5 DEF Feed!ShowRead, Feed!FailRead, FeedFields
  <2>5. \/ ui'.error = TRUE
        \/ r \notin LastOf(net.reads) /\ net'.late = TRUE
        \/ r \in LastOf(net.reads) /\ r.answered /\ ui'.list = r.list
    <3>1. CASE Feed!ShowRead(r)
      <4>1. r.answered /\ ui'.list = r.list /\ net'.late = ~r.last
        BY <1>1, <3>1 DEF Feed!ShowRead, FeedFields, FeedNet
      <4>2. QED
        BY <1>3, <4>1 DEF LastOf
    <3>2. CASE Feed!FailRead(r)
      BY <1>1, <3>2 DEF Feed!FailRead, FeedFields
    <3>3. QED
      BY <1>5, <3>1, <3>2
  <2> HIDE DEF reads
  <2>6. FeedFields(srv', ui', net')
    BY <1>1, <1>2, <2>1, <2>2, <2>3, <2>4 DEF FeedFields
  <2>7. FeedTold(ui, net) => FeedTold(ui', net')
    BY <2>3, <2>4 DEF FeedTold
  <2>8. ASSUME FeedShows(Feed!Listed, ui, net) PROVE FeedShows(Feed!Listed, ui', net')
    BY <1>3, <2>1, <2>2, <2>5, <2>8 DEF FeedShows
  <2>9. QED
    BY <1>2, <2>6, <2>7, <2>8 DEF FeedFresh
<1>6. QED
  BY <1>4, <1>5

\* What is published reaches the page, waits for it, or is heard by nobody.
LEMMA FeedPublished ==
  ASSUME FeedFields(srv, ui, net), NEW n, FeedFields(srv, ui, n), NEW type \in Feed!Heard,
         NEW m, m = Feed!Published(n, type)
  PROVE  /\ DOMAIN m = DOMAIN n /\ m.reads = n.reads /\ m.calls = n.calls
         /\ m.events \in Seq(Feed!Heard)
         /\ FeedTold(ui, m)
<1>1. FeedNet \subseteq DOMAIN n /\ n.events \in Seq(Feed!Heard)
  BY DEF FeedFields
<1>2. CASE ui.conn = "open"
  <2>1. m = [n EXCEPT !.events = Append(n.events, type)]
    BY <1>2 DEF Feed!Published
  <2>2. /\ DOMAIN m = DOMAIN n /\ m.reads = n.reads /\ m.calls = n.calls
        /\ m.events = Append(n.events, type)
    BY <1>1, <2>1 DEF FeedNet
  <2>3. Append(n.events, type) \in Seq(Feed!Heard) /\ Append(n.events, type) # <<>>
    BY <1>1
  <2>4. QED
    BY <2>2, <2>3 DEF FeedTold
<1>3. CASE ui.conn # "open" /\ n.lastId
  <2>1. m = [n EXCEPT !.missed = TRUE]
    BY <1>3 DEF Feed!Published
  <2>2. QED
    BY <1>1, <1>3, <2>1 DEF FeedNet, FeedTold
<1>4. CASE ui.conn # "open" /\ ~n.lastId
  <2>1. m = [n EXCEPT !.blind = TRUE]
    BY <1>4 DEF Feed!Published
  <2>2. QED
    BY <1>1, <1>4, <2>1 DEF FeedNet, FeedTold
<1>5. QED
  BY <1>2, <1>3, <1>4

\* The stream brings an event, opens, or fails with what was on its way.
LEMMA FeedStreams ==
  ASSUME FeedFresh(Feed!Listed, srv, ui, net),
         Feed!Event \/ Feed!StreamOpens \/ Feed!StreamFails \/ Feed!Refresh
  PROVE  FeedFresh(Feed!Listed', srv', ui', net')
<1>1. FeedFields(srv, ui, net)
  BY DEF FeedFresh
<1>2. Feed!Listed' = Feed!Listed /\ srv' = srv
  BY DEF Feed!Event, Feed!StreamOpens, Feed!StreamFails, Feed!Refresh, Feed!Listed
<1>3. CASE Feed!Event
  <2> DEFINE rest == [net EXCEPT !.events = Tail(@), !.lastId = TRUE]
  <2>1. net.events # <<>> /\ net.events \in Seq(Feed!Heard)
    BY <1>1, <1>3 DEF Feed!Event, FeedFields
  <2>2. Tail(net.events) \in Seq(Feed!Heard) /\ Head(net.events) \in Feed!Heard
    BY <2>1
  <2>3. ui' = ui /\ net' = Feed!Reloaded(rest)
    BY <1>3, <2>2 DEF Feed!Event
  <2>4. /\ DOMAIN rest = DOMAIN net /\ rest.events = Tail(net.events) /\ rest.reads = net.reads
        /\ rest.calls = net.calls
    BY <1>1 DEF FeedFields, FeedNet
  <2> HIDE DEF rest
  <2>5. FeedFields(srv, ui, rest)
    BY <1>1, <2>2, <2>4 DEF FeedFields
  <2>6. FeedFresh(Feed!Listed, srv, ui, net')
    BY <2>3, <2>5, FeedAsks
  <2>7. QED
    BY <1>2, <2>3, <2>6
<1>4. CASE Feed!Refresh
  <2> DEFINE rest == [net EXCEPT !.ops = @ + 1]
  <2>1. ui' = ui /\ net' = Feed!Reloaded(rest)
    BY <1>4 DEF Feed!Refresh
  <2>2. /\ DOMAIN rest = DOMAIN net /\ rest.events = net.events /\ rest.reads = net.reads
        /\ rest.calls = net.calls
    BY <1>1 DEF FeedFields, FeedNet
  <2> HIDE DEF rest
  <2>3. FeedFields(srv, ui, rest)
    BY <1>1, <2>2 DEF FeedFields
  <2>4. FeedFresh(Feed!Listed, srv, ui, net')
    BY <2>1, <2>3, FeedAsks
  <2>5. QED
    BY <1>2, <2>1, <2>4
<1>5. CASE Feed!StreamOpens
  <2>1. /\ DOMAIN ui' = DOMAIN ui /\ ui'.conn = "open" /\ ui'.list = ui.list /\ ui'.error = ui.error
        /\ ui'.dialog = ui.dialog
    BY <1>1, <1>5 DEF Feed!StreamOpens, FeedFields
  <2>2. /\ DOMAIN net' = DOMAIN net /\ net'.reads = net.reads /\ net'.calls = net.calls
        /\ net'.late = net.late /\ net'.blind = net.blind
        /\ net'.events = IF net.missed THEN Append(net.events, "resync") ELSE net.events
    BY <1>1, <1>5 DEF Feed!StreamOpens, FeedFields, FeedNet
  <2>3. net.events \in Seq(Feed!Heard) /\ "resync" \in Feed!Heard
    BY <1>1 DEF FeedFields, Feed!Heard
  <2>4. /\ Append(net.events, "resync") \in Seq(Feed!Heard)
        /\ Append(net.events, "resync") # <<>>
    BY <2>3
  <2>5. FeedFields(srv, ui', net')
    BY <1>1, <2>1, <2>2, <2>3, <2>4 DEF FeedFields
  <2>6. FeedTold(ui, net) => FeedTold(ui', net')
    BY <2>2, <2>4 DEF FeedTold
  <2>7. FeedShows(Feed!Listed, ui, net) => FeedShows(Feed!Listed, ui', net')
    BY <2>1, <2>2 DEF FeedShows
  <2>8. QED
    BY <1>2, <2>5, <2>6, <2>7 DEF FeedFresh
<1>6. CASE Feed!StreamFails
  <2>1. /\ DOMAIN ui' = DOMAIN ui /\ ui'.conn = "error" /\ ui'.list = ui.list /\ ui'.error = ui.error
        /\ ui'.dialog = ui.dialog
    BY <1>1, <1>6 DEF Feed!StreamFails, FeedFields
  <2>2. /\ DOMAIN net' = DOMAIN net /\ net'.reads = net.reads /\ net'.calls = net.calls
        /\ net'.late = net.late /\ net'.events = <<>>
        /\ net'.missed = (net.missed \/ (net.events # <<>> /\ net.lastId))
        /\ net'.blind = (net.blind \/ (net.events # <<>> /\ ~net.lastId))
    BY <1>1, <1>6 DEF Feed!StreamFails, FeedFields, FeedNet
  <2>3. <<>> \in Seq(Feed!Heard)
    OBVIOUS
  <2>4. FeedFields(srv, ui', net')
    BY <1>1, <2>1, <2>2, <2>3 DEF FeedFields
  <2>5. ui'.conn # "open"
    BY <2>1
  <2>6. FeedTold(ui, net) => FeedTold(ui', net')
    <3>1. CASE net.events # <<>>
      BY <3>1, <2>2, <2>5 DEF FeedTold
    <3>2. CASE net.blind = TRUE \/ (net.missed = TRUE /\ ui.conn # "open")
      BY <3>2, <2>2, <2>5 DEF FeedTold
    <3>3. CASE \E c \in net.calls : c.st = "ok" /\ c.about.op = "group"
      BY <3>3, <2>2 DEF FeedTold
    <3>4. QED
      BY <3>1, <3>2, <3>3 DEF FeedTold
  <2>7. FeedShows(Feed!Listed, ui, net) => FeedShows(Feed!Listed, ui', net')
    BY <2>1, <2>2 DEF FeedShows
  <2>8. QED
    BY <1>2, <2>4, <2>6, <2>7 DEF FeedFresh
<1>7. QED
  BY <1>3, <1>4, <1>5, <1>6

\* What the administrator does changes nothing before it is served.
LEMMA FeedClicks ==
  ASSUME FeedFresh(Feed!Listed, srv, ui, net),
         \/ \E ok \in BOOLEAN : Feed!Lookup(ok)
         \/ \E m \in DOMAIN ui.list : Feed!CardSnooze(m) \/ Feed!CardReactivate(m)
         \/ \E target \in Feed!DeletionsOffered : Feed!AskDelete(target)
         \/ \E s \in ui.snoozes : Feed!RailReactivate(s)
         \/ Feed!ToggleGroup \/ Feed!CancelDelete \/ Feed!ConfirmDelete
  PROVE  FeedFresh(Feed!Listed', srv', ui', net')
<1>1. FeedFields(srv, ui, net)
  BY DEF FeedFresh
<1>2. Feed!Listed' = Feed!Listed /\ srv' = srv
  BY DEF Feed!Lookup, Feed!CardSnooze, Feed!CardReactivate, Feed!AskDelete, Feed!RailReactivate,
         Feed!ToggleGroup, Feed!CancelDelete, Feed!ConfirmDelete, Feed!Listed
<1>3. /\ DOMAIN ui' = DOMAIN ui /\ ui'.conn = ui.conn /\ ui'.list = ui.list /\ ui'.error = ui.error
      /\ ui'.dialog # Nothing => ui'.dialog.op \in Feed!Ops
  <2>1. \A target \in Feed!DeletionsOffered : target.op \in Feed!Ops
    BY DEF Feed!DeletionsOffered, Feed!OfMatch, Feed!OfScope, Feed!Ops, Feed!Deletions
  <2>2. CASE \E target \in Feed!DeletionsOffered : Feed!AskDelete(target)
    BY <1>1, <2>1, <2>2 DEF Feed!AskDelete, FeedFields
  <2>3. CASE \/ \E ok \in BOOLEAN : Feed!Lookup(ok)
             \/ Feed!CancelDelete \/ Feed!ConfirmDelete
    BY <1>1, <2>3 DEF FeedFields, Feed!Lookup, Feed!CancelDelete, Feed!ConfirmDelete
  <2>4. CASE \/ \E m \in DOMAIN ui.list : Feed!CardSnooze(m) \/ Feed!CardReactivate(m)
             \/ \E s \in ui.snoozes : Feed!RailReactivate(s)
             \/ Feed!ToggleGroup
    BY <1>1, <2>4 DEF FeedFields, Feed!CardSnooze, Feed!CardReactivate, Feed!RailReactivate, Feed!ToggleGroup
  <2>5. QED
    BY <2>2, <2>3, <2>4
<1>4. /\ DOMAIN net' = DOMAIN net /\ net'.reads = net.reads /\ net'.late = net.late
      /\ net'.events = net.events /\ net'.missed = net.missed /\ net'.blind = net.blind
      /\ net.calls \subseteq net'.calls
      /\ \A c \in net'.calls : {"about", "st"} \subseteq DOMAIN c /\ c.about.op \in Feed!Ops
  <2>1. CASE \/ \E target \in Feed!DeletionsOffered : Feed!AskDelete(target)
             \/ \E ok \in BOOLEAN : Feed!Lookup(ok)
             \/ Feed!CancelDelete
    BY <1>1, <2>1 DEF FeedFields, FeedNet, Feed!AskDelete, Feed!Lookup, Feed!CancelDelete
  <2>2. ASSUME NEW about, NEW st, about.op \in Feed!Ops, net' = Feed!Call(net, about, st)
        PROVE  /\ DOMAIN net' = DOMAIN net /\ net'.reads = net.reads /\ net'.late = net.late
               /\ net'.events = net.events /\ net'.missed = net.missed /\ net'.blind = net.blind
               /\ net.calls \subseteq net'.calls
               /\ \A c \in net'.calls : {"about", "st"} \subseteq DOMAIN c /\ c.about.op \in Feed!Ops
    <3> DEFINE new == [about |-> about, st |-> st, n |-> net.ops]
    <3>1. net' = [net EXCEPT !.ops = @ + 1, !.calls = net.calls \cup {new}]
      BY <2>2 DEF Feed!Call
    <3>2. {"about", "st"} \subseteq DOMAIN new /\ new.about.op \in Feed!Ops
      BY <2>2
    <3> HIDE DEF new
    <3>3. /\ DOMAIN net' = DOMAIN net /\ net'.reads = net.reads /\ net'.late = net.late
          /\ net'.events = net.events /\ net'.missed = net.missed /\ net'.blind = net.blind
          /\ net'.calls = net.calls \cup {new}
      BY <1>1, <3>1 DEF FeedFields, FeedNet
    <3>4. QED
      BY <1>1, <3>2, <3>3 DEF FeedFields
  <2>3. \A s : /\ Feed!OfScope("snooze", s).op \in Feed!Ops /\ Feed!OfScope("group", s).op \in Feed!Ops
               /\ Feed!OfScope("reactivate", s).op \in Feed!Ops
    BY DEF Feed!OfScope, Feed!Ops
  <2>4. CASE \/ \E m \in DOMAIN ui.list : Feed!CardSnooze(m) \/ Feed!CardReactivate(m)
             \/ \E s \in ui.snoozes : Feed!RailReactivate(s)
             \/ Feed!ToggleGroup
    <3>1. CASE \E m \in DOMAIN ui.list : Feed!CardSnooze(m)
      BY <2>2, <2>3, <3>1 DEF Feed!CardSnooze
    <3>2. CASE \E m \in DOMAIN ui.list : Feed!CardReactivate(m)
      BY <2>2, <2>3, <3>2 DEF Feed!CardReactivate
    <3>3. CASE \E s \in ui.snoozes : Feed!RailReactivate(s)
      BY <2>2, <2>3, <3>3 DEF Feed!RailReactivate
    <3>4. CASE Feed!ToggleGroup
      BY <2>2, <2>3, <3>4 DEF Feed!ToggleGroup
    <3>5. QED
      BY <2>4, <3>1, <3>2, <3>3, <3>4
  <2>5. CASE Feed!ConfirmDelete
    <3>1. net' = Feed!Call(net, ui.dialog, "sent") /\ ui.dialog.op \in Feed!Ops
      BY <1>1, <2>5 DEF Feed!ConfirmDelete, FeedFields
    <3>2. QED
      BY <2>2, <3>1
  <2>6. QED
    BY <2>1, <2>4, <2>5
<1>5. FeedFields(srv, ui', net')
  BY <1>1, <1>3, <1>4 DEF FeedFields
<1>6. FeedFresh(Feed!Listed, srv, ui', net')
  BY <1>3, <1>4, <1>5, FeedBeside
<1>7. QED
  BY <1>2, <1>6

\* A call is served, or not.
LEMMA FeedServes ==
  ASSUME FeedFresh(Feed!Listed, srv, ui, net), NEW c \in net.calls,
         \/ Feed!Serve(c) \/ Feed!ServeGone(c) \/ Feed!ServeFails(c) \/ Feed!AnswerSnooze(c)
  PROVE  FeedFresh(Feed!Listed', srv', ui', net')
<1>1. FeedFields(srv, ui, net) /\ {"about", "st"} \subseteq DOMAIN c /\ c.about.op \in Feed!Ops
  BY DEF FeedFresh, FeedFields
<1>2. ui' = ui
  BY DEF Feed!Serve, Feed!ServeGone, Feed!ServeFails, Feed!AnswerSnooze
<1>3. ASSUME NEW st, NEW n, n = Feed!With(c, st)
      PROVE  /\ FeedFields(srv, ui, n) /\ n.reads = net.reads /\ n.late = net.late
             /\ n.events = net.events /\ n.missed = net.missed /\ n.blind = net.blind
             /\ \E d \in n.calls : d.st = st /\ d.about = c.about
             /\ \A d \in net.calls : d = c \/ d \in n.calls
  <2> DEFINE d == [c EXCEPT !.st = st]
  <2>1. n = [net EXCEPT !.calls = (net.calls \ {c}) \cup {d}]
    BY <1>3 DEF Feed!With
  <2>2. {"about", "st"} \subseteq DOMAIN d /\ d.st = st /\ d.about = c.about
    BY <1>1
  <2> HIDE DEF d
  <2>3. /\ DOMAIN n = DOMAIN net /\ n.reads = net.reads /\ n.late = net.late
        /\ n.events = net.events /\ n.missed = net.missed /\ n.blind = net.blind
        /\ n.calls = (net.calls \ {c}) \cup {d}
    BY <1>1, <2>1 DEF FeedFields, FeedNet
  <2>4. FeedFields(srv, ui, n)
    BY <1>1, <2>2, <2>3 DEF FeedFields
  <2>5. QED
    BY <2>2, <2>3, <2>4
<1>4. CASE Feed!ServeGone(c) \/ Feed!ServeFails(c)
  <2>1. PICK st : net' = Feed!With(c, st)
    BY <1>4 DEF Feed!ServeGone, Feed!ServeFails
  <2>2. srv' = srv /\ Feed!Listed' = Feed!Listed /\ c.st = "sent"
    BY <1>4 DEF Feed!ServeGone, Feed!ServeFails, Feed!Listed
  <2>3. /\ FeedFields(srv, ui, net') /\ net'.reads = net.reads /\ net'.late = net.late
        /\ net'.events = net.events /\ net'.missed = net.missed /\ net'.blind = net.blind
        /\ \A d \in net.calls : d = c \/ d \in net'.calls
    BY <1>3, <2>1
  <2>4. FeedFresh(Feed!Listed, srv, ui, net')
    BY <2>2, <2>3, FeedBeside
  <2>5. QED
    BY <1>2, <2>2, <2>4
<1>5. CASE Feed!AnswerSnooze(c)
  <2>1. PICK n : n = Feed!With(c, "after") /\ net' = [n EXCEPT !.lookup = TRUE]
    BY <1>5 DEF Feed!AnswerSnooze
  <2>2. srv' = srv /\ Feed!Listed' = Feed!Listed /\ c.about.op # "group"
    BY <1>5 DEF Feed!AnswerSnooze, Feed!Listed
  <2>3. /\ FeedFields(srv, ui, n) /\ n.reads = net.reads /\ n.late = net.late
        /\ n.events = net.events /\ n.missed = net.missed /\ n.blind = net.blind
        /\ \A d \in net.calls : d = c \/ d \in n.calls
    BY <1>3, <2>1
  <2>4. /\ DOMAIN net' = DOMAIN n /\ net'.reads = n.reads /\ net'.late = n.late /\ net'.calls = n.calls
        /\ net'.events = n.events /\ net'.missed = n.missed /\ net'.blind = n.blind
    BY <2>1, <2>3 DEF FeedFields, FeedNet
  <2>5. FeedFields(srv, ui, net')
    BY <2>3, <2>4 DEF FeedFields
  <2>6. FeedFresh(Feed!Listed, srv, ui, net')
    BY <2>2, <2>3, <2>4, <2>5, FeedBeside
  <2>7. QED
    BY <1>2, <2>2, <2>6
<1>6. CASE Feed!Serve(c)
  <2>1. c.st = "sent" /\ srv' = Feed!Effect(c.about)
    BY <1>6 DEF Feed!Serve
  <2>2. {"present", "found", "snoozes", "group"} \subseteq DOMAIN srv'
    BY <1>1, <2>1 DEF Feed!Effect, FeedFields, Feed!Ops, Feed!Deletions
  <2>3. CASE Feed!Deletes(c)
    <3>1. PICK n : n = Feed!With(c, "ok") /\ net' = Feed!Published(n, "match_deleted")
      BY <1>6, <2>3 DEF Feed!Serve
    <3>2. FeedFields(srv, ui, n)
      BY <1>3, <3>1
    <3>3. /\ DOMAIN net' = DOMAIN n /\ net'.reads = n.reads /\ net'.calls = n.calls
          /\ net'.events \in Seq(Feed!Heard) /\ FeedTold(ui, net')
      <4>1. "match_deleted" \in Feed!Heard
        BY DEF Feed!Heard
      <4>2. QED
        BY <1>1, <3>1, <3>2, <4>1, FeedPublished
    <3>4. FeedFields(srv', ui, net')
      BY <2>2, <3>2, <3>3 DEF FeedFields
    <3>5. QED
      BY <1>2, <3>3, <3>4 DEF FeedFresh
  <2>4. CASE ~Feed!Deletes(c)
    <3>1. net' = Feed!With(c, "ok")
      BY <1>6, <2>4 DEF Feed!Serve
    <3>2. /\ FeedFields(srv, ui, net') /\ net'.reads = net.reads /\ net'.late = net.late
          /\ net'.events = net.events /\ net'.missed = net.missed /\ net'.blind = net.blind
          /\ \E d \in net'.calls : d.st = "ok" /\ d.about = c.about
          /\ \A d \in net.calls : d = c \/ d \in net'.calls
      BY <1>3, <3>1
    <3>3. FeedFields(srv', ui, net')
      BY <2>2, <3>2 DEF FeedFields
    <3>4. CASE c.about.op = "group"
      BY <1>2, <3>2, <3>3, <3>4 DEF FeedFresh, FeedTold
    <3>5. CASE c.about.op # "group"
      <4>1. c.about.op \in {"snooze", "reactivate"}
        BY <1>1, <2>4, <3>5 DEF Feed!Deletes, Feed!Ops
      <4>2. srv'.present = srv.present /\ srv'.group = srv.group
        BY <1>1, <2>1, <4>1 DEF Feed!Effect, FeedFields
      <4>3. Feed!Listed' = Feed!Listed
        BY <4>2 DEF Feed!Listed
      <4>4. FeedFresh(Feed!Listed, srv', ui, net')
        BY <2>1, <3>2, <3>3, FeedBeside
      <4>5. QED
        BY <1>2, <4>3, <4>4
    <3>6. QED
      BY <3>4, <3>5
  <2>5. QED
    BY <2>3, <2>4
<1>7. QED
  BY <1>4, <1>5, <1>6

\* The handler of a call goes on: it reads the list again, or tells a failure.
LEMMA FeedGoesOn ==
  ASSUME FeedFresh(Feed!Listed, srv, ui, net), NEW c \in net.calls,
         \/ Feed!Refreshed(c) \/ Feed!AnswerGroup(c) \/ Feed!AnswerDelete(c) \/ Feed!AnswerFailure(c)
  PROVE  FeedFresh(Feed!Listed', srv', ui', net')
<1>1. FeedFields(srv, ui, net)
  BY DEF FeedFresh
<1>2. Feed!Listed' = Feed!Listed /\ srv' = srv
  BY DEF Feed!Refreshed, Feed!AnswerGroup, Feed!AnswerDelete, Feed!AnswerFailure, Feed!Listed
<1>3. /\ DOMAIN ui' = DOMAIN ui /\ ui'.conn = ui.conn /\ ui'.list = ui.list /\ ui'.error = ui.error
      /\ ui'.dialog # Nothing => ui'.dialog.op \in Feed!Ops
  BY <1>1 DEF Feed!Refreshed, Feed!AnswerGroup, Feed!AnswerDelete, Feed!AnswerFailure, FeedFields
<1> DEFINE n == Feed!Without(c)
<1>4. /\ DOMAIN n = DOMAIN net /\ n.reads = net.reads /\ n.late = net.late
      /\ n.events = net.events /\ n.missed = net.missed /\ n.blind = net.blind
      /\ n.calls = net.calls \ {c}
  BY <1>1 DEF Feed!Without, FeedFields, FeedNet
<1>5. CASE Feed!AnswerFailure(c)
  <2>1. net' = n /\ c.st # "ok"
    BY <1>5 DEF Feed!AnswerFailure
  <2> HIDE DEF n
  <2>2. FeedFields(srv, ui', net')
    BY <1>1, <1>3, <1>4, <2>1 DEF FeedFields
  <2>3. FeedFresh(Feed!Listed, srv, ui', net')
    BY <1>3, <1>4, <2>1, <2>2, FeedBeside
  <2>4. QED
    BY <1>2, <2>3
<1>6. CASE Feed!Refreshed(c) \/ Feed!AnswerGroup(c) \/ Feed!AnswerDelete(c)
  <2>1. net' = Feed!Reloaded(n)
    BY <1>6 DEF Feed!Refreshed, Feed!AnswerGroup, Feed!AnswerDelete
  <2> HIDE DEF n
  <2>2. FeedFields(srv, ui', n)
    BY <1>1, <1>3, <1>4 DEF FeedFields
  <2>3. FeedFresh(Feed!Listed, srv, ui', net')
    BY <2>1, <2>2, FeedAsks
  <2>4. QED
    BY <1>2, <2>3
<1>7. QED
  BY <1>5, <1>6

\* What happens on the server is published, but for the end of a silence.
LEMMA FeedMeanwhile ==
  ASSUME FeedFresh(Feed!Listed, srv, ui, net),
         \/ Feed!NewMatch \/ \E m \in srv.present : Feed!OtherDelete(m)
         \/ \E s \in srv.snoozes : Feed!SnoozeLapses(s)
  PROVE  FeedFresh(Feed!Listed', srv', ui', net')
<1>1. FeedFields(srv, ui, net)
  BY DEF FeedFresh
<1>2. /\ ui' = ui /\ {"present", "found", "snoozes", "group"} \subseteq DOMAIN srv'
  BY <1>1 DEF Feed!NewMatch, Feed!OtherDelete, Feed!SnoozeLapses, FeedFields
<1>3. CASE Feed!NewMatch \/ \E m \in srv.present : Feed!OtherDelete(m)
  <2>1. PICK type \in Feed!Heard : net' = Feed!Published(net, type)
    BY <1>3 DEF Feed!NewMatch, Feed!OtherDelete, Feed!Heard
  <2>2. /\ DOMAIN net' = DOMAIN net /\ net'.reads = net.reads /\ net'.calls = net.calls
        /\ net'.events \in Seq(Feed!Heard) /\ FeedTold(ui, net')
    BY <1>1, <2>1, FeedPublished
  <2>3. FeedFields(srv', ui, net')
    BY <1>1, <1>2, <2>2 DEF FeedFields
  <2>4. QED
    BY <1>2, <2>2, <2>3 DEF FeedFresh
<1>4. CASE \E s \in srv.snoozes : Feed!SnoozeLapses(s)
  <2>1. net' = net /\ srv'.present = srv.present /\ srv'.group = srv.group
    BY <1>1, <1>4 DEF Feed!SnoozeLapses, FeedFields
  <2>2. Feed!Listed' = Feed!Listed
    BY <2>1 DEF Feed!Listed
  <2>3. FeedFields(srv', ui, net)
    BY <1>1, <1>2 DEF FeedFields
  <2>4. QED
    BY <1>2, <2>1, <2>2, <2>3 DEF FeedFresh
<1>5. QED
  BY <1>3, <1>4

LEMMA NextFeed ==
  ASSUME FeedFresh(Feed!Listed, srv, ui, net), [Feed!Next]_<<srv, ui, net>>
  PROVE  FeedFresh(Feed!Listed', srv', ui', net')
<1>1. CASE UNCHANGED <<srv, ui, net>>
  <2>1. srv' = srv /\ ui' = ui /\ net' = net /\ Feed!Listed' = Feed!Listed
    BY <1>1 DEF Feed!Listed
  <2>2. QED
    BY <2>1
<1>2. CASE Feed!Next
  BY <1>2, FeedReads, FeedStreams, FeedClicks, FeedServes, FeedGoesOn, FeedMeanwhile DEF Feed!Next
<1>3. QED
  BY <1>1, <1>2

\* A quiet page lists what the api lists.
LEMMA FeedShown == ASSUME FeedFresh(Feed!Listed, srv, ui, net) PROVE Feed!FeedIsCurrent
<1>1. ASSUME Feed!Quiet, ~net.late, ~net.blind PROVE DOMAIN ui.list = Feed!Listed
  <2>1. LastOf(net.reads) = {} /\ ~FeedTold(ui, net)
    BY <1>1 DEF Feed!Quiet, LastOf, FeedTold
  <2>2. QED
    BY <1>1, <2>1 DEF FeedFresh, FeedShows, Feed!Quiet
<1>2. QED
  BY <1>1 DEF Feed!FeedIsCurrent

-----------------------------------------------------------------------------
(* The digest: a record that is saved is the last one shown, but for one field. *)

DigestFields(s, u, n) ==
  /\ s \in [Fields -> BOOLEAN]
  /\ u \in [Fields -> BOOLEAN] \cup {Nothing}
  /\ {"load", "saves", "chosen", "overlap", "saved"} \subseteq DOMAIN n
  /\ n.chosen \in [Fields -> BOOLEAN] /\ n.load \in BOOLEAN /\ n.overlap \in BOOLEAN
  /\ \A c \in n.saves : /\ {"n", "st", "field", "sent"} \subseteq DOMAIN c
                        /\ c.sent \in [Fields -> BOOLEAN] /\ c.field \in Fields
                        /\ c.st \in {"sent", "ok"}
  /\ n.load => u = Nothing /\ n.saves = {}
\* Of changes made one after the other, the one that is sent turns one field over.
DigestInOrder(s, u, n) ==
  /\ s = n.chosen
  /\ \A c, d \in n.saves : c = d
  /\ \A c \in n.saves : /\ c.st = "sent" => \A f \in Fields \ {c.field} : c.sent[f] = s[f]
                        /\ c.st = "ok" => c.sent = s
  /\ (\A c \in n.saves : c.st = "sent") /\ u # Nothing => u = s
DigestFresh(s, u, n) == DigestFields(s, u, n) /\ (n.overlap \/ DigestInOrder(s, u, n))

LEMMA DigestInit == ASSUME Digest!Init PROVE DigestFresh(srv, ui, net)
BY DEF Digest!Init, Digest!DigestSettings, DigestFresh, DigestFields, DigestInOrder

LEMMA DigestLoads ==
  ASSUME DigestFresh(srv, ui, net), NEW ok \in BOOLEAN, Digest!LoadDigest(ok)
  PROVE  DigestFresh(srv', ui', net')
<1>1. DigestFields(srv, ui, net) /\ srv' = srv /\ (ui' = srv \/ ui' = Nothing) /\ net.saves = {}
  BY DEF DigestFresh, DigestFields, Digest!LoadDigest
<1>2. /\ DOMAIN net' = DOMAIN net /\ net'.load = FALSE /\ net'.saves = net.saves
      /\ net'.chosen = net.chosen /\ net'.overlap = net.overlap
  BY <1>1 DEF Digest!LoadDigest, DigestFields
<1>3. DigestFields(srv', ui', net')
  BY <1>1, <1>2 DEF DigestFields
<1>4. QED
  BY <1>1, <1>2, <1>3 DEF DigestFresh, DigestInOrder

LEMMA DigestSaves ==
  ASSUME DigestFresh(srv, ui, net), NEW field \in Fields, Digest!SaveDigest(field)
  PROVE  DigestFresh(srv', ui', net')
<1> DEFINE new == [n |-> net.saved, st |-> "sent", field |-> field, sent |-> [ui EXCEPT ![field] = ~@]]
<1>1. /\ DigestFields(srv, ui, net) /\ srv' = srv /\ ui' = ui /\ ui # Nothing
      /\ ui \in [Fields -> BOOLEAN]
  BY DEF DigestFresh, DigestFields, Digest!SaveDigest
<1>2. /\ {"n", "st", "field", "sent"} \subseteq DOMAIN new /\ new.st = "sent" /\ new.field = field
      /\ new.sent \in [Fields -> BOOLEAN] /\ \A f \in Fields \ {field} : new.sent[f] = ui[f]
  BY <1>1
<1>3. net' = [net EXCEPT !.saves = net.saves \cup {new}, !.saved = net.saved + 1,
                         !.overlap = net.overlap \/ net.saves # {}]
  BY DEF Digest!SaveDigest
<1> HIDE DEF new
<1>4. /\ DOMAIN net' = DOMAIN net /\ net'.load = net.load /\ net'.saves = net.saves \cup {new}
      /\ net'.chosen = net.chosen /\ net'.overlap = (net.overlap \/ net.saves # {})
  BY <1>1, <1>3 DEF DigestFields
<1>5. net'.overlap \in BOOLEAN
  BY <1>4
<1>6. DigestFields(srv', ui', net')
  BY <1>1, <1>2, <1>4, <1>5 DEF DigestFields
<1>7. CASE net'.overlap
  BY <1>6, <1>7 DEF DigestFresh
<1>8. CASE ~net'.overlap
  <2>1. net.saves = {} /\ ~net.overlap /\ net'.saves = {new}
    BY <1>4, <1>8
  <2>2. srv = net.chosen /\ ui = srv
    BY <1>1, <2>1 DEF DigestFresh, DigestInOrder
  <2>3. QED
    BY <1>1, <1>2, <1>4, <1>6, <2>1, <2>2 DEF DigestFresh, DigestInOrder
<1>9. QED
  BY <1>7, <1>8

LEMMA DigestServes ==
  ASSUME DigestFresh(srv, ui, net), NEW c \in net.saves, Digest!ServeSave(c)
  PROVE  DigestFresh(srv', ui', net')
<1> DEFINE d == [c EXCEPT !.st = "ok"]
<1>1. /\ DigestFields(srv, ui, net) /\ srv' = c.sent /\ ui' = ui /\ c.st = "sent"
      /\ {"n", "st", "field", "sent"} \subseteq DOMAIN c
      /\ c.sent \in [Fields -> BOOLEAN] /\ c.field \in Fields
  BY DEF DigestFresh, DigestFields, Digest!ServeSave
<1>2. /\ {"n", "st", "field", "sent"} \subseteq DOMAIN d /\ d.st = "ok" /\ d.field = c.field
      /\ d.sent = c.sent
  BY <1>1
<1>3. net' = [net EXCEPT !.saves = (net.saves \ {c}) \cup {d}, !.chosen[c.field] = c.sent[c.field]]
  BY DEF Digest!ServeSave
<1> HIDE DEF d
<1>4. /\ DOMAIN net' = DOMAIN net /\ net'.load = net.load /\ net'.saves = (net.saves \ {c}) \cup {d}
      /\ net'.chosen = [net.chosen EXCEPT ![c.field] = c.sent[c.field]] /\ net'.overlap = net.overlap
  BY <1>1, <1>3 DEF DigestFields
<1>5. net'.chosen \in [Fields -> BOOLEAN]
  BY <1>1, <1>4 DEF DigestFields
<1>6. DigestFields(srv', ui', net')
  BY <1>1, <1>2, <1>4, <1>5 DEF DigestFields
<1>7. CASE ~net.overlap
  <2>1. DigestInOrder(srv, ui, net)
    BY <1>7 DEF DigestFresh
  <2>2. net'.saves = {d}
    BY <1>4, <2>1 DEF DigestInOrder
  <2>3. \A f \in Fields : net'.chosen[f] = c.sent[f]
    BY <1>1, <1>4, <2>1 DEF DigestInOrder, DigestFields
  <2>4. net'.chosen = c.sent
    BY <1>1, <1>5, <2>3
  <2>5. QED
    BY <1>1, <1>2, <1>6, <2>2, <2>4 DEF DigestFresh, DigestInOrder
<1>8. QED
  BY <1>4, <1>6, <1>7 DEF DigestFresh, DigestFields

LEMMA DigestEnds ==
  ASSUME DigestFresh(srv, ui, net), NEW c \in net.saves, Digest!AnswerSave(c) \/ Digest!FailSave(c)
  PROVE  DigestFresh(srv', ui', net')
<1>1. /\ DigestFields(srv, ui, net) /\ srv' = srv
      /\ c.sent \in [Fields -> BOOLEAN] /\ c.field \in Fields
  BY DEF DigestFresh, DigestFields, Digest!AnswerSave, Digest!FailSave
<1>2. /\ DOMAIN net' = DOMAIN net /\ net'.load = net.load /\ net'.saves = net.saves \ {c}
      /\ net'.chosen = net.chosen /\ net'.overlap \in BOOLEAN
      /\ \/ net'.overlap = net.overlap /\ c.st = "ok" /\ ui' = c.sent
         \/ net'.overlap = (net.overlap \/ c.st = "ok") /\ ui' = ui
  <2>1. CASE Digest!AnswerSave(c)
    BY <1>1, <2>1 DEF Digest!AnswerSave, DigestFields
  <2>2. CASE Digest!FailSave(c)
    BY <1>1, <2>2 DEF Digest!FailSave, DigestFields
  <2>3. QED
    BY <2>1, <2>2
<1>3. ~net.load
  BY <1>1 DEF DigestFields
<1>4. DigestFields(srv', ui', net')
  BY <1>1, <1>2, <1>3 DEF DigestFields
<1>5. CASE net'.overlap
  BY <1>4, <1>5 DEF DigestFresh
<1>6. CASE ~net'.overlap
  <2>1. ~net.overlap /\ DigestInOrder(srv, ui, net) /\ net'.saves = {}
    BY <1>2, <1>6 DEF DigestFresh, DigestInOrder
  <2>2. ui' # Nothing => ui' = srv
    <3>1. CASE c.st = "ok" /\ ui' = c.sent
      BY <2>1, <3>1 DEF DigestInOrder
    <3>2. CASE c.st # "ok" /\ ui' = ui
      <4>1. c.st = "sent"
        BY <1>1, <3>2 DEF DigestFields
      <4>2. QED
        BY <2>1, <3>2, <4>1 DEF DigestInOrder
    <3>3. QED
      BY <1>2, <1>6, <3>1, <3>2
  <2>3. QED
    BY <1>1, <1>2, <1>4, <2>1, <2>2 DEF DigestFresh, DigestInOrder
<1>7. QED
  BY <1>5, <1>6

LEMMA NextDigest ==
  ASSUME DigestFresh(srv, ui, net), [Digest!Next]_<<srv, ui, net>> PROVE DigestFresh(srv', ui', net')
<1>1. CASE UNCHANGED <<srv, ui, net>>
  BY <1>1
<1>2. CASE Digest!Next
  BY <1>2, DigestLoads, DigestSaves, DigestServes, DigestEnds DEF Digest!Next
<1>3. QED
  BY <1>1, <1>2

\* Of changes that did not overlap, the api holds every one.
LEMMA DigestShown == ASSUME DigestFresh(srv, ui, net) PROVE Digest!DigestKeepsChanges
BY DEF DigestFresh, DigestInOrder, Digest!DigestKeepsChanges
-----------------------------------------------------------------------------
(* The product panel: a product on screen carries the correction the api holds, *)
(* or the answer to a correction of that product is still to come.              *)

ProductUi == {"key", "range", "product", "status", "rangeLoading", "postings", "editing", "busy",
              "edit", "editLoading", "editError", "drag"}
ProductNet == {"loads", "edits", "saves", "refreshes", "saved", "ops", "missed"}
DataOf(data, key) == data # Nothing => {"key", "version"} \subseteq DOMAIN data /\ data.key = key
ProductSrvOk(s) ==
  {"version", "present"} \subseteq DOMAIN s /\ DOMAIN s.version = Products /\ s.present \subseteq Products
ProductUiOk(u) ==
  /\ ProductUi \subseteq DOMAIN u /\ DataOf(u.product, u.key)
  /\ u.edit # Nothing => {"key", "version"} \subseteq DOMAIN u.edit
LoadsOf(key, loads) ==
  \A l \in loads : /\ {"n", "key", "range", "live", "answered", "data"} \subseteq DOMAIN l
                   /\ DataOf(l.data, l.key) /\ (l.live = TRUE => l.key = key)
RefreshesOk(refreshes) ==
  \A f \in refreshes : {"key", "range", "answered", "data"} \subseteq DOMAIN f /\ DataOf(f.data, f.key)
\* Of corrections there is one at a time: one that was made is the version the api holds.
SavesOk(s, saves) ==
  /\ \A c \in saves : /\ {"match", "range", "st", "mine", "alive"} \subseteq DOMAIN c
                      /\ {"key", "version"} \subseteq DOMAIN c.match
                      /\ c.st = "ok" => c.match.version = s.version[c.match.key]
  /\ \A c, d \in saves : c = d
ProductNetOk(s, key, n) ==
  /\ ProductNet \subseteq DOMAIN n
  /\ LoadsOf(key, n.loads) /\ RefreshesOk(n.refreshes) /\ SavesOk(s, n.saves)
  /\ n.saved \in Nat /\ (n.saved = 0 => n.saves = {})
Owed(data, saves) == \E c \in saves : c.st = "ok" /\ c.alive = TRUE /\ c.match.key = data.key
ProductShows(s, u, n) ==
  u.product # Nothing => Owed(u.product, n.saves) \/ u.product.version = s.version[u.product.key]
ProductFresh(s, u, n) ==
  /\ ProductSrvOk(s) /\ ProductUiOk(u) /\ ProductNetOk(s, u.key, n)
  /\ n.missed = TRUE \/ ProductShows(s, u, n)

\* A new read is of the product the panel is on; the reads before it count no more.
LEMMA ProductAsks ==
  ASSUME NEW s, NEW n, NEW old, ProductNetOk(s, old, n), NEW key, NEW range,
         NEW m, m = Product!Loading(n, key, range)
  PROVE  /\ ProductNetOk(s, key, m) /\ m.saves = n.saves /\ m.missed = n.missed
<1> DEFINE new == [n |-> n.ops, key |-> key, range |-> range, live |-> TRUE,
                   answered |-> FALSE, data |-> Nothing]
           dead == {[l EXCEPT !.live = FALSE] : l \in n.loads}
<1>1. m = [n EXCEPT !.loads = dead \cup {new}, !.ops = n.ops + 1]
  BY DEF Product!Loading
<1>2. {"n", "key", "range", "live", "answered", "data"} \subseteq DOMAIN new /\ new.key = key
      /\ DataOf(new.data, new.key)
  BY DEF DataOf
<1>3. ASSUME NEW q \in dead
      PROVE  /\ {"n", "key", "range", "live", "answered", "data"} \subseteq DOMAIN q
             /\ DataOf(q.data, q.key) /\ q.live = FALSE
  <2>1. PICK l \in n.loads : q = [l EXCEPT !.live = FALSE]
    OBVIOUS
  <2>2. {"n", "key", "range", "live", "answered", "data"} \subseteq DOMAIN l /\ DataOf(l.data, l.key)
    BY DEF ProductNetOk, LoadsOf
  <2>3. QED
    BY <2>1, <2>2
<1> HIDE DEF new, dead
<1>4. LoadsOf(key, dead \cup {new})
  BY <1>2, <1>3 DEF LoadsOf
<1>5. /\ DOMAIN m = DOMAIN n /\ m.loads = dead \cup {new} /\ m.refreshes = n.refreshes
      /\ m.saves = n.saves /\ m.saved = n.saved /\ m.missed = n.missed
  BY <1>1 DEF ProductNetOk, ProductNet
<1>6. QED
  BY <1>4, <1>5 DEF ProductNetOk

\* Corrections that differ only in whose they are say of the rows what they said.
LEMMA SavesMoved ==
  ASSUME NEW s, NEW old, SavesOk(s, old), NEW saves, \A p, q \in saves : p = q,
         \A q \in saves : \E c \in old :
           /\ {"match", "range", "st", "mine", "alive"} \subseteq DOMAIN q
           /\ q.match = c.match /\ q.st = c.st
  PROVE  SavesOk(s, saves)
<1>1. ASSUME NEW q \in saves
      PROVE  /\ {"match", "range", "st", "mine", "alive"} \subseteq DOMAIN q
             /\ {"key", "version"} \subseteq DOMAIN q.match
             /\ q.st = "ok" => q.match.version = s.version[q.match.key]
  <2>1. PICK c \in old : /\ {"match", "range", "st", "mine", "alive"} \subseteq DOMAIN q
                         /\ q.match = c.match /\ q.st = c.st
    OBVIOUS
  <2>2. /\ {"key", "version"} \subseteq DOMAIN c.match
        /\ c.st = "ok" => c.match.version = s.version[c.match.key]
    BY DEF SavesOk
  <2>3. QED
    BY ONLY <2>1, <2>2
<1>2. QED
  BY <1>1 DEF SavesOk

\* A correction that is nobody's any more is made and answered as before.
LEMMA ProductOrphans ==
  ASSUME NEW s, NEW n, NEW key, ProductNetOk(s, key, n), NEW m, m = Product!EditorGone(n)
  PROVE  /\ ProductNetOk(s, key, m) /\ m.missed = n.missed
         /\ \A data : Owed(data, n.saves) => Owed(data, m.saves)
<1> DEFINE saves == {[c EXCEPT !.mine = FALSE] : c \in n.saves}
<1>1. m = [n EXCEPT !.saves = saves]
  BY DEF Product!EditorGone
<1>2. ASSUME NEW c \in n.saves, NEW q, q = [c EXCEPT !.mine = FALSE]
      PROVE  /\ {"match", "range", "st", "mine", "alive"} \subseteq DOMAIN q
             /\ q.match = c.match /\ q.st = c.st /\ q.alive = c.alive
  BY <1>2 DEF ProductNetOk, SavesOk
<1>3. SavesOk(s, saves)
  <2>1. SavesOk(s, n.saves) /\ (\A c, d \in n.saves : c = d)
    BY DEF ProductNetOk, SavesOk
  <2>2. ASSUME NEW q \in saves
        PROVE  \E c \in n.saves : /\ {"match", "range", "st", "mine", "alive"} \subseteq DOMAIN q
                                  /\ q.match = c.match /\ q.st = c.st
    <3>1. PICK c \in n.saves : q = [c EXCEPT !.mine = FALSE]
      OBVIOUS
    <3>2. QED
      BY <1>2, <3>1
  <2>3. ASSUME NEW p \in saves, NEW q \in saves PROVE p = q
    <3>1. PICK c \in n.saves : p = [c EXCEPT !.mine = FALSE]
      OBVIOUS
    <3>2. PICK d \in n.saves : q = [d EXCEPT !.mine = FALSE]
      OBVIOUS
    <3>3. c = d
      BY <2>1
    <3>4. QED
      BY ONLY <3>1, <3>2, <3>3
  <2> HIDE DEF saves
  <2>4. QED
    BY <2>1, <2>2, <2>3, SavesMoved
<1>4. ASSUME NEW data, Owed(data, n.saves) PROVE Owed(data, saves)
  <2>1. PICK c \in n.saves : c.st = "ok" /\ c.alive = TRUE /\ c.match.key = data.key
    BY <1>4 DEF Owed
  <2>2. PICK q : q = [c EXCEPT !.mine = FALSE]
    OBVIOUS
  <2>3. q \in saves /\ q.match = c.match /\ q.st = c.st /\ q.alive = c.alive
    BY <1>2, <2>2
  <2>4. QED
    BY <2>1, <2>3 DEF Owed
<1>5. n.saves = {} => saves = {}
  OBVIOUS
<1> HIDE DEF saves
<1>6. /\ DOMAIN m = DOMAIN n /\ m.saves = saves /\ m.loads = n.loads /\ m.refreshes = n.refreshes
      /\ m.saved = n.saved /\ m.missed = n.missed
  BY <1>1 DEF ProductNetOk, ProductNet
<1>7. QED
  BY <1>3, <1>4, <1>5, <1>6 DEF ProductNetOk

LEMMA ProductNew ==
  ASSUME NEW key, NEW u, u = Product!NewPanel(key)
  PROVE  ProductUiOk(u) /\ u.key = key /\ u.product = Nothing
BY DEF Product!NewPanel, ProductUiOk, ProductUi, DataOf

LEMMA ProductInit == ASSUME Product!Init PROVE ProductFresh(srv, ui, net)
<1>1. ProductSrvOk(srv)
  BY DEF Product!Init, ProductSrvOk
<1> DEFINE n == [loads |-> {}, edits |-> {}, saves |-> {}, refreshes |-> {},
                 saved |-> 0, ops |-> 0, missed |-> FALSE]
<1>2. PICK k \in Products : ui = Product!NewPanel(k) /\ net = Product!Loading(n, k, FirstRange)
  BY DEF Product!Init
<1>3. ProductNetOk(srv, k, n)
  BY DEF ProductNetOk, ProductNet, LoadsOf, RefreshesOk, SavesOk
<1> HIDE DEF n
<1>4. ProductUiOk(ui) /\ ui.key = k /\ ui.product = Nothing
  BY <1>2, ProductNew
<1>5. ProductNetOk(srv, k, net)
  BY <1>2, <1>3, ProductAsks
<1>6. QED
  BY <1>1, <1>4, <1>5 DEF ProductFresh, ProductShows

\* The panel is given another product, or another period, or closed.
LEMMA ProductGiven ==
  ASSUME ProductFresh(srv, ui, net),
         \/ \E k \in Products : Product!Switch(k) \/ Product!Open(k)
         \/ \E range \in Ranges : Product!SelectRange(range)
         \/ Product!Close
  PROVE  ProductFresh(srv', ui', net')
<1>1. /\ ProductSrvOk(srv) /\ ProductUiOk(ui) /\ ProductNetOk(srv, ui.key, net) /\ srv' = srv
  BY DEF ProductFresh, Product!Switch, Product!Open, Product!SelectRange, Product!Close
<1>2. ASSUME NEW k \in Products, Product!Switch(k) PROVE ProductFresh(srv', ui', net')
  <2> DEFINE p == Product!NewPanel(k)
             edits == {[e EXCEPT !.live = FALSE] : e \in net.edits}
             n == [net EXCEPT !.edits = edits]
             m == Product!Loading(n, k, FirstRange)
  <2>1. PICK x, y : ui' = [p EXCEPT !.rangeLoading = x, !.drag = y]
    BY <1>2 DEF Product!Switch
  <2>2. net' = Product!EditorGone(m)
    BY <1>2 DEF Product!Switch
  <2>3. ProductUiOk(p) /\ p.key = k /\ p.product = Nothing
    BY ProductNew
  <2> HIDE DEF p, edits
  <2>4. ProductUiOk(ui') /\ ui'.key = k /\ ui'.product = Nothing
    BY <2>1, <2>3 DEF ProductUiOk, ProductUi
  <2>5. ProductNetOk(srv, ui.key, n)
    BY <1>1 DEF ProductNetOk, ProductNet
  <2> HIDE DEF n
  <2>6. ProductNetOk(srv, k, m)
    BY <2>5, ProductAsks
  <2> HIDE DEF m
  <2>7. ProductNetOk(srv, k, net')
    BY <2>2, <2>6, ProductOrphans
  <2>8. QED
    BY <1>1, <2>4, <2>7 DEF ProductFresh, ProductShows
<1>3. ASSUME NEW k \in Products, Product!Open(k) PROVE ProductFresh(srv', ui', net')
  <2>1. ui' = Product!NewPanel(k) /\ net' = Product!Loading(net, k, FirstRange)
    BY <1>3 DEF Product!Open
  <2>2. ProductUiOk(ui') /\ ui'.key = k /\ ui'.product = Nothing
    BY <2>1, ProductNew
  <2>3. ProductNetOk(srv, k, net')
    BY <1>1, <2>1, ProductAsks
  <2>4. QED
    BY <1>1, <2>2, <2>3 DEF ProductFresh, ProductShows
<1>4. ASSUME NEW range \in Ranges, Product!SelectRange(range) PROVE ProductFresh(srv', ui', net')
  <2>1. /\ ui' = [ui EXCEPT !.range = range, !.rangeLoading = TRUE]
        /\ net' = Product!Loading(net, ui.key, range)
    BY <1>4 DEF Product!SelectRange
  <2>2. ProductUiOk(ui') /\ ui'.key = ui.key /\ ui'.product = ui.product
    BY <1>1, <2>1 DEF ProductUiOk, ProductUi
  <2>3. ProductNetOk(srv, ui.key, net') /\ net'.saves = net.saves /\ net'.missed = net.missed
    BY <1>1, <2>1, ProductAsks
  <2>4. QED
    BY <1>1, <2>2, <2>3 DEF ProductFresh, ProductShows
<1>5. CASE Product!Close
  <2> DEFINE saves == {[c EXCEPT !.mine = FALSE, !.alive = FALSE] : c \in net.saves}
  <2>1. /\ ui' = Product!NewPanel(Nothing)
        /\ net' = [net EXCEPT !.loads = {}, !.edits = {}, !.refreshes = {}, !.saves = saves]
    BY <1>5 DEF Product!Close
  <2>2. ASSUME NEW c \in net.saves, NEW q, q = [c EXCEPT !.mine = FALSE, !.alive = FALSE]
        PROVE  /\ {"match", "range", "st", "mine", "alive"} \subseteq DOMAIN q
               /\ q.match = c.match /\ q.st = c.st
    BY <1>1, <2>2 DEF ProductNetOk, SavesOk
  <2>3. SavesOk(srv, saves)
    <3>1. SavesOk(srv, net.saves) /\ (\A c, d \in net.saves : c = d)
      BY <1>1 DEF ProductNetOk, SavesOk
    <3>2. ASSUME NEW q \in saves
          PROVE  \E c \in net.saves : /\ {"match", "range", "st", "mine", "alive"} \subseteq DOMAIN q
                                      /\ q.match = c.match /\ q.st = c.st
      <4>1. PICK c \in net.saves : q = [c EXCEPT !.mine = FALSE, !.alive = FALSE]
        OBVIOUS
      <4>2. QED
        BY <2>2, <4>1
    <3>3. ASSUME NEW p \in saves, NEW q \in saves PROVE p = q
      <4>1. PICK c \in net.saves : p = [c EXCEPT !.mine = FALSE, !.alive = FALSE]
        OBVIOUS
      <4>2. PICK d \in net.saves : q = [d EXCEPT !.mine = FALSE, !.alive = FALSE]
        OBVIOUS
      <4>3. c = d
        BY <3>1
      <4>4. QED
        BY ONLY <4>1, <4>2, <4>3
    <3> HIDE DEF saves
    <3>4. QED
      BY <3>1, <3>2, <3>3, SavesMoved
  <2>9. net.saves = {} => saves = {}
    OBVIOUS
  <2> HIDE DEF saves
  <2>4. /\ DOMAIN net' = DOMAIN net /\ net'.loads = {} /\ net'.refreshes = {} /\ net'.saves = saves
        /\ net'.saved = net.saved
    BY <1>1, <2>1 DEF ProductNetOk, ProductNet
  <2>5. ProductNetOk(srv, Nothing, net')
    BY <1>1, <2>3, <2>4, <2>9 DEF ProductNetOk, LoadsOf, RefreshesOk
  <2>6. ProductUiOk(ui') /\ ui'.key = Nothing /\ ui'.product = Nothing
    BY <2>1, ProductNew
  <2>7. QED
    BY <1>1, <2>5, <2>6 DEF ProductFresh, ProductShows
<1>6. QED
  BY <1>2, <1>3, <1>4, <1>5

\* A read is answered; the newest one is shown, and is missed if it is outdated.
LEMMA ProductReads ==
  ASSUME ProductFresh(srv, ui, net), NEW l \in net.loads,
         Product!AnswerLoad(l) \/ Product!ShowLoad(l) \/ Product!FailLoad(l)
  PROVE  ProductFresh(srv', ui', net')
<1>1. /\ ProductSrvOk(srv) /\ ProductUiOk(ui) /\ ProductNetOk(srv, ui.key, net) /\ srv' = srv
      /\ net.missed = TRUE \/ ProductShows(srv, ui, net)
  BY DEF ProductFresh, Product!AnswerLoad, Product!ShowLoad, Product!FailLoad
<1>2. /\ {"n", "key", "range", "live", "answered", "data"} \subseteq DOMAIN l
      /\ DataOf(l.data, l.key) /\ (l.live = TRUE => l.key = ui.key)
  BY <1>1 DEF ProductNetOk, LoadsOf
<1>3. CASE Product!AnswerLoad(l)
  <2> DEFINE data == IF l.key \in srv.present
                       THEN [key |-> l.key, range |-> l.range, version |-> srv.version[l.key]]
                       ELSE Nothing
             q == [l EXCEPT !.answered = TRUE, !.data = data]
  <2>1. ui' = ui /\ net' = [net EXCEPT !.loads = (net.loads \ {l}) \cup {q}]
    BY <1>3 DEF Product!AnswerLoad
  <2>2. DataOf(data, l.key)
    BY DEF DataOf
  <2> HIDE DEF data
  <2>3. /\ {"n", "key", "range", "live", "answered", "data"} \subseteq DOMAIN q
        /\ DataOf(q.data, q.key) /\ (q.live = TRUE => q.key = ui.key)
    BY <1>2, <2>2
  <2> HIDE DEF q
  <2>4. /\ DOMAIN net' = DOMAIN net /\ net'.loads = (net.loads \ {l}) \cup {q} /\ net'.saves = net.saves
        /\ net'.refreshes = net.refreshes /\ net'.saved = net.saved /\ net'.missed = net.missed
    BY <1>1, <2>1 DEF ProductNetOk, ProductNet
  <2>5. ProductNetOk(srv, ui.key, net')
    BY <1>1, <2>3, <2>4 DEF ProductNetOk, LoadsOf
  <2>6. QED
    BY <1>1, <2>1, <2>4, <2>5 DEF ProductFresh, ProductShows
<1>4. CASE Product!ShowLoad(l) \/ Product!FailLoad(l)
  <2>1. /\ DOMAIN net' = DOMAIN net /\ net'.loads = net.loads \ {l} /\ net'.saves = net.saves
        /\ net'.refreshes = net.refreshes /\ net'.saved = net.saved
    BY <1>1, <1>4 DEF Product!ShowLoad, Product!FailLoad, ProductNetOk, ProductNet
  <2>2. ProductNetOk(srv, ui.key, net')
    BY <1>1, <2>1 DEF ProductNetOk, LoadsOf
  <2>3. ASSUME NEW st, NEW x, ui' = [ui EXCEPT !.status = st, !.rangeLoading = x] \/ ui' = ui,
               net.missed = TRUE => net'.missed = TRUE
        PROVE  ProductFresh(srv', ui', net')
    <3>1. ProductUiOk(ui') /\ ui'.key = ui.key /\ ui'.product = ui.product
      BY <1>1, <2>3 DEF ProductUiOk, ProductUi
    <3>2. QED
      BY <1>1, <2>1, <2>2, <2>3, <3>1 DEF ProductFresh, ProductShows
  <2>4. CASE Product!FailLoad(l)
    <3>1. net'.missed = net.missed
      BY <1>1, <2>4 DEF Product!FailLoad, ProductNetOk, ProductNet
    <3>2. ui' = [ui EXCEPT !.status = "error", !.rangeLoading = FALSE] \/ ui' = ui
      BY <2>4 DEF Product!FailLoad
    <3>3. QED
      BY <2>3, <3>1, <3>2
  <2>5. CASE Product!ShowLoad(l)
    <3>1. net'.missed = (net.missed \/ (l.live /\ Product!Outdated(l.data)))
      BY <1>1, <2>5 DEF Product!ShowLoad, ProductNetOk, ProductNet
    <3>2. CASE ~l.live \/ l.data = Nothing
      <4>1. ui' = [ui EXCEPT !.status = "not-found", !.rangeLoading = FALSE] \/ ui' = ui
        BY <2>5, <3>2 DEF Product!ShowLoad, Product!Loaded
      <4>2. QED
        BY <2>3, <3>1, <4>1
    <3>3. CASE l.live /\ l.data # Nothing
      <4>1. ui' = [ui EXCEPT !.status = "ready", !.rangeLoading = FALSE, !.product = l.data]
        BY <2>5, <3>3 DEF Product!ShowLoad, Product!Loaded
      <4>2. l.data.key = ui.key /\ {"key", "version"} \subseteq DOMAIN l.data
        BY <1>2, <3>3 DEF DataOf
      <4>3. ProductUiOk(ui') /\ ui'.key = ui.key /\ ui'.product = l.data
        BY <1>1, <4>1, <4>2 DEF ProductUiOk, ProductUi, DataOf
      <4>4. net'.missed = TRUE \/ l.data.version = srv.version[l.data.key]
        BY <3>1, <3>3 DEF Product!Outdated
      <4>5. QED
        BY <1>1, <2>2, <4>3, <4>4 DEF ProductFresh, ProductShows
    <3>4. QED
      BY <3>2, <3>3
  <2>6. QED
    BY <1>4, <2>4, <2>5
<1>5. QED
  BY <1>3, <1>4

\* The form, the gesture and the deletions elsewhere; a correction is sent.
LEMMA ProductClicks ==
  ASSUME ProductFresh(srv, ui, net),
         \/ Product!EditData \/ Product!CancelEdit \/ Product!TogglePostings
         \/ \E to \in {"none", "short", "far"} : Product!Drag(to)
         \/ \E k \in Products : Product!OtherDelete(k)
         \/ \E e \in net.edits : Product!AnswerEdit(e) \/ Product!FailEdit(e)
         \/ \E version \in {0, net.saved + 1} : Product!Submit(version)
  PROVE  ProductFresh(srv', ui', net')
<1>1. /\ ProductSrvOk(srv) /\ ProductUiOk(ui) /\ ProductNetOk(srv, ui.key, net)
      /\ net.missed = TRUE \/ ProductShows(srv, ui, net)
  BY DEF ProductFresh
<1>2. ASSUME srv' = srv, ProductUiOk(ui'), ui'.key = ui.key, ui'.product = ui.product,
             DOMAIN net' = DOMAIN net, net'.loads = net.loads, net'.saves = net.saves,
             net'.refreshes = net.refreshes, net'.saved = net.saved, net'.missed = net.missed
      PROVE  ProductFresh(srv', ui', net')
  BY <1>1, <1>2 DEF ProductFresh, ProductNetOk, ProductShows
<1>3. ASSUME NEW e, net' = net \/ net' = [net EXCEPT !.edits = e]
                   \/ net' = [net EXCEPT !.edits = e, !.ops = net.ops + 1]
      PROVE  /\ DOMAIN net' = DOMAIN net /\ net'.loads = net.loads /\ net'.saves = net.saves
             /\ net'.refreshes = net.refreshes /\ net'.saved = net.saved /\ net'.missed = net.missed
  BY <1>1, <1>3 DEF ProductNetOk, ProductNet
<1>4. CASE \/ Product!EditData \/ Product!CancelEdit \/ Product!TogglePostings
           \/ \E to \in {"none", "short", "far"} : Product!Drag(to)
  <2>1. srv' = srv /\ ProductUiOk(ui') /\ ui'.key = ui.key /\ ui'.product = ui.product
    BY <1>1, <1>4 DEF Product!EditData, Product!CancelEdit, Product!TogglePostings, Product!Drag,
         ProductUiOk, ProductUi
  <2>2. \E e : net' = net \/ net' = [net EXCEPT !.edits = e, !.ops = net.ops + 1]
    <3>1. CASE Product!EditData
      BY <3>1 DEF Product!EditData
    <3>2. CASE \/ Product!CancelEdit \/ Product!TogglePostings
               \/ \E to \in {"none", "short", "far"} : Product!Drag(to)
      BY <3>2 DEF Product!CancelEdit, Product!TogglePostings, Product!Drag
    <3>3. QED
      BY <1>4, <3>1, <3>2
  <2>3. QED
    BY <1>2, <1>3, <2>1, <2>2
<1>5. ASSUME NEW k \in Products, Product!OtherDelete(k) PROVE ProductFresh(srv', ui', net')
  <2>1. /\ ui' = ui /\ net' = net /\ srv' = [srv EXCEPT !.present = srv.present \ {k}]
    BY <1>5 DEF Product!OtherDelete
  <2>2. ProductSrvOk(srv') /\ srv'.version = srv.version
    BY <1>1, <2>1 DEF ProductSrvOk
  <2>3. QED
    BY <1>1, <2>1, <2>2 DEF ProductFresh, ProductNetOk, SavesOk, ProductShows
<1>6. ASSUME NEW e \in net.edits, Product!AnswerEdit(e) \/ Product!FailEdit(e)
      PROVE  ProductFresh(srv', ui', net')
  <2>1. srv' = srv /\ net' = [net EXCEPT !.edits = net.edits \ {e}]
    BY <1>6 DEF Product!AnswerEdit, Product!FailEdit
  <2>2. ProductUiOk(ui') /\ ui'.key = ui.key /\ ui'.product = ui.product
    <3>1. \/ ui' = ui
          \/ ui' = [ui EXCEPT !.editError = TRUE, !.editLoading = FALSE]
          \/ ui' = [ui EXCEPT !.edit = Nothing, !.editError = TRUE, !.editLoading = FALSE]
          \/ ui' = [ui EXCEPT !.edit = [key |-> e.key, version |-> srv.version[e.key]], !.editLoading = FALSE]
      BY <1>6 DEF Product!AnswerEdit, Product!FailEdit
    <3>2. QED
      BY <1>1, <3>1 DEF ProductUiOk, ProductUi
  <2>3. QED
    BY <1>2, <1>3, <2>1, <2>2
<1>7. ASSUME NEW version, Product!Submit(version) PROVE ProductFresh(srv', ui', net')
  <2> DEFINE match == [ui.edit EXCEPT !.version = version]
             c == [match |-> match, range |-> ui.range, st |-> "sent", mine |-> TRUE, alive |-> TRUE]
  <2>1. /\ srv' = srv /\ ui' = [ui EXCEPT !.busy = TRUE] /\ ui.edit # Nothing /\ net.saved < 1
        /\ net' = [net EXCEPT !.saved = net.saved + 1, !.saves = net.saves \cup {c}]
    BY <1>7 DEF Product!Submit, Product!Editor
  <2>2. {"key", "version"} \subseteq DOMAIN match
    BY <1>1, <2>1 DEF ProductUiOk
  <2> HIDE DEF match
  <2>3. /\ {"match", "range", "st", "mine", "alive"} \subseteq DOMAIN c /\ c.match = match /\ c.st # "ok"
    OBVIOUS
  <2> HIDE DEF c
  <2>4. net.saves = {} /\ net.saved = 0
    BY <1>1, <2>1 DEF ProductNetOk
  <2>5. /\ DOMAIN net' = DOMAIN net /\ net'.loads = net.loads /\ net'.saves = {c}
        /\ net'.refreshes = net.refreshes /\ net'.saved = 1 /\ net'.missed = net.missed
    BY <1>1, <2>1, <2>4 DEF ProductNetOk, ProductNet
  <2>6. ProductUiOk(ui') /\ ui'.key = ui.key /\ ui'.product = ui.product
    BY <1>1, <2>1 DEF ProductUiOk, ProductUi
  <2>7. SavesOk(srv, {c})
    BY <2>2, <2>3 DEF SavesOk
  <2>8. ProductNetOk(srv', ui'.key, net')
    <3>1. net'.saved \in Nat /\ net'.saved # 0
      BY <2>5
    <3>2. srv' = srv /\ ui'.key = ui.key
      BY <2>1, <2>6
    <3>3. SavesOk(srv, net'.saves)
      BY <2>5, <2>7
    <3>4. QED
      BY ONLY <1>1, <2>5, <3>1, <3>2, <3>3 DEF ProductNetOk
  <2>9. ProductShows(srv, ui, net) => ProductShows(srv', ui', net')
    BY <2>1, <2>4, <2>6 DEF ProductShows, Owed
  <2>10. QED
    BY <1>1, <2>1, <2>5, <2>6, <2>8, <2>9 DEF ProductFresh
<1>8. QED
  BY <1>4, <1>5, <1>6, <1>7

\* A correction is made, refused or lost; its answer is shown at once.
LEMMA ProductSaves ==
  ASSUME ProductFresh(srv, ui, net), NEW c \in net.saves,
         Product!ServeSave(c) \/ Product!FailSave(c) \/ Product!AnswerSave(c)
  PROVE  ProductFresh(srv', ui', net')
<1>1. /\ ProductSrvOk(srv) /\ ProductUiOk(ui) /\ ProductNetOk(srv, ui.key, net)
      /\ net.missed = TRUE \/ ProductShows(srv, ui, net)
  BY DEF ProductFresh
<1>2. /\ {"match", "range", "st", "mine", "alive"} \subseteq DOMAIN c
      /\ {"key", "version"} \subseteq DOMAIN c.match
      /\ c.st = "ok" => c.match.version = srv.version[c.match.key]
      /\ net.saves = {c} /\ net.saved \in Nat /\ net.saved # 0
  BY <1>1 DEF ProductNetOk, SavesOk
<1>3. CASE Product!ServeSave(c)
  <2> DEFINE d == [c EXCEPT !.st = "ok"]
  <2>1. /\ c.match.key \in srv.present /\ ui' = ui /\ c.st = "sent"
        /\ srv' = [srv EXCEPT !.version[c.match.key] = c.match.version]
        /\ net' = [net EXCEPT !.saves = (net.saves \ {c}) \cup {d}, !.missed = net.missed \/ ~c.alive]
    BY <1>3 DEF Product!ServeSave
  <2>2. /\ {"match", "range", "st", "mine", "alive"} \subseteq DOMAIN d /\ d.match = c.match
        /\ d.st = "ok" /\ d.alive = c.alive
    BY <1>2
  <2> HIDE DEF d
  <2>3. /\ DOMAIN net' = DOMAIN net /\ net'.loads = net.loads /\ net'.saves = {d}
        /\ net'.refreshes = net.refreshes /\ net'.saved = net.saved
        /\ net'.missed = (net.missed \/ ~c.alive)
    BY <1>1, <1>2, <2>1 DEF ProductNetOk, ProductNet
  <2>4. /\ ProductSrvOk(srv') /\ c.match.key \in Products
        /\ srv'.version = [srv.version EXCEPT ![c.match.key] = c.match.version]
    BY <1>1, <2>1 DEF ProductSrvOk
  <2>5. /\ srv'.version[c.match.key] = c.match.version
        /\ \A k : k # c.match.key => srv'.version[k] = srv.version[k]
    BY <1>1, <2>4 DEF ProductSrvOk
  <2>6. SavesOk(srv', {d})
    BY <1>2, <2>2, <2>5 DEF SavesOk
  <2>7. ProductNetOk(srv', ui.key, net')
    BY <1>1, <1>2, <2>3, <2>6 DEF ProductNetOk
  <2>8. ~net'.missed => ProductShows(srv', ui', net')
    <3>1. ASSUME ~net'.missed, ui.product # Nothing, ui.product.key # c.match.key
          PROVE  ui.product.version = srv'.version[ui.product.key]
      BY <1>1, <1>2, <2>1, <2>3, <2>5, <3>1 DEF ProductShows, Owed
    <3>2. ASSUME ~net'.missed, ui.product # Nothing, ui.product.key = c.match.key
          PROVE  Owed(ui.product, net'.saves)
      BY <2>2, <2>3, <3>2 DEF Owed
    <3>3. QED
      BY <2>1, <3>1, <3>2 DEF ProductShows
  <2>9. QED
    BY <1>1, <2>1, <2>4, <2>7, <2>8 DEF ProductFresh
<1>4. CASE Product!FailSave(c)
  <2>1. /\ srv' = srv /\ ui' = [ui EXCEPT !.busy = ui.busy /\ ~c.mine]
        /\ net' = [net EXCEPT !.saves = net.saves \ {c}, !.missed = net.missed \/ c.st = "ok"]
    BY <1>4 DEF Product!FailSave
  <2>2. /\ DOMAIN net' = DOMAIN net /\ net'.loads = net.loads /\ net'.saves = {}
        /\ net'.refreshes = net.refreshes /\ net'.saved = net.saved
        /\ net'.missed = (net.missed \/ c.st = "ok")
    BY <1>1, <1>2, <2>1 DEF ProductNetOk, ProductNet
  <2>3. ProductUiOk(ui') /\ ui'.key = ui.key /\ ui'.product = ui.product
    BY <1>1, <2>1 DEF ProductUiOk, ProductUi
  <2>4. ProductNetOk(srv, ui.key, net')
    BY <1>1, <2>2 DEF ProductNetOk, SavesOk
  <2>5. ~net'.missed => ProductShows(srv, ui', net')
    BY <1>1, <1>2, <2>2, <2>3 DEF ProductShows, Owed
  <2>6. QED
    BY <1>1, <2>1, <2>3, <2>4, <2>5 DEF ProductFresh
<1>5. CASE Product!AnswerSave(c)
  <2> DEFINE n == [net EXCEPT !.saves = net.saves \ {c}]
  <2>1. /\ DOMAIN n = DOMAIN net /\ n.loads = net.loads /\ n.saves = {}
        /\ n.refreshes = net.refreshes /\ n.saved = net.saved /\ n.missed = net.missed
    BY <1>1, <1>2 DEF ProductNetOk, ProductNet
  <2>2. ProductNetOk(srv, ui.key, n)
    BY <1>1, <2>1 DEF ProductNetOk, SavesOk
  <2>3. srv' = srv /\ c.st = "ok"
    BY <1>5 DEF Product!AnswerSave
  <2>4. CASE ~c.alive
    <3>1. ui' = ui /\ net' = n
      BY <1>5, <2>4 DEF Product!AnswerSave
    <3> HIDE DEF n
    <3>2. net.missed = TRUE \/ ProductShows(srv, ui, n)
      BY <1>1, <1>2, <2>1, <2>4 DEF ProductShows, Owed
    <3>3. QED
      BY <1>1, <2>1, <2>2, <2>3, <3>1, <3>2 DEF ProductFresh
  <2>5. CASE c.alive
    <3> DEFINE f == [key |-> c.match.key, range |-> c.range, answered |-> FALSE, data |-> Nothing]
               m == [n EXCEPT !.refreshes = n.refreshes \cup {f}]
               u == [ui EXCEPT !.edit = c.match, !.editing = FALSE, !.busy = FALSE]
    <3>1. ui' = Product!Corrected(u, c.match) /\ net' = Product!EditorGone(m)
      BY <1>5, <2>5 DEF Product!AnswerSave
    <3>2. {"key", "range", "answered", "data"} \subseteq DOMAIN f /\ DataOf(f.data, f.key)
      BY DEF DataOf
    <3> HIDE DEF f
    <3>3. ProductNetOk(srv, ui.key, m) /\ m.missed = n.missed /\ m.saves = n.saves
      <4> HIDE DEF n
      <4>1. /\ DOMAIN m = DOMAIN n /\ m.loads = n.loads /\ m.saves = n.saves
            /\ m.refreshes = n.refreshes \cup {f} /\ m.saved = n.saved /\ m.missed = n.missed
        BY <2>2 DEF ProductNetOk, ProductNet
      <4>2. QED
        BY <2>2, <3>2, <4>1 DEF ProductNetOk, RefreshesOk
    <3> HIDE DEF n, m
    <3>4. ProductNetOk(srv, ui.key, net') /\ net'.missed = net.missed
      BY <2>1, <3>1, <3>3, ProductOrphans
    <3>5. ProductUiOk(u) /\ u.key = ui.key /\ u.product = ui.product
      BY <1>1, <1>2 DEF ProductUiOk, ProductUi
    <3> HIDE DEF u
    <3>6. CASE u.product # Nothing /\ u.product.key = c.match.key
      <4>1. ui' = [u EXCEPT !.product.version = c.match.version]
        BY <3>1, <3>6 DEF Product!Corrected
      <4>2. /\ DOMAIN ui' = DOMAIN u /\ ui'.key = u.key /\ ui'.edit = u.edit
            /\ ui'.product = [u.product EXCEPT !.version = c.match.version]
        BY <3>5, <4>1 DEF ProductUiOk, ProductUi
      <4>3. /\ DOMAIN ui'.product = DOMAIN u.product /\ ui'.product.key = u.product.key
            /\ ui'.product.version = c.match.version
        BY <3>5, <3>6, <4>2 DEF ProductUiOk, DataOf
      <4>4. ProductUiOk(ui')
        BY <3>5, <3>6, <4>2, <4>3 DEF ProductUiOk, DataOf
      <4>5. ui'.product.version = srv.version[ui'.product.key]
        BY <1>2, <2>3, <3>6, <4>3
      <4>6. QED
        BY <1>1, <2>3, <3>4, <3>5, <4>2, <4>4, <4>5 DEF ProductFresh, ProductShows
    <3>7. CASE ~(u.product # Nothing /\ u.product.key = c.match.key)
      <4>1. ui' = u
        BY <3>1, <3>7 DEF Product!Corrected
      <4>2. net.missed = TRUE \/ (ui.product # Nothing => ui.product.version = srv.version[ui.product.key])
        BY <1>1, <1>2, <3>5, <3>7 DEF ProductShows, Owed
      <4>3. QED
        BY <1>1, <2>3, <3>4, <3>5, <4>1, <4>2 DEF ProductFresh, ProductShows
    <3>8. QED
      BY <3>6, <3>7
  <2>6. QED
    BY <2>4, <2>5
<1>6. QED
  BY <1>3, <1>4, <1>5

LEMMA ProductRefreshes ==
  ASSUME ProductFresh(srv, ui, net), NEW f \in net.refreshes,
         Product!AnswerRefresh(f) \/ Product!ShowRefresh(f) \/ Product!FailRefresh(f)
  PROVE  ProductFresh(srv', ui', net')
<1>1. /\ ProductSrvOk(srv) /\ ProductUiOk(ui) /\ ProductNetOk(srv, ui.key, net) /\ srv' = srv
      /\ net.missed = TRUE \/ ProductShows(srv, ui, net)
  BY DEF ProductFresh, Product!AnswerRefresh, Product!ShowRefresh, Product!FailRefresh
<1>2. {"key", "range", "answered", "data"} \subseteq DOMAIN f /\ DataOf(f.data, f.key)
  BY <1>1 DEF ProductNetOk, RefreshesOk
<1>3. CASE Product!AnswerRefresh(f)
  <2> DEFINE data == [key |-> f.key, range |-> f.range, version |-> srv.version[f.key]]
             q == [f EXCEPT !.answered = TRUE, !.data = data]
  <2>1. ui' = ui /\ net' = [net EXCEPT !.refreshes = (net.refreshes \ {f}) \cup {q}]
    BY <1>3 DEF Product!AnswerRefresh
  <2>2. DataOf(data, f.key)
    BY DEF DataOf
  <2> HIDE DEF data
  <2>3. {"key", "range", "answered", "data"} \subseteq DOMAIN q /\ DataOf(q.data, q.key)
    BY <1>2, <2>2
  <2> HIDE DEF q
  <2>4. /\ DOMAIN net' = DOMAIN net /\ net'.refreshes = (net.refreshes \ {f}) \cup {q}
        /\ net'.saves = net.saves /\ net'.loads = net.loads /\ net'.saved = net.saved
        /\ net'.missed = net.missed
    BY <1>1, <2>1 DEF ProductNetOk, ProductNet
  <2>5. ProductNetOk(srv, ui.key, net')
    BY <1>1, <2>3, <2>4 DEF ProductNetOk, RefreshesOk
  <2>6. QED
    BY <1>1, <2>1, <2>4, <2>5 DEF ProductFresh, ProductShows
<1>4. CASE Product!ShowRefresh(f) \/ Product!FailRefresh(f)
  <2>1. /\ DOMAIN net' = DOMAIN net /\ net'.refreshes = net.refreshes \ {f}
        /\ net'.saves = net.saves /\ net'.loads = net.loads /\ net'.saved = net.saved
        /\ net.missed = TRUE => net'.missed = TRUE
    BY <1>1, <1>4 DEF Product!ShowRefresh, Product!FailRefresh, ProductNetOk, ProductNet
  <2>2. ProductNetOk(srv, ui.key, net')
    BY <1>1, <2>1 DEF ProductNetOk, RefreshesOk
  <2>3. CASE ui' = ui
    BY <1>1, <2>1, <2>2, <2>3 DEF ProductFresh, ProductShows
  <2>4. CASE ui' # ui
    <3>1. /\ ui' = [ui EXCEPT !.product = f.data] /\ ui.product # Nothing /\ ui.product.key = f.key
          /\ net'.missed = (net.missed \/ Product!Outdated(f.data))
      BY <1>1, <1>4, <2>4 DEF Product!ShowRefresh, Product!FailRefresh, ProductNetOk, ProductNet
    <3>2. ui.key = f.key
      BY <1>1, <3>1 DEF ProductUiOk, DataOf
    <3>3. ProductUiOk(ui') /\ ui'.key = ui.key /\ ui'.product = f.data
      BY <1>1, <1>2, <3>1, <3>2 DEF ProductUiOk, ProductUi
    <3>4. net'.missed = TRUE \/ (f.data # Nothing => f.data.version = srv.version[f.data.key])
      BY <3>1 DEF Product!Outdated
    <3>5. QED
      BY <1>1, <2>2, <3>3, <3>4 DEF ProductFresh, ProductShows
  <2>5. QED
    BY <2>3, <2>4
<1>5. QED
  BY <1>3, <1>4

LEMMA NextProduct ==
  ASSUME ProductFresh(srv, ui, net), [Product!Next]_<<srv, ui, net>> PROVE ProductFresh(srv', ui', net')
<1>1. CASE UNCHANGED <<srv, ui, net>>
  BY <1>1
<1>2. CASE Product!Next
  BY <1>2, ProductGiven, ProductReads, ProductClicks, ProductSaves, ProductRefreshes DEF Product!Next
<1>3. QED
  BY <1>1, <1>2

\* With nothing awaited and nothing missed, the panel shows the correction the api holds.
LEMMA ProductShown == ASSUME ProductFresh(srv, ui, net) PROVE Product!CorrectionIsShown
<1>1. ASSUME Product!Quiet, Product!Ready, ~net.missed PROVE ui.product.version = srv.version[ui.key]
  <2>1. ui.product # Nothing /\ net.saves = {}
    BY <1>1 DEF Product!Quiet, Product!Ready
  <2>2. ui.product.key = ui.key
    BY <2>1 DEF ProductFresh, ProductUiOk, DataOf
  <2>3. QED
    BY <1>1, <2>1, <2>2 DEF ProductFresh, ProductShows, Owed
<1>2. QED
  BY <1>1 DEF Product!CorrectionIsShown
-----------------------------------------------------------------------------
(* The table of rules: a change is followed by a read that was asked after it.  *)

TableNet == {"reads", "snoozeRead", "late", "calls", "ops"}
Changing == {"pause", "resume", "snooze", "reactivate", "delete"}
TableFields(s, u, n) ==
  /\ {"rules", "active", "snoozed", "matches"} \subseteq DOMAIN s
  /\ {"table", "loading", "error", "snoozes", "busy", "clear", "expanded", "recent"} \subseteq DOMAIN u
  /\ TableNet \subseteq DOMAIN n
  /\ ReadsOk(n.reads, {"answered", "table"})
  /\ \A c \in n.calls : {"op", "rule", "st"} \subseteq DOMAIN c /\ c.op \in Table!Calls
\* A change that was served and whose handler goes on.
TableOwes(n) == \E c \in n.calls : c.st = "ok" /\ c.op \in Changing
TableIs(s, t) ==
  /\ DOMAIN t = s.rules
  /\ \A r \in s.rules : t[r].active = (r \in s.active) /\ (r \in s.snoozed => t[r].snoozed)
TableShows(s, u, n) ==
  /\ \A r \in LastOf(n.reads) : r.answered => TableIs(s, r.table)
  /\ LastOf(n.reads) = {} => u.error = TRUE \/ n.late = TRUE \/ TableIs(s, u.table)
TableFresh(s, u, n) == TableFields(s, u, n) /\ (TableOwes(n) \/ TableShows(s, u, n))

\* A page that asks again shows, in the end, what it is answered.
LEMMA TableAsks ==
  ASSUME NEW s, NEW u, NEW n, TableFields(s, u, n), NEW m, m = Table!Reloaded(n)
  PROVE  TableFresh(s, u, m)
<1> DEFINE new == [last |-> TRUE, answered |-> FALSE, table |-> <<>>]
<1>1. m = [n EXCEPT !.reads = Demoted(n.reads) \cup {new}]
  BY DEF Table!Reloaded, Demoted
<1>2. {"answered", "table"} \cup {"last"} \subseteq DOMAIN new /\ new.last = TRUE /\ ~new.answered
  OBVIOUS
<1> HIDE DEF new
<1>3. ReadsOk(n.reads, {"answered", "table"})
  BY DEF TableFields
<1>4. /\ ReadsOk(Demoted(n.reads) \cup {new}, {"answered", "table"})
      /\ LastOf(Demoted(n.reads) \cup {new}) = {new}
  BY <1>2, <1>3, AskedLast
<1>5. DOMAIN m = DOMAIN n /\ m.reads = Demoted(n.reads) \cup {new} /\ m.calls = n.calls
  BY <1>1 DEF TableFields, TableNet
<1>6. QED
  BY <1>2, <1>4, <1>5 DEF TableFresh, TableFields, TableShows

\* A step that moves neither the table nor the reads.
LEMMA TableBeside ==
  ASSUME NEW s, NEW u, NEW n, TableFresh(s, u, n),
         NEW t, NEW v, NEW m, TableFields(t, v, m),
         t.rules = s.rules, t.active = s.active, t.snoozed \subseteq s.snoozed,
         v.table = u.table, u.error = TRUE => v.error = TRUE,
         m.reads = n.reads, m.late = n.late,
         \A c \in n.calls : c.st = "ok" /\ c.op \in Changing => c \in m.calls
  PROVE  TableFresh(t, v, m)
<1>1. \A f : TableIs(s, f) => TableIs(t, f)
  BY DEF TableIs
<1>2. QED
  BY <1>1 DEF TableFresh, TableOwes, TableShows

LEMMA TableInit == ASSUME Table!Init PROVE TableFresh(srv, ui, net)
<1>1. PICK n, m : /\ n = [reads |-> {}, snoozeRead |-> FALSE, late |-> FALSE, calls |-> {}, ops |-> 0]
                  /\ m = Table!Reloaded(n) /\ net = [m EXCEPT !.snoozeRead = TRUE]
  BY DEF Table!Init, Table!ConfigChanged
<1>2. /\ {"rules", "active", "snoozed", "matches"} \subseteq DOMAIN srv
      /\ {"table", "loading", "error", "snoozes", "busy", "clear", "expanded", "recent"} \subseteq DOMAIN ui
  BY DEF Table!Init
<1>3. TableFields(srv, ui, n)
  BY <1>1, <1>2 DEF TableFields, TableNet, ReadsOk, LastOf
<1>4. TableFresh(srv, ui, m)
  BY <1>1, <1>3, TableAsks
<1>5. /\ DOMAIN net = DOMAIN m /\ net.reads = m.reads /\ net.calls = m.calls /\ net.late = m.late
  BY <1>1, <1>4 DEF TableFresh, TableFields, TableNet
<1>6. TableFields(srv, ui, net)
  BY <1>4, <1>5 DEF TableFresh, TableFields
<1>7. QED
  BY <1>4, <1>5, <1>6, TableBeside

\* The effect on the list changes neither the table nor its error.
LEMMA TableSettled ==
  ASSUME NEW u, {"table", "error", "expanded", "recent"} \subseteq DOMAIN u
  PROVE  /\ DOMAIN Table!Settled(u) = DOMAIN u
         /\ Table!Settled(u).table = u.table /\ Table!Settled(u).error = u.error
BY DEF Table!Settled

\* A read is answered, shown or lost.
LEMMA TableReads ==
  ASSUME TableFresh(srv, ui, net), NEW r \in net.reads,
         Table!AnswerRead(r) \/ Table!ShowRead(r) \/ Table!FailRead(r)
  PROVE  TableFresh(srv', ui', net')
<1>1. TableFields(srv, ui, net)
  BY DEF TableFresh
<1>0. r \in net.reads /\ ReadsOk(net.reads, {"answered", "table"})
  BY <1>1 DEF TableFields
<1>2. srv' = srv
  BY DEF Table!AnswerRead, Table!ShowRead, Table!FailRead
<1>3. {"answered", "table"} \cup {"last"} \subseteq DOMAIN r /\ r.last \in BOOLEAN
  BY <1>0 DEF ReadsOk
<1>4. CASE Table!AnswerRead(r)
  <2> DEFINE q == [r EXCEPT !.answered = TRUE, !.table = Table!Table]
             reads == (net.reads \ {r}) \cup {q}
  <2>1. ui' = ui /\ net' = [net EXCEPT !.reads = reads]
    BY <1>4 DEF Table!AnswerRead
  <2>2. {"answered", "table"} \cup {"last"} \subseteq DOMAIN q /\ q.last = r.last /\ q.table = Table!Table
    BY <1>3
  <2>3. TableIs(srv, q.table)
    BY <2>2 DEF Table!Table, TableIs
  <2> HIDE DEF q
  <2>4. /\ ReadsOk(reads, {"answered", "table"})
        /\ r \in LastOf(net.reads) => LastOf(reads) = {q}
        /\ r \notin LastOf(net.reads) => LastOf(reads) = LastOf(net.reads)
    BY ONLY <1>0, <2>2, AnsweredLast
  <2> HIDE DEF reads
  <2>5. DOMAIN net' = DOMAIN net /\ net'.reads = reads /\ net'.calls = net.calls /\ net'.late = net.late
    BY <1>1, <2>1 DEF TableFields, TableNet
  <2>6. TableFields(srv, ui, net')
    BY <1>1, <2>4, <2>5 DEF TableFields
  <2>7. TableShows(srv, ui, net) => TableShows(srv, ui, net')
    BY <2>3, <2>4, <2>5 DEF TableShows
  <2>8. QED
    BY <1>2, <2>1, <2>5, <2>6, <2>7 DEF TableFresh, TableOwes
<1>5. CASE Table!ShowRead(r) \/ Table!FailRead(r)
  <2> DEFINE reads == net.reads \ {r}
  <2>1. /\ ReadsOk(reads, {"answered", "table"})
        /\ r \in LastOf(net.reads) => LastOf(reads) = {}
        /\ r \notin LastOf(net.reads) => LastOf(reads) = LastOf(net.reads)
    BY ONLY <1>0, EndedLast
  <2>2. DOMAIN net' = DOMAIN net /\ net'.reads = reads /\ net'.calls = net.calls
    BY <1>1, <1>5 DEF Table!ShowRead, Table!FailRead, TableFields, TableNet
  <2>3. /\ DOMAIN ui' = DOMAIN ui
        /\ \/ ui'.error = TRUE
           \/ r \notin LastOf(net.reads) /\ net'.late = TRUE
           \/ r \in LastOf(net.reads) /\ r.answered /\ ui'.table = r.table
    <3>1. CASE Table!ShowRead(r)
      <4>1. PICK u : u = [ui EXCEPT !.table = r.table, !.loading = FALSE, !.error = FALSE] /\ ui' = Table!Settled(u)
        BY <3>1 DEF Table!ShowRead
      <4>2. DOMAIN u = DOMAIN ui /\ u.table = r.table
        BY <1>1, <4>1 DEF TableFields
      <4>3. DOMAIN ui' = DOMAIN ui /\ ui'.table = r.table
        BY <1>1, <4>1, <4>2, TableSettled DEF TableFields
      <4>4. r.answered /\ net'.late = ~r.last
        BY <1>1, <3>1 DEF Table!ShowRead, TableFields, TableNet
      <4>5. QED
        BY <1>3, <4>3, <4>4 DEF LastOf
    <3>2. CASE Table!FailRead(r)
      BY <1>1, <3>2 DEF Table!FailRead, TableFields
    <3>3. QED
      BY <1>5, <3>1, <3>2
  <2> HIDE DEF reads
  <2>4. TableFields(srv, ui', net')
    BY <1>1, <2>1, <2>2, <2>3 DEF TableFields
  <2>5. TableShows(srv, ui, net) => TableShows(srv, ui', net')
    BY <2>1, <2>2, <2>3 DEF TableShows
  <2>6. QED
    BY <1>2, <2>2, <2>4, <2>5 DEF TableFresh, TableOwes
<1>6. QED
  BY <1>4, <1>5

\* What the administrator does, and the silences that are read, change no table.
LEMMA TableClicks ==
  ASSUME TableFresh(srv, ui, net),
         \/ \E ok \in BOOLEAN : Table!ReadSnoozes(ok)
         \/ \E r \in Rules : Table!Toggle(r) \/ Table!ToggleSnooze(r) \/ Table!Delete(r) \/ Table!CheckClear(r)
         \/ Table!ConfirmClear \/ Table!CancelClear
         \/ \E r \in Rules \cup {Nothing} : Table!Expand(r)
         \/ \E st \in Table!Recent \ {"loading"} : Table!ShowRecent(st)
         \/ \E r \in srv.snoozed : Table!SnoozeLapses(r)
  PROVE  TableFresh(srv', ui', net')
<1>1. TableFields(srv, ui, net)
  BY DEF TableFresh
<1>2. ASSUME NEW op \in Table!Calls, NEW r, Table!Started(op, r) PROVE TableFresh(srv', ui', net')
  <2> DEFINE c == [n |-> net.ops, op |-> op, rule |-> r, st |-> "sent"]
  <2>1. srv' = srv /\ DOMAIN ui' = DOMAIN ui /\ ui'.table = ui.table /\ ui'.error = ui.error
    BY <1>1, <1>2 DEF Table!Started, TableFields
  <2>2. net' = [net EXCEPT !.ops = @ + 1, !.calls = net.calls \cup {c}]
    BY <1>2 DEF Table!Started
  <2>3. {"op", "rule", "st"} \subseteq DOMAIN c /\ c.op \in Table!Calls
    OBVIOUS
  <2> HIDE DEF c
  <2>4. /\ DOMAIN net' = DOMAIN net /\ net'.reads = net.reads /\ net'.late = net.late
        /\ net'.calls = net.calls \cup {c}
    BY <1>1, <2>2 DEF TableFields, TableNet
  <2>5. TableFields(srv', ui', net')
    BY <1>1, <2>1, <2>3, <2>4 DEF TableFields
  <2>6. QED
    BY <2>1, <2>4, <2>5, TableBeside
<1>3. CASE \/ \E r \in Rules : Table!Toggle(r) \/ Table!ToggleSnooze(r) \/ Table!Delete(r) \/ Table!CheckClear(r)
           \/ Table!ConfirmClear
  BY <1>2, <1>3 DEF Table!Calls, Table!Toggle, Table!ToggleSnooze, Table!Delete, Table!CheckClear, Table!ConfirmClear
<1>4. CASE \/ \E ok \in BOOLEAN : Table!ReadSnoozes(ok)
           \/ Table!CancelClear \/ \E r \in Rules \cup {Nothing} : Table!Expand(r)
           \/ \E st \in Table!Recent \ {"loading"} : Table!ShowRecent(st)
  <2>1. /\ srv' = srv /\ DOMAIN ui' = DOMAIN ui /\ ui'.table = ui.table
        /\ ui.error = TRUE => ui'.error = TRUE
    BY <1>1, <1>4 DEF TableFields, Table!ReadSnoozes, Table!CancelClear, Table!Expand, Table!ShowRecent
  <2>2. /\ DOMAIN net' = DOMAIN net /\ net'.reads = net.reads /\ net'.late = net.late /\ net'.calls = net.calls
    BY <1>1, <1>4 DEF TableFields, TableNet, Table!ReadSnoozes, Table!CancelClear, Table!Expand, Table!ShowRecent
  <2>3. TableFields(srv', ui', net')
    BY <1>1, <2>1, <2>2 DEF TableFields
  <2>4. QED
    BY <2>1, <2>2, <2>3, TableBeside
<1>5. CASE \E r \in srv.snoozed : Table!SnoozeLapses(r)
  <2>1. /\ DOMAIN srv' = DOMAIN srv /\ srv'.rules = srv.rules /\ srv'.active = srv.active
        /\ srv'.snoozed \subseteq srv.snoozed /\ ui' = ui /\ net' = net
    BY <1>1, <1>5 DEF TableFields, Table!SnoozeLapses
  <2>2. TableFields(srv', ui, net)
    BY <1>1, <2>1 DEF TableFields
  <2>3. QED
    BY <2>1, <2>2, TableBeside
<1>6. QED
  BY <1>3, <1>4, <1>5

\* A call that is served is one whose handler goes on.
LEMMA TableServes ==
  ASSUME TableFresh(srv, ui, net), NEW c \in net.calls, Table!Serve(c) \/ Table!ServeFails(c)
  PROVE  TableFresh(srv', ui', net')
<1>1. /\ TableFields(srv, ui, net) /\ {"op", "rule", "st"} \subseteq DOMAIN c /\ c.op \in Table!Calls
      /\ ui' = ui /\ c.st = "sent"
  BY DEF TableFresh, TableFields, Table!Serve, Table!ServeFails
<1>2. ASSUME NEW st, net' = Table!With(c, st)
      PROVE  /\ DOMAIN net' = DOMAIN net /\ net'.reads = net.reads /\ net'.late = net.late
             /\ TableFields(srv, ui, net')
             /\ \E d \in net'.calls : d.st = st /\ d.op = c.op
             /\ \A d \in net.calls : d.st = "ok" => d \in net'.calls
  <2> DEFINE d == [c EXCEPT !.st = st]
  <2>1. net' = [net EXCEPT !.calls = (net.calls \ {c}) \cup {d}]
    BY <1>2 DEF Table!With
  <2>2. {"op", "rule", "st"} \subseteq DOMAIN d /\ d.st = st /\ d.op = c.op
    BY <1>1
  <2> HIDE DEF d
  <2>3. /\ DOMAIN net' = DOMAIN net /\ net'.reads = net.reads /\ net'.late = net.late
        /\ net'.calls = (net.calls \ {c}) \cup {d}
    BY <1>1, <2>1 DEF TableFields, TableNet
  <2>4. TableFields(srv, ui, net')
    BY <1>1, <2>2, <2>3 DEF TableFields
  <2>5. QED
    BY <1>1, <2>2, <2>3, <2>4
<1>3. CASE srv' = srv /\ \E st : net' = Table!With(c, st)
  <2>1. /\ TableFields(srv, ui, net') /\ net'.reads = net.reads /\ net'.late = net.late
        /\ \A d \in net.calls : d.st = "ok" => d \in net'.calls
    BY <1>2, <1>3
  <2>2. QED
    BY <1>1, <1>3, <2>1, TableBeside
<1>4. CASE Table!Serve(c) /\ Table!Allowed(c)
  <2>1. /\ srv' = Table!Served(c)
        /\ net' = Table!With(c, IF c.op = "check" /\ c.rule \notin srv.matches THEN "none" ELSE "ok")
    BY <1>4 DEF Table!Serve
  <2>2. DOMAIN srv' = DOMAIN srv
    BY <1>1, <2>1 DEF Table!Served, Table!Calls
  <2>3. /\ TableFields(srv, ui, net') /\ net'.reads = net.reads /\ net'.late = net.late
        /\ c.op # "check" => \E d \in net'.calls : d.st = "ok" /\ d.op = c.op
        /\ \A d \in net.calls : d.st = "ok" => d \in net'.calls
    BY <1>2, <2>1
  <2>4. TableFields(srv', ui, net')
    BY <2>2, <2>3 DEF TableFields
  <2>5. CASE c.op \in Changing
    <3>1. TableOwes(net')
      BY <2>3, <2>5 DEF TableOwes, Changing
    <3>2. QED
      BY <1>1, <2>4, <3>1 DEF TableFresh
  <2>6. CASE c.op \notin Changing
    <3>1. srv'.rules = srv.rules /\ srv'.active = srv.active /\ srv'.snoozed = srv.snoozed
      BY <1>1, <2>1, <2>6 DEF Table!Served, Table!Calls, Changing, TableFields
    <3>2. QED
      BY <1>1, <2>3, <2>4, <3>1, TableBeside
  <2>7. QED
    BY <2>5, <2>6
<1>5. QED
  BY <1>3, <1>4 DEF Table!Serve, Table!ServeFails

\* The handler goes on: it asks for the list again, or tells a failure.
LEMMA TableGoesOn ==
  ASSUME TableFresh(srv, ui, net), NEW c \in net.calls,
         Table!AnswerChange(c) \/ Table!AnswerCheck(c) \/ Table!AnswerClear(c) \/ Table!AnswerFailure(c)
  PROVE  TableFresh(srv', ui', net')
<1> DEFINE n == Table!Without(c)
           v == Table!Done(ui, c)
<1>1. TableFields(srv, ui, net)
  BY DEF TableFresh
<1>2. srv' = srv
  BY DEF Table!AnswerChange, Table!AnswerCheck, Table!AnswerClear, Table!AnswerFailure
<1>3. /\ DOMAIN n = DOMAIN net /\ n.reads = net.reads /\ n.late = net.late /\ n.calls = net.calls \ {c}
  BY <1>1 DEF Table!Without, TableFields, TableNet
<1>4. DOMAIN v = DOMAIN ui /\ v.table = ui.table /\ v.error = ui.error
  BY <1>1 DEF Table!Done, TableFields
<1>5. DOMAIN ui' = DOMAIN ui /\ ui'.table = ui.table /\ (ui.error = TRUE => ui'.error = TRUE)
  <2>1. CASE Table!AnswerChange(c)
    <3>1. ui' = v
      BY <2>1 DEF Table!AnswerChange
    <3> HIDE DEF v
    <3>2. QED
      BY <1>4, <3>1
  <2>2. CASE Table!AnswerCheck(c)
    <3>1. ui' = v \/ ui' = [v EXCEPT !.clear = c.rule]
      BY <2>2 DEF Table!AnswerCheck
    <3> HIDE DEF v
    <3>2. QED
      BY <1>1, <1>4, <3>1 DEF TableFields
  <2>3. CASE Table!AnswerClear(c)
    <3>1. PICK w : ui' = [v EXCEPT !.clear = Nothing, !.recent = w]
      BY <2>3 DEF Table!AnswerClear
    <3> HIDE DEF v
    <3>2. QED
      BY <1>1, <1>4, <3>1 DEF TableFields
  <2>4. CASE Table!AnswerFailure(c)
    <3>1. ui' = [v EXCEPT !.error = v.error \/ c.op # "clear"]
      BY <2>4 DEF Table!AnswerFailure
    <3> HIDE DEF v
    <3>2. QED
      BY <1>1, <1>4, <3>1 DEF TableFields
  <2>5. QED
    BY <2>1, <2>2, <2>3, <2>4
<1> HIDE DEF v
<1>6. TableFields(srv, ui', n)
  BY <1>1, <1>3, <1>5 DEF TableFields
<1>7. CASE Table!AnswerChange(c) \/ Table!AnswerClear(c)
  <2>1. PICK m : m = Table!Reloaded(n) /\ (net' = m \/ net' = [m EXCEPT !.snoozeRead = TRUE])
    BY <1>7 DEF Table!AnswerChange, Table!AnswerClear, Table!ConfigChanged
  <2> HIDE DEF n
  <2>2. TableFresh(srv, ui', m)
    BY <1>6, <2>1, TableAsks
  <2>3. DOMAIN net' = DOMAIN m /\ net'.reads = m.reads /\ net'.calls = m.calls /\ net'.late = m.late
    BY <2>1, <2>2 DEF TableFresh, TableFields, TableNet
  <2>4. TableFields(srv, ui', net')
    BY <2>2, <2>3 DEF TableFresh, TableFields
  <2>5. QED
    BY <1>2, <2>2, <2>3, <2>4, TableBeside
<1>8. CASE Table!AnswerCheck(c) \/ Table!AnswerFailure(c)
  <2>1. net' = n /\ ~(c.st = "ok" /\ c.op \in Changing)
    BY <1>8 DEF Table!AnswerCheck, Table!AnswerFailure, Changing
  <2> HIDE DEF n
  <2>2. QED
    BY <1>2, <1>3, <1>5, <1>6, <2>1, TableBeside
<1>9. QED
  BY <1>7, <1>8 DEF Table!AnswerClear

LEMMA NextTable ==
  ASSUME TableFresh(srv, ui, net), [Table!Next]_<<srv, ui, net>> PROVE TableFresh(srv', ui', net')
<1>1. CASE UNCHANGED <<srv, ui, net>>
  BY <1>1
<1>2. CASE Table!Next
  BY <1>2, TableReads, TableClicks, TableServes, TableGoesOn DEF Table!Next
<1>3. QED
  BY <1>1, <1>2

\* A table with nothing awaited is the api's.
LEMMA TableShown == ASSUME TableFresh(srv, ui, net) PROVE Table!TableIsCurrent
<1>1. ASSUME Table!Quiet, ~net.late PROVE TableIs(srv, ui.table)
  BY <1>1 DEF Table!Quiet, Table!Shown, LastOf, TableFresh, TableOwes, TableShows
<1>2. QED
  BY <1>1 DEF Table!TableIsCurrent, Table!InTable, TableIs

-----------------------------------------------------------------------------
(* The recipients: every handler that was answered reads the list again, and a  *)
(* rule that is deleted leaves the choices of the list and of the api alike.    *)

PeopleSrv(s) ==
  /\ {"rules", "people"} \subseteq DOMAIN s /\ s.rules \subseteq SomeRules
  /\ \A r \in DOMAIN s.people : s.people[r] \in People!Person /\ s.people[r].settings.ids \subseteq s.rules
PeopleUi(u) ==
  /\ {"list", "cards", "loading", "error", "pausing", "deleting", "rail"} \subseteq DOMAIN u
  /\ \A r \in DOMAIN u.list : u.list[r] \in People!Person
  /\ \A r \in DOMAIN u.cards : "draft" \in DOMAIN u.cards[r] /\ u.cards[r].draft \in People!Settings
  /\ DOMAIN u.cards \subseteq DOMAIN u.list
  /\ u.error = TRUE \/ u.loading = TRUE \/ DOMAIN u.cards = DOMAIN u.list
PeopleCall(c) ==
  /\ {"n", "op", "r", "draft", "mine", "st"} \subseteq DOMAIN c
  /\ c.op \in {"pause", "delete", "save", "add", "rename"}
  /\ c.op = "save" => c.draft \in People!Settings
PeopleNet(n) ==
  /\ {"reads", "calls", "asks", "late", "ops"} \subseteq DOMAIN n
  /\ ReadsOk(n.reads, {"answered", "list"})
  /\ \A r \in n.reads : \A p \in DOMAIN r.list : r.list[p] \in People!Person
  /\ \A c \in n.calls : PeopleCall(c)
PeopleFields(s, u, n) == PeopleSrv(s) /\ PeopleUi(u) /\ PeopleNet(n)
\* A call that was served, whose handler goes on with a read.
PeopleOwes(n) == \E c \in n.calls : c.st = "ok"
\* A list that tells of everyone what the api holds, but for the rules that are gone.
PersonNow(old, p, rules) ==
  [old.settings EXCEPT !.ids = old.settings.ids \cap rules] = p.settings /\ old.active = p.active
ListNow(list, s) ==
  DOMAIN list = DOMAIN s.people /\ \A r \in DOMAIN list : PersonNow(list[r], s.people[r], s.rules)
PeopleShows(s, u, n) ==
  /\ \A r \in LastOf(n.reads) : r.answered = TRUE => ListNow(r.list, s)
  /\ LastOf(n.reads) = {} => u.error = TRUE \/ n.late = TRUE \/ ListNow(u.list, s)
PeopleFresh(s, u, n) == PeopleFields(s, u, n) /\ (PeopleOwes(n) \/ PeopleShows(s, u, n))

\* What is called besides, or stale, or nobody's, keeps the reads and what is owed.
PeopleKept(n, m) ==
  PeopleNet(m) /\ m.reads = n.reads /\ m.late = n.late /\ (PeopleOwes(n) => PeopleOwes(m))

LEMMA PeopleCounted ==
  ASSUME NEW n, PeopleNet(n) PROVE PeopleKept(n, People!Counted(n)) /\ People!Counted(n).calls = n.calls
BY DEF PeopleNet, PeopleKept, PeopleOwes, People!Counted

LEMMA PeopleStale ==
  ASSUME NEW n, PeopleNet(n), NEW rs
  PROVE  PeopleKept(n, People!Stale(n, rs)) /\ People!Stale(n, rs).calls = n.calls
BY DEF PeopleNet, PeopleKept, PeopleOwes, People!Stale

LEMMA PeopleOrphaned ==
  ASSUME NEW n, PeopleNet(n), NEW ops, NEW rs PROVE PeopleKept(n, People!Orphaned(n, ops, rs))
<1> DEFINE q(c) == [c EXCEPT !.mine = c.mine /\ ~(c.op \in ops /\ c.r \in rs)]
           m == People!Orphaned(n, ops, rs)
<1>1. m = [n EXCEPT !.calls = {q(c) : c \in n.calls}]
  BY DEF People!Orphaned
<1>2. /\ DOMAIN m = DOMAIN n /\ m.reads = n.reads /\ m.late = n.late
      /\ m.calls = {q(c) : c \in n.calls}
  BY <1>1 DEF PeopleNet
<1>3. ASSUME NEW c \in n.calls PROVE PeopleCall(q(c)) /\ q(c).st = c.st
  BY DEF PeopleNet, PeopleCall
<1> HIDE DEF q, m
<1>4. PeopleNet(m)
  BY <1>2, <1>3 DEF PeopleNet
<1>5. PeopleOwes(n) => PeopleOwes(m)
  BY <1>2, <1>3 DEF PeopleOwes
<1>6. PeopleKept(n, m)
  BY <1>2, <1>4, <1>5 DEF PeopleKept
<1>7. QED
  BY <1>6 DEF m

LEMMA PeopleUnmounted ==
  ASSUME NEW n, PeopleNet(n), NEW rs PROVE PeopleKept(n, People!Unmounted(n, rs))
<1> DEFINE m == People!Stale(n, rs)
<1>1. PeopleKept(n, m)
  BY PeopleStale
<1>2. People!Unmounted(n, rs) = People!Orphaned(m, {"save"}, rs)
  BY DEF People!Unmounted
<1> HIDE DEF m
<1>3. PeopleKept(m, People!Orphaned(m, {"save"}, rs))
  BY <1>1, PeopleOrphaned DEF PeopleKept
<1>4. QED
  BY <1>1, <1>2, <1>3 DEF PeopleKept

LEMMA PeopleRailGone ==
  ASSUME NEW n, PeopleNet(n) PROVE PeopleKept(n, People!RailGone(n))
<1>1. People!RailGone(n) = People!Orphaned(n, {"add", "rename"}, Recipients \cup {Nothing})
  BY DEF People!RailGone
<1>2. QED
  BY <1>1, PeopleOrphaned

LEMMA PeopleSent ==
  ASSUME PeopleNet(net), NEW op \in {"pause", "delete", "save", "add", "rename"}, NEW r, NEW draft,
         op = "save" => draft \in People!Settings
  PROVE  PeopleKept(net, People!Sent(op, r, draft))
<1> DEFINE c == [n |-> net.ops, op |-> op, r |-> r, draft |-> draft, mine |-> TRUE, st |-> "sent"]
           n == People!Counted(net)
           m == People!Sent(op, r, draft)
<1>1. m = [n EXCEPT !.calls = n.calls \cup {c}]
  BY DEF People!Sent
<1>2. PeopleCall(c)
  BY DEF PeopleCall
<1>3. PeopleKept(net, n) /\ n.calls = net.calls
  BY PeopleCounted
<1> HIDE DEF c, n, m
<1>4. DOMAIN m = DOMAIN n /\ m.reads = n.reads /\ m.late = n.late /\ m.calls = n.calls \cup {c}
  BY <1>1, <1>3 DEF PeopleKept, PeopleNet
<1>5. PeopleKept(net, m)
  BY <1>2, <1>3, <1>4 DEF PeopleKept, PeopleNet, PeopleOwes
<1>6. QED
  BY <1>5 DEF m

\* A step that moves neither the list nor what the api holds.
LEMMA PeopleBeside ==
  ASSUME NEW s, NEW u, NEW n, PeopleFresh(s, u, n), NEW v, PeopleUi(v), NEW m, PeopleKept(n, m),
         v.list = u.list, v.error = u.error \/ v.error = TRUE
  PROVE  PeopleFresh(s, v, m)
BY DEF PeopleFresh, PeopleFields, PeopleKept, PeopleShows

\* A handler that reads again shows, in the end, what it is answered.
LEMMA PeopleAsks ==
  ASSUME NEW s, PeopleSrv(s), NEW u, PeopleUi(u), NEW n, PeopleNet(n)
  PROVE  PeopleFresh(s, u, People!Reloaded(n))
<1> DEFINE new == [last |-> TRUE, answered |-> FALSE, list |-> <<>>]
           m == People!Reloaded(n)
<1>1. m = [n EXCEPT !.reads = Demoted(n.reads) \cup {new}]
  BY DEF People!Reloaded, Demoted
<1>2. /\ {"answered", "list"} \cup {"last"} \subseteq DOMAIN new /\ new.last = TRUE
      /\ new.answered = FALSE /\ DOMAIN new.list = {}
  OBVIOUS
<1> HIDE DEF new, m
<1>3. ReadsOk(n.reads, {"answered", "list"})
  BY DEF PeopleNet
<1>4. /\ ReadsOk(Demoted(n.reads) \cup {new}, {"answered", "list"})
      /\ LastOf(Demoted(n.reads) \cup {new}) = {new}
  BY ONLY <1>2, <1>3, AskedLast
<1>5. DOMAIN m = DOMAIN n /\ m.reads = Demoted(n.reads) \cup {new} /\ m.calls = n.calls
  BY <1>1 DEF PeopleNet
<1>6. ASSUME NEW q \in Demoted(n.reads), NEW p \in DOMAIN q.list PROVE q.list[p] \in People!Person
  <2>1. PICK r \in n.reads : q = [r EXCEPT !.last = FALSE]
    BY DEF Demoted
  <2>2. q.list = r.list
    BY <1>3, <2>1 DEF ReadsOk
  <2>3. QED
    BY <2>2 DEF PeopleNet
<1>7. PeopleNet(m)
  BY <1>2, <1>4, <1>5, <1>6 DEF PeopleNet
<1>8. PeopleShows(s, u, m)
  BY <1>2, <1>4, <1>5 DEF PeopleShows
<1>9. PeopleFresh(s, u, m)
  BY <1>7, <1>8 DEF PeopleFresh, PeopleFields
<1>10. QED
  BY <1>9 DEF m

LEMMA PeopleInit == ASSUME People!Init PROVE PeopleFresh(srv, ui, net)
<1>1. PICK d \in {People!NewSettings, [People!NewSettings EXCEPT !.mode = "selected", !.ids = SomeRules]} :
        srv = [rules |-> SomeRules, people |-> [r \in {People!First} |-> [settings |-> d, active |-> TRUE]]]
  BY DEF People!Init
<1>2. d \in People!Settings /\ d.ids \subseteq SomeRules
  <2>1. \/ d = [mode |-> "all", ids |-> {}, types |-> {"target", "common"}]
        \/ d = [mode |-> "selected", ids |-> SomeRules, types |-> {"target", "common"}]
    BY <1>1 DEF People!NewSettings
  <2>2. QED
    BY <2>1 DEF People!Settings
<1> DEFINE p == [settings |-> d, active |-> TRUE]
<1>3. p \in People!Person /\ p.settings = d
  BY <1>2 DEF People!Person
<1>4. srv = [rules |-> SomeRules, people |-> [r \in {People!First} |-> p]]
  BY <1>1
<1> HIDE DEF p
<1>5. PeopleSrv(srv)
  BY <1>2, <1>3, <1>4 DEF PeopleSrv
<1>6. ui = [list |-> <<>>, cards |-> <<>>, loading |-> TRUE, error |-> FALSE,
            pausing |-> Nothing, deleting |-> Nothing, rail |-> People!NoRail]
  BY DEF People!Init
<1>7. PeopleUi(ui)
  BY <1>6 DEF PeopleUi
<1> DEFINE n == [reads |-> {}, calls |-> {}, asks |-> {}, late |-> FALSE, ops |-> 0]
<1>8. net = People!Reloaded(n)
  BY DEF People!Init
<1>9. PeopleNet(n)
  BY DEF PeopleNet, ReadsOk, LastOf
<1> HIDE DEF n
<1>10. QED
  BY ONLY <1>5, <1>7, <1>8, <1>9, PeopleAsks

\* A card whose draft is written, or is told something else, is a card of the list.
LEMMA PeopleDraft ==
  ASSUME PeopleUi(ui), NEW r \in DOMAIN ui.cards, NEW card,
         "draft" \in DOMAIN card, card.draft \in People!Settings,
         NEW u, u = [ui EXCEPT !.cards = [ui.cards EXCEPT ![r] = card]]
  PROVE  PeopleUi(u) /\ u.list = ui.list /\ u.error = ui.error
<1> DEFINE cards == [ui.cards EXCEPT ![r] = card]
<1>1. DOMAIN cards = DOMAIN ui.cards /\ cards[r] = card /\ \A p \in DOMAIN ui.cards \ {r} : cards[p] = ui.cards[p]
  OBVIOUS
<1>2. u = [ui EXCEPT !.cards = cards]
  OBVIOUS
<1> HIDE DEF cards
<1>3. /\ DOMAIN u = DOMAIN ui /\ u.cards = cards /\ u.list = ui.list /\ u.error = ui.error
      /\ u.loading = ui.loading
  BY <1>2 DEF PeopleUi
<1>4. QED
  BY <1>1, <1>3 DEF PeopleUi

LEMMA PeopleWithDraft ==
  ASSUME NEW c, "draft" \in DOMAIN c, c.draft \in People!Settings, NEW d \in People!Settings
  PROVE  "draft" \in DOMAIN People!WithDraft(c, d) /\ People!WithDraft(c, d).draft \in People!Settings
BY DEF People!WithDraft

LEMMA PeopleEdits ==
  ASSUME NEW d \in People!Settings, srv.rules \subseteq SomeRules, NEW e \in People!Edits(d)
  PROVE  e \in People!Settings
<1>1. \/ \E m \in {"all", "selected"} : e = [d EXCEPT !.mode = m]
      \/ \E ids \in SUBSET SomeRules : e = [d EXCEPT !.ids = ids]
      \/ e = [d EXCEPT !.types = People!Toggled(d.types, "common")]
  <2>1. CASE \E m \in {"all", "selected"} \ {d.mode} : e = [d EXCEPT !.mode = m]
    BY <2>1
  <2>2. CASE \E rule \in srv.rules : e = [d EXCEPT !.ids = People!Toggled(d.ids, rule)]
    <3>1. PICK rule \in srv.rules : e = [d EXCEPT !.ids = People!Toggled(d.ids, rule)]
      BY <2>2
    <3>2. People!Toggled(d.ids, rule) \in SUBSET SomeRules
      BY DEF People!Toggled, People!Settings
    <3>3. QED
      BY <3>1, <3>2
  <2>3. CASE e = [d EXCEPT !.types = People!Toggled(d.types, "common")]
    BY <2>3
  <2>4. QED
    BY <2>1, <2>2, <2>3 DEF People!Edits
<1>2. People!Toggled(d.types, "common") \in SUBSET {"target", "common"}
  BY DEF People!Toggled, People!Settings
<1>3. QED
  BY <1>1, <1>2 DEF People!Settings

\* What is typed, discarded, saved and previewed on a card.
LEMMA PeopleCards ==
  ASSUME PeopleFresh(srv, ui, net), NEW r \in Recipients,
         \/ People!EditCard(r) \/ People!Discard(r) \/ People!SaveCard(r) \/ People!AskPreview(r)
  PROVE  PeopleFresh(srv', ui', net')
<1>1. PeopleSrv(srv) /\ PeopleUi(ui) /\ PeopleNet(net)
  BY DEF PeopleFresh, PeopleFields
<1>2. r \in DOMAIN ui.cards /\ srv' = srv
  BY DEF People!EditCard, People!Discard, People!SaveCard, People!AskPreview
<1>3. /\ "draft" \in DOMAIN ui.cards[r] /\ ui.cards[r].draft \in People!Settings
      /\ r \in DOMAIN ui.list /\ ui.list[r].settings \in People!Settings
  BY <1>1, <1>2 DEF PeopleUi, People!Person
<1>4. PICK card : /\ "draft" \in DOMAIN card /\ card.draft \in People!Settings
                  /\ ui' = [ui EXCEPT !.cards = [ui.cards EXCEPT ![r] = card]]
  <2>1. CASE People!EditCard(r)
    <3>1. PICK d \in People!Edits(ui.cards[r].draft) :
            ui' = [ui EXCEPT !.cards = [ui.cards EXCEPT ![r] = People!WithDraft(ui.cards[r], d)]]
      BY <2>1 DEF People!EditCard
    <3>2. d \in People!Settings
      BY <1>1, <1>3, PeopleEdits DEF PeopleSrv
    <3>3. QED
      BY <1>3, <3>1, <3>2, PeopleWithDraft
  <2>2. CASE People!Discard(r)
    <3>1. ui' = [ui EXCEPT !.cards =
                   [ui.cards EXCEPT ![r] = People!WithDraft(ui.cards[r], ui.list[r].settings)]]
      BY <2>2 DEF People!Discard
    <3>2. QED
      BY <1>3, <3>1, PeopleWithDraft
  <2>3. CASE People!SaveCard(r)
    <3>1. ui' = [ui EXCEPT !.cards = [ui.cards EXCEPT ![r] = [ui.cards[r] EXCEPT !.saving = TRUE]]]
      BY <2>3 DEF People!SaveCard
    <3>2. QED
      BY <1>3, <3>1
  <2>4. CASE People!AskPreview(r)
    <3>1. ui' = [ui EXCEPT !.cards = [ui.cards EXCEPT ![r] = [ui.cards[r] EXCEPT !.timer = FALSE]]]
      BY <2>4 DEF People!AskPreview
    <3>2. QED
      BY <1>3, <3>1
  <2>5. QED
    BY <2>1, <2>2, <2>3, <2>4
<1>5. PeopleUi(ui') /\ ui'.list = ui.list /\ ui'.error = ui.error
  BY ONLY <1>1, <1>2, <1>4, PeopleDraft
<1>6. PeopleKept(net, net')
  <2>1. CASE People!EditCard(r)
    <3>1. net' = People!Counted(People!Stale(net, {r}))
      BY <2>1 DEF People!EditCard
    <3>2. PeopleKept(net, People!Stale(net, {r}))
      BY <1>1, PeopleStale
    <3>3. PeopleKept(People!Stale(net, {r}), net')
      BY <3>1, <3>2, PeopleCounted DEF PeopleKept
    <3>4. QED
      BY <3>2, <3>3 DEF PeopleKept
  <2>2. CASE People!Discard(r)
    BY <1>1, <2>2, PeopleStale DEF People!Discard
  <2>3. CASE People!SaveCard(r)
    BY <1>1, <1>3, <2>3, PeopleSent DEF People!SaveCard
  <2>4. CASE People!AskPreview(r)
    BY <1>1, <2>4 DEF People!AskPreview, PeopleKept, PeopleNet, PeopleOwes
  <2>5. QED
    BY <2>1, <2>2, <2>3, <2>4
<1>7. QED
  BY <1>2, <1>5, <1>6, PeopleBeside

\* The preview's answer, the clicks on the list and those in the rail.
LEMMA PeopleClicks ==
  ASSUME PeopleFresh(srv, ui, net),
         \/ \E a \in net.asks, ok \in BOOLEAN : People!AnswerPreview(a, ok)
         \/ \E r \in Recipients : People!Pause(r) \/ People!Delete(r)
         \/ \E of \in Recipients \cup {Nothing} : People!OpenRail(of)
         \/ People!CancelRail \/ People!ChooseInRail \/ People!SubmitRail
  PROVE  PeopleFresh(srv', ui', net')
<1>1. PeopleUi(ui) /\ PeopleNet(net)
  BY DEF PeopleFresh, PeopleFields
<1>2. CASE \E a \in net.asks, ok \in BOOLEAN : People!AnswerPreview(a, ok)
  <2>1. PICK a \in net.asks, ok \in BOOLEAN : People!AnswerPreview(a, ok)
    BY <1>2
  <2>2. PeopleKept(net, net') /\ srv' = srv
    BY <1>1, <2>1 DEF People!AnswerPreview, PeopleKept, PeopleNet, PeopleOwes
  <2>3. PeopleUi(ui') /\ ui'.list = ui.list /\ ui'.error = ui.error
    <3>1. CASE ui' = ui
      BY <1>1, <3>1
    <3>2. CASE ~(ui' = ui)
      <4>1. PICK x : ui' = [ui EXCEPT !.cards =
                       [ui.cards EXCEPT ![a.r] = [ui.cards[a.r] EXCEPT !.preview = x]]]
        BY <2>1, <3>2 DEF People!AnswerPreview
      <4> DEFINE cards == [ui.cards EXCEPT ![a.r] = [ui.cards[a.r] EXCEPT !.preview = x]]
      <4>2. ui' = [ui EXCEPT !.cards = cards]
        BY <4>1
      <4>3. /\ DOMAIN cards = DOMAIN ui.cards
            /\ \A p \in DOMAIN cards : "draft" \in DOMAIN cards[p] /\ cards[p].draft \in People!Settings
        BY <1>1 DEF PeopleUi
      <4> HIDE DEF cards
      <4>4. /\ DOMAIN ui' = DOMAIN ui /\ ui'.cards = cards /\ ui'.list = ui.list /\ ui'.error = ui.error
            /\ ui'.loading = ui.loading
        BY <1>1, <4>2 DEF PeopleUi
      <4>5. QED
        BY <1>1, <4>3, <4>4 DEF PeopleUi
    <3>3. QED
      BY <3>1, <3>2
  <2>4. QED
    BY <2>2, <2>3, PeopleBeside
<1>3. ASSUME NEW v, \/ \E x : v = [ui EXCEPT !.pausing = x]
                    \/ \E x : v = [ui EXCEPT !.deleting = x]
                    \/ \E x : v = [ui EXCEPT !.rail = x]
      PROVE  PeopleUi(v) /\ v.list = ui.list /\ v.error = ui.error
  <2>1. /\ DOMAIN v = DOMAIN ui /\ v.cards = ui.cards /\ v.list = ui.list /\ v.error = ui.error
        /\ v.loading = ui.loading
    BY <1>1, <1>3 DEF PeopleUi
  <2>2. QED
    BY <1>1, <2>1 DEF PeopleUi
<1>4. CASE \E r \in Recipients : People!Pause(r) \/ People!Delete(r)
  <2>1. PICK r \in Recipients : People!Pause(r) \/ People!Delete(r)
    BY <1>4
  <2>2. /\ srv' = srv
        /\ \/ \E x : ui' = [ui EXCEPT !.pausing = x]
           \/ \E x : ui' = [ui EXCEPT !.deleting = x]
    BY <2>1 DEF People!Pause, People!Delete
  <2>3. PeopleKept(net, net')
    BY <1>1, <2>1, PeopleSent DEF People!Pause, People!Delete
  <2>4. PeopleUi(ui') /\ ui'.list = ui.list /\ ui'.error = ui.error
    BY <1>3, <2>2
  <2>5. QED
    BY <2>2, <2>3, <2>4, PeopleBeside
<1>5. CASE \/ \E of \in Recipients \cup {Nothing} : People!OpenRail(of)
           \/ People!CancelRail \/ People!ChooseInRail \/ People!SubmitRail
  <2>1. srv' = srv /\ \E x : ui' = [ui EXCEPT !.rail = x]
    BY <1>5 DEF People!OpenRail, People!CancelRail, People!ChooseInRail, People!SubmitRail
  <2>2. PeopleKept(net, net')
    <3>1. CASE net' = People!Counted(net)
      BY <1>1, <3>1, PeopleCounted
    <3>2. CASE net' = People!RailGone(net)
      BY <1>1, <3>2, PeopleRailGone
    <3>3. CASE net' = People!Counted(People!RailGone(net))
      <4>1. PeopleKept(net, People!RailGone(net))
        BY <1>1, PeopleRailGone
      <4>2. PeopleKept(People!RailGone(net), net')
        BY <3>3, <4>1, PeopleCounted DEF PeopleKept
      <4>3. QED
        BY <4>1, <4>2 DEF PeopleKept
    <3>4. CASE \E op \in {"rename", "add"} : \E r : net' = People!Sent(op, r, Nothing)
      BY <1>1, <3>4, PeopleSent
    <3>5. QED
      BY <1>5, <3>1, <3>2, <3>3, <3>4
         DEF People!OpenRail, People!CancelRail, People!ChooseInRail, People!SubmitRail
  <2>3. PeopleUi(ui') /\ ui'.list = ui.list /\ ui'.error = ui.error
    BY <1>3, <2>1
  <2>4. QED
    BY <2>1, <2>2, <2>3, PeopleBeside
<1>6. QED
  BY <1>2, <1>4, <1>5

\* A list that was just read is what the api holds.
LEMMA PeopleRead == ASSUME PeopleSrv(srv) PROVE ListNow(srv.people, srv)
<1>1. ASSUME NEW r \in DOMAIN srv.people PROVE PersonNow(srv.people[r], srv.people[r], srv.rules)
  <2> DEFINE p == srv.people[r]
  <2>1. p \in People!Person /\ p.settings.ids \subseteq srv.rules
    BY DEF PeopleSrv
  <2>2. p.settings \in People!Settings
    BY <2>1 DEF People!Person
  <2>3. p.settings.ids \cap srv.rules = p.settings.ids
    BY <2>1
  <2> HIDE DEF p
  <2>4. [p.settings EXCEPT !.ids = p.settings.ids] = p.settings
    BY <2>2 DEF People!Settings
  <2>5. PersonNow(p, p, srv.rules)
    BY <2>3, <2>4 DEF PersonNow
  <2>6. QED
    BY <2>5 DEF p
<1>2. QED
  BY <1>1 DEF ListNow

\* A read is answered with what the api holds.
LEMMA PeopleAnswers ==
  ASSUME PeopleFresh(srv, ui, net), NEW r \in net.reads, People!AnswerRead(r)
  PROVE  PeopleFresh(srv', ui', net')
<1>1. /\ PeopleSrv(srv) /\ PeopleUi(ui) /\ PeopleNet(net) /\ srv' = srv /\ ui' = ui
  BY DEF PeopleFresh, PeopleFields, People!AnswerRead
<1>2. r \in net.reads /\ ReadsOk(net.reads, {"answered", "list"})
  BY <1>1 DEF PeopleNet
<1> DEFINE q == [r EXCEPT !.answered = TRUE, !.list = srv.people]
           reads == (net.reads \ {r}) \cup {q}
<1>3. net' = [net EXCEPT !.reads = reads]
  BY DEF People!AnswerRead
<1>4. /\ {"answered", "list"} \cup {"last"} \subseteq DOMAIN q /\ q.last = r.last /\ q.list = srv.people
  BY <1>2 DEF ReadsOk
<1> HIDE DEF q
<1>5. /\ ReadsOk(reads, {"answered", "list"})
      /\ r \in LastOf(net.reads) => LastOf(reads) = {q}
      /\ r \notin LastOf(net.reads) => LastOf(reads) = LastOf(net.reads)
  BY ONLY <1>2, <1>4, AnsweredLast
<1>6. \A x \in reads : \A p \in DOMAIN x.list : x.list[p] \in People!Person
  BY <1>1, <1>4 DEF PeopleNet, PeopleSrv
<1> HIDE DEF reads
<1>7. /\ DOMAIN net' = DOMAIN net /\ net'.reads = reads /\ net'.calls = net.calls /\ net'.late = net.late
  BY <1>1, <1>3 DEF PeopleNet
<1>8. PeopleNet(net')
  BY <1>1, <1>5, <1>6, <1>7 DEF PeopleNet
<1>9. ListNow(srv.people, srv)
  BY <1>1, PeopleRead
<1>10. PeopleShows(srv, ui, net) => PeopleShows(srv, ui, net')
  BY <1>4, <1>5, <1>7, <1>9 DEF PeopleShows
<1>11. QED
  BY <1>1, <1>7, <1>8, <1>10 DEF PeopleFresh, PeopleFields, PeopleOwes

\* The cards of a list that is shown, or an error in their place.
LEMMA PeopleEnds ==
  ASSUME PeopleFresh(srv, ui, net), NEW r \in net.reads, People!ShowRead(r) \/ People!FailRead(r)
  PROVE  PeopleFresh(srv', ui', net')
<1>1. /\ PeopleSrv(srv) /\ PeopleUi(ui) /\ PeopleNet(net) /\ srv' = srv
  BY DEF PeopleFresh, PeopleFields, People!ShowRead, People!FailRead
<1>2. r \in net.reads /\ ReadsOk(net.reads, {"answered", "list"})
  BY <1>1 DEF PeopleNet
<1> DEFINE reads == net.reads \ {r}
<1>3. /\ ReadsOk(reads, {"answered", "list"})
      /\ r \in LastOf(net.reads) => LastOf(reads) = {}
      /\ r \notin LastOf(net.reads) => LastOf(reads) = LastOf(net.reads)
  BY ONLY <1>2, EndedLast
<1>8. ASSUME NEW n, PeopleKept(net, n), NEW m,
             DOMAIN m = DOMAIN n, m.reads = n.reads \ {r}, m.calls = n.calls
      PROVE  PeopleNet(m) /\ m.reads = reads /\ (PeopleOwes(net) => PeopleOwes(m))
  <2>1. n.reads = net.reads
    BY <1>8 DEF PeopleKept
  <2>2. PeopleNet(m)
    BY <1>3, <1>8, <2>1 DEF PeopleNet, PeopleKept
  <2>3. QED
    BY <1>8, <2>1, <2>2 DEF PeopleKept, PeopleOwes
<1>4. ASSUME NEW n, PeopleKept(net, n), NEW m, m = [n EXCEPT !.reads = n.reads \ {r}]
      PROVE  PeopleNet(m) /\ m.reads = reads /\ (PeopleOwes(net) => PeopleOwes(m))
  <2>1. DOMAIN m = DOMAIN n /\ m.reads = n.reads \ {r} /\ m.calls = n.calls
    BY <1>4 DEF PeopleKept, PeopleNet
  <2>2. QED
    BY ONLY <1>4, <1>8, <2>1
<1> HIDE DEF reads
<1>5. CASE People!ShowRead(r)
  <2> DEFINE cards == [p \in DOMAIN r.list |-> People!Followed(r.list, p)]
             old == People!Unmounted(net, DOMAIN ui.cards \ DOMAIN cards)
             rs == {p \in DOMAIN cards \cap DOMAIN ui.cards : cards[p].draft # ui.cards[p].draft}
             n == People!Stale(old, rs)
  <2>1. /\ ui' = [ui EXCEPT !.list = r.list, !.cards = cards, !.loading = FALSE, !.error = FALSE]
        /\ net' = [n EXCEPT !.reads = n.reads \ {r}, !.late = ~r.last]
    BY <1>5 DEF People!ShowRead
  <2>2. ASSUME NEW p \in DOMAIN r.list
        PROVE  "draft" \in DOMAIN People!Followed(r.list, p) /\ People!Followed(r.list, p).draft \in People!Settings
    <3>1. r.list[p].settings \in People!Settings
      BY <1>1 DEF PeopleNet, People!Person
    <3>2. CASE p \notin DOMAIN ui.cards
      BY <3>1, <3>2 DEF People!Followed, People!FreshCard
    <3>3. CASE p \in DOMAIN ui.cards
      BY <1>1, <3>1, <3>3, PeopleWithDraft DEF PeopleUi, People!Followed
    <3>4. QED
      BY <3>2, <3>3
  <2>3. /\ DOMAIN cards = DOMAIN r.list
        /\ \A p \in DOMAIN cards : "draft" \in DOMAIN cards[p] /\ cards[p].draft \in People!Settings
    BY <2>2
  <2>4. PeopleKept(net, old)
    BY <1>1, PeopleUnmounted
  <2> HIDE DEF old, cards
  <2>5. PeopleKept(old, n)
    BY <2>4, PeopleStale DEF PeopleKept
  <2>6. PeopleKept(net, n)
    BY <2>4, <2>5 DEF PeopleKept
  <2> HIDE DEF n
  <2> DEFINE late == ~r.last
  <2>13. net' = [n EXCEPT !.reads = n.reads \ {r}, !.late = late]
    BY <2>1
  <2> HIDE DEF late
  <2>14. DOMAIN net' = DOMAIN n /\ net'.reads = n.reads \ {r} /\ net'.calls = n.calls /\ net'.late = late
    BY <2>6, <2>13 DEF PeopleKept, PeopleNet
  <2>15. PeopleNet(net') /\ net'.reads = reads /\ (PeopleOwes(net) => PeopleOwes(net'))
    BY <1>8, <2>6, <2>14
  <2>7. PeopleNet(net') /\ net'.reads = reads /\ (PeopleOwes(net) => PeopleOwes(net')) /\ net'.late = ~r.last
    BY <2>14, <2>15 DEF late
  <2>8. DOMAIN ui' = DOMAIN ui /\ ui'.list = r.list /\ ui'.cards = cards
    BY <1>1, <2>1 DEF PeopleUi
  <2>9. PeopleUi(ui')
    BY <1>1, <2>3, <2>8 DEF PeopleUi, PeopleNet
  <2>10. r.answered = TRUE \/ net'.late = TRUE
    BY <1>5 DEF People!ShowRead
  <2>11. PeopleShows(srv, ui, net) => PeopleShows(srv, ui', net')
    BY <1>2, <1>3, <1>5, <2>7, <2>8 DEF PeopleShows, LastOf, People!ShowRead
  <2>12. QED
    BY <1>1, <2>7, <2>9, <2>11 DEF PeopleFresh, PeopleFields
<1>6. CASE People!FailRead(r)
  <2> DEFINE n == People!Unmounted(net, Recipients)
  <2>1. /\ ui' = [[ui EXCEPT !.error = TRUE, !.cards = <<>>] EXCEPT !.loading = FALSE]
        /\ net' = [n EXCEPT !.reads = n.reads \ {r}]
    BY <1>6 DEF People!FailRead, People!Failed
  <2>2. PeopleKept(net, n)
    BY <1>1, PeopleUnmounted
  <2> HIDE DEF n
  <2>3. PeopleNet(net') /\ net'.reads = reads /\ (PeopleOwes(net) => PeopleOwes(net'))
    BY <1>4, <2>1, <2>2
  <2>4. DOMAIN ui' = DOMAIN ui /\ ui'.list = ui.list /\ ui'.cards = <<>> /\ ui'.error = TRUE
    BY <1>1, <2>1 DEF PeopleUi
  <2>5. PeopleUi(ui')
    BY <1>1, <2>4 DEF PeopleUi
  <2>6. PeopleShows(srv, ui, net) => PeopleShows(srv, ui', net')
    BY <1>3, <2>3, <2>4 DEF PeopleShows
  <2>7. QED
    BY <1>1, <2>3, <2>5, <2>6 DEF PeopleFresh, PeopleFields
<1>7. QED
  BY <1>5, <1>6

\* What the api does of a call it takes; its handler is owed from then on.
LEMMA PeopleServes ==
  ASSUME PeopleFresh(srv, ui, net), NEW c \in net.calls, People!Serve(c) \/ People!Refuse(c)
  PROVE  PeopleFresh(srv', ui', net')
<1>1. /\ PeopleSrv(srv) /\ PeopleUi(ui) /\ PeopleNet(net) /\ ui' = ui
  BY DEF PeopleFresh, PeopleFields, People!Serve, People!Refuse
<1>2. PeopleCall(c) /\ c.st = "sent"
  BY <1>1 DEF PeopleNet, People!Serve, People!Refuse
<1>3. ASSUME NEW st, NEW n, n = People!With(c, st)
      PROVE  /\ PeopleNet(n) /\ n.reads = net.reads /\ n.late = net.late
             /\ st = "ok" => PeopleOwes(n)
             /\ PeopleOwes(net) => PeopleOwes(n)
  <2> DEFINE d == [c EXCEPT !.st = st]
  <2>1. n = [net EXCEPT !.calls = (net.calls \ {c}) \cup {d}]
    BY <1>3 DEF People!With
  <2>2. PeopleCall(d) /\ d.st = st
    BY <1>2 DEF PeopleCall
  <2> HIDE DEF d
  <2>3. /\ DOMAIN n = DOMAIN net /\ n.reads = net.reads /\ n.late = net.late
        /\ n.calls = (net.calls \ {c}) \cup {d}
    BY <1>1, <2>1 DEF PeopleNet
  <2>4. PeopleNet(n)
    BY <1>1, <2>2, <2>3 DEF PeopleNet
  <2>5. QED
    BY <1>2, <2>2, <2>3, <2>4 DEF PeopleOwes
<1>4. CASE People!Serve(c)
  <2>1. PICK people : people \in People!Served(c) /\ srv' = [srv EXCEPT !.people = people]
    BY <1>4 DEF People!Serve
  <2>2. People!Allowed(c) /\ net' = People!With(c, "ok")
    BY <1>4 DEF People!Serve
  <2>3. \A r \in DOMAIN people : people[r] \in People!Person /\ people[r].settings.ids \subseteq srv.rules
    <3>1. ASSUME NEW p \in People!Person
          PROVE  /\ p.settings \in People!Settings /\ p.active \in BOOLEAN
                 /\ [p EXCEPT !.active = FALSE] \in People!Person
                 /\ [p EXCEPT !.active = FALSE].settings = p.settings
                 /\ \A d \in People!Settings : /\ [p EXCEPT !.settings = d] \in People!Person
                                               /\ [p EXCEPT !.settings = d].settings = d
      BY DEF People!Person
    <3>2. \A r \in DOMAIN srv.people :
            srv.people[r] \in People!Person /\ srv.people[r].settings.ids \subseteq srv.rules
      BY <1>1 DEF PeopleSrv
    <3>3. CASE c.op = "pause"
      <4>1. people = [srv.people EXCEPT ![c.r] = [srv.people[c.r] EXCEPT !.active = FALSE]]
        BY <2>1, <3>3 DEF People!Served
      <4>2. c.r \in DOMAIN srv.people
        BY <2>2, <3>3 DEF People!Allowed
      <4>3. QED
        BY <3>1, <3>2, <4>1, <4>2
    <3>4. CASE c.op = "delete"
      <4>1. people = People!Without(srv.people, c.r)
        BY <2>1, <3>4 DEF People!Served
      <4>2. QED
        BY <3>2, <4>1 DEF People!Without
    <3>5. CASE c.op = "save"
      <4>1. people = [srv.people EXCEPT ![c.r] = [srv.people[c.r] EXCEPT !.settings = c.draft]]
        BY <2>1, <3>5 DEF People!Served
      <4>2. c.r \in DOMAIN srv.people /\ c.draft.ids \subseteq srv.rules /\ c.draft \in People!Settings
        BY <1>2, <2>2, <3>5 DEF People!Allowed, People!ValidSettings, PeopleCall
      <4> DEFINE q == [srv.people[c.r] EXCEPT !.settings = c.draft]
      <4>3. q \in People!Person /\ q.settings = c.draft
        BY <3>1, <3>2, <4>2
      <4>4. people = [srv.people EXCEPT ![c.r] = q]
        BY <4>1
      <4> HIDE DEF q
      <4>5. QED
        BY <3>2, <4>2, <4>3, <4>4
    <3>6. CASE c.op = "rename"
      BY <2>1, <3>2, <3>6 DEF People!Served
    <3>7. CASE c.op = "add"
      <4> DEFINE fresh == [settings |-> People!NewSettings, active |-> TRUE]
      <4>1. fresh \in People!Person /\ fresh.settings.ids \subseteq srv.rules
        BY DEF People!NewSettings, People!Person, People!Settings
      <4>2. PICK new : people = [r \in DOMAIN srv.people \cup {new} |-> IF r = new THEN fresh ELSE srv.people[r]]
        BY <2>1, <3>7 DEF People!Served
      <4> HIDE DEF fresh
      <4>3. QED
        BY <3>2, <4>1, <4>2
    <3>8. QED
      BY <1>2, <3>3, <3>4, <3>5, <3>6, <3>7 DEF PeopleCall
  <2>4. DOMAIN srv' = DOMAIN srv /\ srv'.people = people /\ srv'.rules = srv.rules
    BY <1>1, <2>1 DEF PeopleSrv
  <2>5. PeopleSrv(srv')
    BY <1>1, <2>3, <2>4 DEF PeopleSrv
  <2>6. PeopleNet(net') /\ PeopleOwes(net')
    BY <1>3, <2>2
  <2>7. QED
    BY <1>1, <2>5, <2>6 DEF PeopleFresh, PeopleFields
<1>5. CASE People!Refuse(c)
  <2>1. srv' = srv /\ net' = People!With(c, "error")
    BY <1>5 DEF People!Refuse
  <2>2. PeopleKept(net, net')
    BY <1>3, <2>1 DEF PeopleKept
  <2>3. QED
    BY <1>1, <2>1, <2>2, PeopleBeside
<1>6. QED
  BY <1>4, <1>5

\* The handler goes on: it reads again, or tells a failure.
LEMMA PeopleGoesOn ==
  ASSUME PeopleFresh(srv, ui, net), NEW c \in net.calls, People!Answer(c) \/ People!AnswerFailure(c)
  PROVE  PeopleFresh(srv', ui', net')
<1>1. /\ PeopleSrv(srv) /\ PeopleUi(ui) /\ PeopleNet(net) /\ srv' = srv
  BY DEF PeopleFresh, PeopleFields, People!Answer, People!AnswerFailure
<1> DEFINE n == People!Gone(c)
<1>2. /\ PeopleNet(n) /\ n.reads = net.reads /\ n.late = net.late /\ n.calls = net.calls \ {c}
  <2>1. n = [net EXCEPT !.calls = net.calls \ {c}]
    BY DEF People!Gone
  <2> HIDE DEF n
  <2>2. DOMAIN n = DOMAIN net /\ n.reads = net.reads /\ n.late = net.late /\ n.calls = net.calls \ {c}
    BY <1>1, <2>1 DEF PeopleNet
  <2>3. QED
    BY <1>1, <2>2 DEF PeopleNet
<1>3. ASSUME NEW v, \/ v = ui
                    \/ \E x : v = [ui EXCEPT !.pausing = x]
                    \/ \E x : v = [ui EXCEPT !.deleting = x]
                    \/ \E x : v = [ui EXCEPT !.rail = x]
      PROVE  PeopleUi(v) /\ v.list = ui.list /\ v.error = ui.error
  <2>1. /\ DOMAIN v = DOMAIN ui /\ v.cards = ui.cards /\ v.list = ui.list /\ v.error = ui.error
        /\ v.loading = ui.loading
    BY <1>1, <1>3 DEF PeopleUi
  <2>2. QED
    BY <1>1, <2>1 DEF PeopleUi
<1> DEFINE ended == People!Ended(ui, c)
<1>4. PeopleUi(ended) /\ ended.list = ui.list /\ ended.error = ui.error
  <2>1. \/ \/ ended = ui
           \/ \E x : ended = [ui EXCEPT !.pausing = x]
           \/ \E x : ended = [ui EXCEPT !.deleting = x]
           \/ \E x : ended = [ui EXCEPT !.rail = x]
        \/ \E x : ended = [ui EXCEPT !.cards = [ui.cards EXCEPT ![c.r] = [ui.cards[c.r] EXCEPT !.saving = x]]]
    <3>1. PeopleCall(c)
      BY <1>1 DEF PeopleNet
    <3>2. CASE c.op = "pause"
      BY <3>2 DEF People!Ended
    <3>3. CASE c.op = "delete"
      BY <3>3 DEF People!Ended
    <3>4. CASE c.op = "save"
      BY <3>4 DEF People!Ended
    <3>5. CASE c.op \in {"add", "rename"}
      <4>1. ended = IF c.mine THEN [ui EXCEPT !.rail = [ui.rail EXCEPT !.submitting = FALSE]] ELSE ui
        BY <3>5 DEF People!Ended
      <4>2. QED
        BY <4>1
    <3>6. QED
      BY <3>1, <3>2, <3>3, <3>4, <3>5 DEF PeopleCall
  <2>2. CASE \E x : ended = [ui EXCEPT !.cards = [ui.cards EXCEPT ![c.r] = [ui.cards[c.r] EXCEPT !.saving = x]]]
    <3>1. PICK x : ended = [ui EXCEPT !.cards = [ui.cards EXCEPT ![c.r] = [ui.cards[c.r] EXCEPT !.saving = x]]]
      BY <2>2
    <3> DEFINE cards == [ui.cards EXCEPT ![c.r] = [ui.cards[c.r] EXCEPT !.saving = x]]
    <3>2. ended = [ui EXCEPT !.cards = cards]
      BY <3>1
    <3>3. /\ DOMAIN cards = DOMAIN ui.cards
          /\ \A p \in DOMAIN cards : "draft" \in DOMAIN cards[p] /\ cards[p].draft \in People!Settings
      BY <1>1 DEF PeopleUi
    <3> HIDE DEF cards, ended
    <3>4. /\ DOMAIN ended = DOMAIN ui /\ ended.cards = cards /\ ended.list = ui.list
          /\ ended.error = ui.error /\ ended.loading = ui.loading
      BY <1>1, <3>2 DEF PeopleUi
    <3>5. QED
      BY <1>1, <3>3, <3>4 DEF PeopleUi
  <2> HIDE DEF ended
  <2>3. QED
    BY <1>3, <2>1, <2>2
<1> HIDE DEF n, ended
<1>5. CASE People!Answer(c)
  <2>1. PeopleUi(ui')
    <3>1. ui' = [ui EXCEPT !.rail = People!NoRail] \/ ui' = ended
      BY <1>5 DEF People!Answer, ended
    <3>2. QED
      BY <1>3, <1>4, <3>1
  <2>2. net' = People!Reloaded(People!RailGone(n)) \/ net' = People!Reloaded(n)
    BY <1>5 DEF People!Answer, n
  <2>3. PeopleNet(People!RailGone(n))
    BY <1>2, PeopleRailGone DEF PeopleKept
  <2>4. PeopleFresh(srv, ui', net')
    BY ONLY <1>1, <1>2, <2>1, <2>2, <2>3, PeopleAsks
  <2>5. QED
    BY <1>1, <2>4
<1>6. CASE People!AnswerFailure(c)
  <2>1. PeopleKept(net, n)
    BY <1>2, <1>6 DEF PeopleKept, PeopleOwes, People!AnswerFailure
  <2>2. PeopleKept(net, net')
    <3>1. net' = n \/ net' = People!Unmounted(n, Recipients)
      BY <1>6 DEF People!AnswerFailure, n
    <3>2. PeopleKept(n, People!Unmounted(n, Recipients))
      BY <1>2, PeopleUnmounted
    <3>3. QED
      BY <2>1, <3>1, <3>2 DEF PeopleKept
  <2>3. ui' = ended \/ ui' = [ended EXCEPT !.error = TRUE, !.cards = <<>>]
    BY <1>6 DEF People!AnswerFailure, People!Failed, ended
  <2>4. CASE ui' = ended
    BY <1>1, <1>4, <2>2, <2>4, PeopleBeside
  <2>5. CASE ui' = [ended EXCEPT !.error = TRUE, !.cards = <<>>]
    <3>1. /\ DOMAIN ui' = DOMAIN ended /\ ui'.list = ended.list /\ ui'.cards = <<>> /\ ui'.error = TRUE
      BY <1>4, <2>5 DEF PeopleUi
    <3>2. PeopleUi(ui')
      BY <1>4, <3>1 DEF PeopleUi
    <3>3. QED
      BY <1>1, <1>4, <2>2, <3>1, <3>2, PeopleBeside
  <2>6. QED
    BY <2>3, <2>4, <2>5
<1>7. QED
  BY <1>5, <1>6

\* A choice that loses a rule in the api has lost it in the list.
LEMMA PersonLoses ==
  ASSUME NEW old \in People!Person, NEW p \in People!Person, NEW rules, PersonNow(old, p, rules),
         NEW rule, NEW q, q = [p EXCEPT !.settings = [p.settings EXCEPT !.ids = p.settings.ids \ {rule}]]
  PROVE  PersonNow(old, q, rules \ {rule})
<1>1. old.settings \in People!Settings /\ p.settings \in People!Settings
  BY DEF People!Person
<1>2. q.settings = [p.settings EXCEPT !.ids = p.settings.ids \ {rule}] /\ q.active = p.active
  BY DEF People!Person
<1>3. /\ p.settings.mode = old.settings.mode /\ p.settings.types = old.settings.types
      /\ p.settings.ids = old.settings.ids \cap rules /\ old.active = p.active
  BY <1>1 DEF PersonNow, People!Settings
<1> DEFINE ids == old.settings.ids \cap (rules \ {rule})
           now == [mode |-> old.settings.mode, ids |-> ids, types |-> old.settings.types]
<1>4. p.settings.ids \ {rule} = ids
  BY <1>3
<1> HIDE DEF ids
<1>5. [old.settings EXCEPT !.ids = ids] = now
  BY <1>1 DEF People!Settings
<1>6. q.settings = now
  BY <1>1, <1>2, <1>3, <1>4 DEF People!Settings
<1> HIDE DEF now
<1>7. [old.settings EXCEPT !.ids = ids] = q.settings
  BY ONLY <1>5, <1>6
<1>8. QED
  BY <1>2, <1>3, <1>7 DEF PersonNow, ids

LEMMA PeopleLose ==
  ASSUME PeopleFresh(srv, ui, net), NEW rule, People!RuleDeleted(rule)
  PROVE  PeopleFresh(srv', ui', net')
<1>1. PeopleSrv(srv) /\ PeopleUi(ui) /\ PeopleNet(net) /\ ui' = ui /\ net' = People!Counted(net)
  BY DEF PeopleFresh, PeopleFields, People!RuleDeleted
<1> DEFINE lost(p) == [p EXCEPT !.settings = [p.settings EXCEPT !.ids = p.settings.ids \ {rule}]]
<1>2. srv' = [rules |-> srv.rules \ {rule}, people |-> [r \in DOMAIN srv.people |-> lost(srv.people[r])]]
  BY DEF People!RuleDeleted
<1>3. ASSUME NEW p \in People!Person, p.settings.ids \subseteq srv.rules
      PROVE  lost(p) \in People!Person /\ lost(p).settings.ids \subseteq srv.rules \ {rule}
  <2>1. p.settings \in People!Settings
    BY DEF People!Person
  <2> DEFINE d == [p.settings EXCEPT !.ids = p.settings.ids \ {rule}]
  <2>2. d \in People!Settings /\ d.ids = p.settings.ids \ {rule}
    BY <2>1 DEF People!Settings
  <2>3. lost(p) = [p EXCEPT !.settings = d]
    OBVIOUS
  <2> HIDE DEF d, lost
  <2>4. lost(p) \in People!Person /\ lost(p).settings = d
    BY <2>2, <2>3 DEF People!Person
  <2>5. QED
    BY <1>3, <2>2, <2>4
<1>4. ASSUME NEW old \in People!Person, NEW p \in People!Person, PersonNow(old, p, srv.rules)
      PROVE  PersonNow(old, lost(p), srv.rules \ {rule})
  BY ONLY <1>4, PersonLoses
<1> HIDE DEF lost
<1>5. /\ srv'.rules = srv.rules \ {rule} /\ DOMAIN srv'.people = DOMAIN srv.people
      /\ {"rules", "people"} \subseteq DOMAIN srv'
      /\ \A r \in DOMAIN srv.people : srv'.people[r] = lost(srv.people[r])
  BY <1>2
<1>6. PeopleSrv(srv')
  BY <1>1, <1>3, <1>5 DEF PeopleSrv
<1>7. ASSUME NEW list, \A r \in DOMAIN list : list[r] \in People!Person, ListNow(list, srv)
      PROVE  ListNow(list, srv')
  BY <1>1, <1>4, <1>5, <1>7 DEF ListNow, PeopleSrv
<1>8. PeopleKept(net, net')
  BY <1>1, PeopleCounted
<1>9. LastOf(net.reads) \subseteq net.reads
  BY DEF LastOf
<1>10. PeopleShows(srv, ui, net) => PeopleShows(srv', ui, net')
  BY <1>1, <1>7, <1>8, <1>9 DEF PeopleShows, PeopleKept, PeopleNet, PeopleUi
<1>11. QED
  BY <1>1, <1>6, <1>8, <1>10 DEF PeopleFresh, PeopleFields, PeopleKept

LEMMA NextPeople ==
  ASSUME PeopleFresh(srv, ui, net), [People!Next]_<<srv, ui, net>>
  PROVE  PeopleFresh(srv', ui', net')
<1>1. CASE UNCHANGED <<srv, ui, net>>
  BY <1>1
<1>2. CASE \E r \in Recipients : \/ People!EditCard(r) \/ People!Discard(r)
                                 \/ People!SaveCard(r) \/ People!AskPreview(r)
  BY ONLY <1>2, PeopleFresh(srv, ui, net), PeopleCards
<1>3. CASE \/ \E a \in net.asks, ok \in BOOLEAN : People!AnswerPreview(a, ok)
           \/ \E r \in Recipients : People!Pause(r) \/ People!Delete(r)
           \/ \E of \in Recipients \cup {Nothing} : People!OpenRail(of)
           \/ People!CancelRail \/ People!ChooseInRail \/ People!SubmitRail
  BY ONLY <1>3, PeopleFresh(srv, ui, net), PeopleClicks
<1>4. CASE \E r \in net.reads : People!AnswerRead(r)
  BY ONLY <1>4, PeopleFresh(srv, ui, net), PeopleAnswers
<1>5. CASE \E r \in net.reads : People!ShowRead(r) \/ People!FailRead(r)
  BY ONLY <1>5, PeopleFresh(srv, ui, net), PeopleEnds
<1>6. CASE \E c \in net.calls : People!Serve(c) \/ People!Refuse(c)
  BY ONLY <1>6, PeopleFresh(srv, ui, net), PeopleServes
<1>7. CASE \E c \in net.calls : People!Answer(c) \/ People!AnswerFailure(c)
  BY ONLY <1>7, PeopleFresh(srv, ui, net), PeopleGoesOn
<1>8. CASE \E rule \in SomeRules : People!RuleDeleted(rule)
  BY ONLY <1>8, PeopleFresh(srv, ui, net), PeopleLose
<1>9. QED
  BY <1>1, <1>2, <1>3, <1>4, <1>5, <1>6, <1>7, <1>8 DEF People!Next

\* With nothing awaited the list is the one that was read last.
LEMMA PeopleShown == ASSUME PeopleFresh(srv, ui, net) PROVE People!CardsAreCurrent
<1> SUFFICES ASSUME People!Quiet, ~net.late
             PROVE  /\ DOMAIN ui.cards = DOMAIN srv.people
                    /\ \A r \in DOMAIN ui.cards : PersonNow(ui.list[r], srv.people[r], srv.rules)
  BY DEF People!CardsAreCurrent, PersonNow
<1>1. /\ net.reads = {} /\ net.calls = {} /\ ui.loading # TRUE /\ ui.error # TRUE /\ net.late # TRUE
  BY DEF People!Quiet
<1>2. LastOf(net.reads) = {} /\ ~PeopleOwes(net)
  BY <1>1 DEF LastOf, PeopleOwes
<1>3. ListNow(ui.list, srv)
  BY <1>1, <1>2 DEF PeopleFresh, PeopleShows
<1>4. DOMAIN ui.cards = DOMAIN ui.list
  BY <1>1 DEF PeopleFresh, PeopleFields, PeopleUi
<1>5. QED
  BY <1>3, <1>4 DEF ListNow
-----------------------------------------------------------------------------
(* The history: filters that are other ones ask for the list, and so does a     *)
(* deletion that was made here.                                                 *)

HistoryUi == {"form", "applied", "stored", "rows", "loading", "error", "panel", "dialog", "busy"}
HistoryNet == {"reads", "calls", "blocked", "late", "ops"}
IsForm(f) == f = [search |-> f.search, choice |-> f.choice]
\* Nothing has been answered yet to a call of a page that was left.
HistoryCall(c) ==
  /\ {"n", "op", "match", "of", "left", "st"} \subseteq DOMAIN c
  /\ c.left \in BOOLEAN /\ (c.left => c.st = "sent")
HistoryFields(s, u, n) ==
  /\ {"matches", "elsewhere"} \subseteq DOMAIN s
  /\ HistoryUi \subseteq DOMAIN u /\ IsForm(u.form) /\ (u.stored # Nothing => IsForm(u.stored))
  /\ HistoryNet \subseteq DOMAIN n
  /\ ReadsOk(n.reads, {"of", "has", "here"})
  /\ \A c \in n.calls : HistoryCall(c)
\* The read asked last is of the filters as they are applied, or known not to be.
HistoryAsked(u, n) ==
  /\ \A r \in LastOf(n.reads) : r.here = TRUE => r.of = History!toApiFilters(u)
  /\ LastOf(n.reads) = {} => u.error = TRUE \/ n.late = TRUE \/ u.rows.of = History!toApiFilters(u)
\* A deletion whose handler goes on with a read.
HistoryOwes(n) == \E c \in n.calls : c.op = "delete" /\ c.st \in {"ok", "404"}
HistoryShows(s, u, n) ==
  /\ \A r \in LastOf(n.reads) : r.has # Nothing => r.has \ s.matches \subseteq s.elsewhere
  /\ LastOf(n.reads) = {} =>
       u.error = TRUE \/ n.late = TRUE \/ u.rows.has \ s.matches \subseteq s.elsewhere
HistoryFresh(s, u, n) ==
  HistoryFields(s, u, n) /\ HistoryAsked(u, n) /\ (HistoryOwes(n) \/ HistoryShows(s, u, n))

\* A page that asks again shows, in the end, what it is answered.
LEMMA HistoryAsks ==
  ASSUME NEW s, NEW u, NEW n, HistoryFields(s, u, n), NEW of, NEW v, v = [u EXCEPT !.loading = TRUE],
         NEW m, m = [n EXCEPT !.reads = Demoted(n.reads) \cup
                       {[of |-> of, has |-> Nothing, last |-> TRUE, here |-> of = History!toApiFilters(u)]}]
  PROVE  HistoryFresh(s, v, m)
<1> DEFINE new == [of |-> of, has |-> Nothing, last |-> TRUE, here |-> of = History!toApiFilters(u)]
<1>1. m = [n EXCEPT !.reads = Demoted(n.reads) \cup {new}]
  OBVIOUS
<1>2. /\ {"of", "has", "here"} \cup {"last"} \subseteq DOMAIN new /\ new.last = TRUE
      /\ new.has = Nothing /\ (new.here = TRUE => new.of = History!toApiFilters(u))
  OBVIOUS
<1> HIDE DEF new
<1>3. ReadsOk(n.reads, {"of", "has", "here"})
  BY DEF HistoryFields
<1>4. /\ ReadsOk(Demoted(n.reads) \cup {new}, {"of", "has", "here"})
      /\ LastOf(Demoted(n.reads) \cup {new}) = {new}
  BY ONLY <1>2, <1>3, AskedLast
<1>5. DOMAIN m = DOMAIN n /\ m.reads = Demoted(n.reads) \cup {new} /\ m.calls = n.calls
  BY <1>1 DEF HistoryFields, HistoryNet
<1>6. /\ DOMAIN v = DOMAIN u /\ v.form = u.form /\ v.applied = u.applied /\ v.stored = u.stored
  BY DEF HistoryFields, HistoryUi
<1>7. History!toApiFilters(v) = History!toApiFilters(u)
  BY <1>6 DEF History!toApiFilters
<1>8. HistoryFields(s, v, m)
  BY <1>4, <1>5, <1>6 DEF HistoryFields
<1>9. HistoryAsked(v, m) /\ HistoryShows(s, v, m)
  BY <1>2, <1>4, <1>5, <1>7 DEF HistoryAsked, HistoryShows
<1>10. QED
  BY <1>8, <1>9 DEF HistoryFresh

\* A step that moves neither the filters that are applied nor the rows nor the reads.
LEMMA HistoryBeside ==
  ASSUME NEW s, NEW u, NEW n, HistoryFresh(s, u, n), NEW v, NEW m, HistoryFields(s, v, m),
         History!toApiFilters(v) = History!toApiFilters(u), v.rows = u.rows, v.error = u.error,
         m.reads = n.reads, m.late = n.late,
         \A c \in n.calls : c.op = "delete" /\ c.st \in {"ok", "404"} => c \in m.calls
  PROVE  HistoryFresh(s, v, m)
BY DEF HistoryFresh, HistoryAsked, HistoryOwes, HistoryShows

LEMMA HistoryMounted ==
  ASSUME NEW stored, stored # Nothing => IsForm(stored), NEW u, u = History!Mounted(stored)
  PROVE  /\ HistoryUi \subseteq DOMAIN u /\ IsForm(u.form) /\ (u.stored # Nothing => IsForm(u.stored))
<1>1. IsForm(History!EMPTY_FILTERS)
  BY DEF IsForm, History!EMPTY_FILTERS
<1>2. QED
  BY <1>1 DEF History!Mounted, HistoryUi

\* The only read of a page that was just mounted.
LEMMA HistoryFirst ==
  ASSUME NEW s, {"matches", "elsewhere"} \subseteq DOMAIN s, NEW u,
         HistoryUi \subseteq DOMAIN u, IsForm(u.form), u.stored # Nothing => IsForm(u.stored),
         NEW n, HistoryNet \subseteq DOMAIN n, n.reads = History!FirstRead(u),
         \A c \in n.calls : HistoryCall(c)
  PROVE  HistoryFresh(s, u, n)
<1> DEFINE new == [of |-> History!toApiFilters(u), has |-> Nothing, last |-> TRUE, here |-> TRUE]
<1>1. n.reads = {new}
  BY DEF History!FirstRead
<1>2. /\ {"of", "has", "here", "last"} \subseteq DOMAIN new /\ new.last = TRUE
      /\ new.has = Nothing /\ new.of = History!toApiFilters(u)
  OBVIOUS
<1> HIDE DEF new
<1>3. LastOf(n.reads) = {new} /\ ReadsOk(n.reads, {"of", "has", "here"})
  BY <1>1, <1>2 DEF LastOf, ReadsOk
<1>4. QED
  BY <1>2, <1>3 DEF HistoryFresh, HistoryFields, HistoryAsked, HistoryShows

LEMMA HistoryInit == ASSUME History!Init PROVE HistoryFresh(srv, ui, net)
<1>1. {"matches", "elsewhere"} \subseteq DOMAIN srv
  BY DEF History!Init
<1>2. PICK blocked, stored : /\ stored \in History!FilterForm \cup {Nothing}
                             /\ ui = History!Mounted(stored)
                             /\ net = [reads |-> History!FirstRead(ui), calls |-> {}, blocked |-> blocked,
                                       late |-> FALSE, ops |-> 0]
  BY DEF History!Init
<1>3. stored # Nothing => IsForm(stored)
  BY <1>2 DEF History!FilterForm, IsForm
<1>4. HistoryUi \subseteq DOMAIN ui /\ IsForm(ui.form) /\ (ui.stored # Nothing => IsForm(ui.stored))
  BY <1>2, <1>3, HistoryMounted
<1>5. HistoryNet \subseteq DOMAIN net /\ net.reads = History!FirstRead(ui) /\ net.calls = {}
  BY <1>2 DEF HistoryNet
<1>6. QED
  BY <1>1, <1>4, <1>5, HistoryFirst

\* Filters that are rendered: the same ones ask nothing, other ones ask for the list.
LEMMA HistoryRenders ==
  ASSUME HistoryFresh(srv, ui, net), srv' = srv, NEW u, HistoryFields(srv, u, net),
         u.rows = ui.rows, u.error = ui.error, u.applied = ui.applied,
         History!Rendered(u, net)
  PROVE  HistoryFresh(srv', ui', net')
<1> DEFINE applied == [u EXCEPT !.applied = IF u.form.search = NoSearch THEN NoSearch ELSE u.applied]
           n == History!Counted(net)
<1>1. /\ DOMAIN applied = DOMAIN u /\ applied.form = u.form /\ applied.stored = u.stored
      /\ applied.rows = u.rows /\ applied.error = u.error
  BY DEF HistoryFields, HistoryUi
<1>2. /\ DOMAIN n = DOMAIN net /\ n.reads = net.reads /\ n.late = net.late /\ n.calls = net.calls
  BY DEF History!Counted, HistoryFields, HistoryNet
<1>3. \/ /\ History!toApiFilters(applied) = History!toApiFilters(ui)
         /\ ui' = applied /\ net' = n
      \/ History!Loaded(applied, n, History!toApiFilters(applied))
  BY DEF History!Rendered
<1> HIDE DEF applied, n
<1>4. HistoryFields(srv, applied, n)
  BY <1>1, <1>2 DEF HistoryFields
<1>5. CASE /\ History!toApiFilters(applied) = History!toApiFilters(ui)
           /\ ui' = applied /\ net' = n
  <2>1. HistoryFresh(srv, applied, n)
    BY <1>1, <1>2, <1>4, <1>5, HistoryBeside
  <2>2. QED
    BY <1>5, <2>1
<1>6. CASE History!Loaded(applied, n, History!toApiFilters(applied))
  <2>1. /\ ui' = [applied EXCEPT !.loading = TRUE]
        /\ net' = [n EXCEPT !.reads = Demoted(n.reads) \cup
             {[of |-> History!toApiFilters(applied), has |-> Nothing, last |-> TRUE,
               here |-> History!toApiFilters(applied) = History!toApiFilters(applied)]}]
    BY <1>6 DEF History!Loaded, Demoted
  <2>2. HistoryFresh(srv, ui', net')
    BY <1>4, <2>1, HistoryAsks
  <2>3. QED
    BY <2>2
<1>7. QED
  BY <1>3, <1>5, <1>6

LEMMA HistoryFilters ==
  ASSUME HistoryFresh(srv, ui, net),
         \/ History!ChangeField \/ History!ClearFilters \/ History!SearchTimer
         \/ History!Refresh \/ History!ComeBack
  PROVE  HistoryFresh(srv', ui', net')
<1>1. /\ HistoryFields(srv, ui, net) /\ srv' = srv
  BY DEF HistoryFresh, History!ChangeField, History!ClearFilters, History!SearchTimer,
         History!Refresh, History!ComeBack
<1>2. CASE History!ChangeField
  <2>1. PICK form \in History!FilterForm : History!Rendered(History!Kept(ui, form), net)
    BY <1>2 DEF History!ChangeField
  <2> DEFINE u == History!Kept(ui, form)
  <2>2. PICK stored : /\ u = [ui EXCEPT !.form = form, !.stored = stored]
                      /\ stored # Nothing => stored = form
    BY DEF History!Kept
  <2>3. IsForm(form)
    BY DEF History!FilterForm, IsForm
  <2>4. History!Rendered(u, net)
    BY <2>1
  <2> HIDE DEF u
  <2>5. /\ DOMAIN u = DOMAIN ui /\ u.form = form /\ u.stored = stored
        /\ u.rows = ui.rows /\ u.error = ui.error /\ u.applied = ui.applied
    BY <1>1, <2>2 DEF HistoryFields, HistoryUi
  <2>6. HistoryFields(srv, u, net)
    BY <1>1, <2>2, <2>3, <2>5 DEF HistoryFields
  <2>7. QED
    BY <1>1, <2>4, <2>5, <2>6, HistoryRenders
<1>3. CASE History!ClearFilters
  <2> DEFINE u == History!Reset(ui)
  <2>1. History!Rendered(u, net)
    BY <1>3 DEF History!ClearFilters
  <2>2. IsForm(History!EMPTY_FILTERS)
    BY DEF History!EMPTY_FILTERS, IsForm
  <2>3. /\ DOMAIN u = DOMAIN ui /\ u.form = History!EMPTY_FILTERS /\ u.stored = Nothing
        /\ u.rows = ui.rows /\ u.error = ui.error /\ u.applied = ui.applied
    BY <1>1 DEF History!Reset, HistoryFields, HistoryUi
  <2> HIDE DEF u
  <2>4. HistoryFields(srv, u, net)
    BY <1>1, <2>2, <2>3 DEF HistoryFields
  <2>5. QED
    BY <1>1, <2>1, <2>3, <2>4, HistoryRenders
<1>4. CASE History!SearchTimer
  <2> DEFINE u == [ui EXCEPT !.applied = ui.form.search]
  <2>1. /\ ui' = [u EXCEPT !.loading = TRUE]
        /\ net' = [net EXCEPT !.reads = Demoted(net.reads) \cup
             {[of |-> History!toApiFilters(u), has |-> Nothing, last |-> TRUE,
               here |-> History!toApiFilters(u) = History!toApiFilters(u)]}]
    BY <1>4 DEF History!SearchTimer, History!Loaded, Demoted
  <2>2. HistoryFields(srv, u, net)
    BY <1>1 DEF HistoryFields, HistoryUi
  <2> HIDE DEF u
  <2>3. HistoryFresh(srv, ui', net')
    BY <2>1, <2>2, HistoryAsks
  <2>4. QED
    BY <1>1, <2>3
<1>5. CASE History!Refresh
  <2> DEFINE n == History!Counted(net)
  <2>1. /\ ui' = [ui EXCEPT !.loading = TRUE]
        /\ net' = [n EXCEPT !.reads = Demoted(n.reads) \cup
             {[of |-> History!toApiFilters(ui), has |-> Nothing, last |-> TRUE,
               here |-> History!toApiFilters(ui) = History!toApiFilters(ui)]}]
    BY <1>5 DEF History!Refresh, History!Loaded, Demoted
  <2>2. /\ DOMAIN n = DOMAIN net /\ n.reads = net.reads /\ n.calls = net.calls
    BY <1>1 DEF History!Counted, HistoryFields, HistoryNet
  <2> HIDE DEF n
  <2>3. HistoryFields(srv, ui, n)
    BY <1>1, <2>2 DEF HistoryFields
  <2>4. HistoryFresh(srv, ui', net')
    BY <2>1, <2>3, HistoryAsks
  <2>5. QED
    BY <1>1, <2>4
<1>6. CASE History!ComeBack
  <2> DEFINE left == {[c EXCEPT !.left = TRUE] : c \in {d \in net.calls : d.op = "delete" /\ d.st = "sent"}}
             n == History!Counted(net)
  <2>1. /\ ui' = History!Mounted(ui.stored)
        /\ net' = [n EXCEPT !.reads = History!FirstRead(ui'), !.late = FALSE,
             !.calls = {[c EXCEPT !.left = TRUE] : c \in {d \in n.calls : d.op = "delete" /\ d.st = "sent"}}]
    BY <1>6 DEF History!ComeBack
  <2>2. DOMAIN n = DOMAIN net /\ n.calls = net.calls
    BY <1>1 DEF History!Counted, HistoryFields, HistoryNet
  <2> HIDE DEF n
  <2>3. /\ HistoryNet \subseteq DOMAIN net' /\ net'.reads = History!FirstRead(ui')
        /\ net'.calls = left
    BY <1>1, <2>1, <2>2 DEF HistoryFields, HistoryNet
  <2>4. ASSUME NEW q \in left
        PROVE  HistoryCall(q)
    <3>1. PICK c \in net.calls : q = [c EXCEPT !.left = TRUE] /\ c.st = "sent"
      OBVIOUS
    <3>2. HistoryCall(c)
      BY <1>1 DEF HistoryFields
    <3>3. QED
      BY <3>1, <3>2 DEF HistoryCall
  <2> HIDE DEF left
  <2>5. HistoryUi \subseteq DOMAIN ui' /\ IsForm(ui'.form) /\ (ui'.stored # Nothing => IsForm(ui'.stored))
    BY <1>1, <2>1, HistoryMounted DEF HistoryFields
  <2>6. {"matches", "elsewhere"} \subseteq DOMAIN srv
    BY <1>1 DEF HistoryFields
  <2>7. HistoryFresh(srv, ui', net')
    BY ONLY <2>3, <2>4, <2>5, <2>6, HistoryFirst
  <2>8. QED
    BY <1>1, <2>7
<1>7. QED
  BY <1>2, <1>3, <1>4, <1>5, <1>6

\* A read is answered, shown or lost.
LEMMA HistoryReads ==
  ASSUME HistoryFresh(srv, ui, net), NEW r \in net.reads,
         History!AnswerRead(r) \/ History!ShowRead(r) \/ History!FailRead(r)
  PROVE  HistoryFresh(srv', ui', net')
<1>1. /\ HistoryFields(srv, ui, net) /\ HistoryAsked(ui, net) /\ srv' = srv
  BY DEF HistoryFresh, History!AnswerRead, History!ShowRead, History!FailRead
<1>0. r \in net.reads /\ ReadsOk(net.reads, {"of", "has", "here"})
  BY <1>1 DEF HistoryFields
<1>2. {"of", "has", "here"} \cup {"last"} \subseteq DOMAIN r /\ r.last \in BOOLEAN
  BY <1>0 DEF ReadsOk
<1>3. CASE History!AnswerRead(r)
  <2> DEFINE q == [r EXCEPT !.has = srv.matches]
             reads == (net.reads \ {r}) \cup {q}
  <2>1. net' = [net EXCEPT !.reads = reads] /\ ui' = ui
    BY <1>3 DEF History!AnswerRead
  <2>2. /\ {"of", "has", "here"} \cup {"last"} \subseteq DOMAIN q /\ q.last = r.last
        /\ q.has = srv.matches /\ q.of = r.of /\ q.here = r.here
    BY <1>2
  <2> HIDE DEF q
  <2>3. /\ ReadsOk(reads, {"of", "has", "here"})
        /\ r \in LastOf(net.reads) => LastOf(reads) = {q}
        /\ r \notin LastOf(net.reads) => LastOf(reads) = LastOf(net.reads)
    BY ONLY <1>0, <2>2, AnsweredLast
  <2> HIDE DEF reads
  <2>4. /\ DOMAIN net' = DOMAIN net /\ net'.reads = reads /\ net'.calls = net.calls
        /\ net'.late = net.late
    BY <1>1, <2>1 DEF HistoryFields, HistoryNet
  <2>5. HistoryFields(srv, ui, net')
    BY <1>1, <2>3, <2>4 DEF HistoryFields
  <2>6. HistoryAsked(ui, net')
    BY <1>1, <2>2, <2>3, <2>4 DEF HistoryAsked
  <2>7. HistoryShows(srv, ui, net) => HistoryShows(srv, ui, net')
    BY <2>2, <2>3, <2>4 DEF HistoryShows
  <2>8. QED
    BY <1>1, <2>1, <2>4, <2>5, <2>6, <2>7 DEF HistoryFresh, HistoryOwes
<1>4. CASE History!ShowRead(r) \/ History!FailRead(r)
  <2> DEFINE reads == net.reads \ {r}
  <2>1. /\ ReadsOk(reads, {"of", "has", "here"})
        /\ r \in LastOf(net.reads) => LastOf(reads) = {}
        /\ r \notin LastOf(net.reads) => LastOf(reads) = LastOf(net.reads)
    BY ONLY <1>0, EndedLast
  <2>2. DOMAIN net' = DOMAIN net /\ net'.reads = reads /\ net'.calls = net.calls
    BY <1>1, <1>4 DEF History!ShowRead, History!FailRead, HistoryFields, HistoryNet
  <2>3. /\ DOMAIN ui' = DOMAIN ui /\ ui'.form = ui.form /\ ui'.applied = ui.applied
        /\ ui'.stored = ui.stored
        /\ \/ ui'.error = TRUE
           \/ /\ r.has # Nothing /\ ui'.rows.of = r.of /\ ui'.rows.has = r.has
              /\ net'.late = (~r.last \/ ~r.here)
    <3>1. CASE History!ShowRead(r)
      BY <1>1, <3>1 DEF History!ShowRead, HistoryFields, HistoryUi, HistoryNet
    <3>2. CASE History!FailRead(r)
      BY <1>1, <3>2 DEF History!FailRead, HistoryFields, HistoryUi
    <3>3. QED
      BY <1>4, <3>1, <3>2
  <2> HIDE DEF reads
  <2>4. \/ ui'.error = TRUE
        \/ net'.late = TRUE
        \/ /\ r \in LastOf(net.reads) /\ r.here = TRUE
           /\ r.has # Nothing /\ ui'.rows.of = r.of /\ ui'.rows.has = r.has
    BY <1>0, <2>3 DEF LastOf
  <2>5. HistoryFields(srv, ui', net')
    BY <1>1, <2>1, <2>2, <2>3 DEF HistoryFields
  <2>6. History!toApiFilters(ui') = History!toApiFilters(ui)
    BY <2>3 DEF History!toApiFilters
  <2>7. HistoryAsked(ui', net')
    BY <1>1, <2>1, <2>2, <2>4, <2>6 DEF HistoryAsked
  <2>8. HistoryShows(srv, ui, net) => HistoryShows(srv, ui', net')
    BY <2>1, <2>2, <2>4 DEF HistoryShows
  <2>9. QED
    BY <1>1, <2>2, <2>5, <2>7, <2>8 DEF HistoryFresh, HistoryOwes
<1>5. QED
  BY <1>3, <1>4

LEMMA HistoryClicks ==
  ASSUME HistoryFresh(srv, ui, net),
         \/ \E m \in Matches : History!OpenProduct(m) \/ History!AskDelete(m)
         \/ History!CloseProduct \/ History!CancelDelete \/ History!ConfirmDelete
         \/ \E op \in {"snooze", "target"} : History!PanelCall(op)
  PROVE  HistoryFresh(srv', ui', net')
<1>1. HistoryFields(srv, ui, net)
  BY DEF HistoryFresh
<1>2. /\ srv' = srv /\ DOMAIN ui' = DOMAIN ui /\ ui'.form = ui.form /\ ui'.applied = ui.applied
      /\ ui'.stored = ui.stored /\ ui'.rows = ui.rows /\ ui'.error = ui.error
  BY <1>1 DEF History!OpenProduct, History!AskDelete, History!CloseProduct, History!CancelDelete,
       History!ConfirmDelete, History!PanelCall, HistoryFields, HistoryUi
<1>3. ASSUME NEW op, NEW m, net' = History!Sent(op, m)
      PROVE  /\ DOMAIN net' = DOMAIN net /\ net'.reads = net.reads /\ net'.late = net.late
             /\ net.calls \subseteq net'.calls
             /\ \A c \in net'.calls : HistoryCall(c)
  <2> DEFINE c == [n |-> net.ops, op |-> op, match |-> m, of |-> History!toApiFilters(ui),
                   left |-> FALSE, st |-> "sent"]
             n == History!Counted(net)
  <2>1. net' = [n EXCEPT !.calls = n.calls \cup {c}]
    BY <1>3 DEF History!Sent
  <2>2. HistoryCall(c)
    BY DEF HistoryCall
  <2>3. /\ DOMAIN n = DOMAIN net /\ n.reads = net.reads /\ n.late = net.late /\ n.calls = net.calls
    BY <1>1 DEF History!Counted, HistoryFields, HistoryNet
  <2> HIDE DEF c, n
  <2>4. /\ DOMAIN net' = DOMAIN net /\ net'.reads = net.reads /\ net'.late = net.late
        /\ net'.calls = net.calls \cup {c}
    BY <1>1, <2>1, <2>3 DEF HistoryFields, HistoryNet
  <2>5. QED
    BY <1>1, <2>2, <2>4 DEF HistoryFields
<1>4. /\ DOMAIN net' = DOMAIN net /\ net'.reads = net.reads /\ net'.late = net.late
      /\ net.calls \subseteq net'.calls
      /\ \A c \in net'.calls : HistoryCall(c)
  <2>1. CASE History!ConfirmDelete
    BY <1>3, <2>1 DEF History!ConfirmDelete
  <2>2. CASE \E op \in {"snooze", "target"} : History!PanelCall(op)
    BY <1>3, <2>2 DEF History!PanelCall
  <2>3. CASE \/ \E m \in Matches : History!OpenProduct(m) \/ History!AskDelete(m)
             \/ History!CloseProduct \/ History!CancelDelete
    <3>1. net' = net
      BY <2>3 DEF History!OpenProduct, History!AskDelete, History!CloseProduct, History!CancelDelete
    <3>2. QED
      BY <1>1, <3>1 DEF HistoryFields
  <2>4. QED
    BY <2>1, <2>2, <2>3
<1>5. HistoryFields(srv, ui', net')
  BY <1>1, <1>2, <1>4 DEF HistoryFields
<1>6. History!toApiFilters(ui') = History!toApiFilters(ui)
  BY <1>2 DEF History!toApiFilters
<1>7. QED
  BY <1>2, <1>4, <1>5, <1>6, HistoryBeside

\* A call moves on; a deletion that is made leaves its handler a read to ask.
LEMMA HistoryServes ==
  ASSUME HistoryFresh(srv, ui, net), NEW c \in net.calls,
         History!Serve(c) \/ History!ServeFails(c) \/ History!AwaitLookups(c)
  PROVE  HistoryFresh(srv', ui', net')
<1>1. /\ HistoryFields(srv, ui, net) /\ HistoryAsked(ui, net) /\ ui' = ui
      /\ HistoryCall(c) /\ c.left = FALSE
  BY DEF HistoryFresh, HistoryFields, HistoryCall, History!Serve, History!ServeFails, History!AwaitLookups
<1>2. ASSUME NEW st, NEW n, n = History!With(c, st)
      PROVE  /\ DOMAIN n = DOMAIN net /\ n.reads = net.reads /\ n.late = net.late
             /\ HistoryFields(srv, ui, n)
             /\ \E d \in n.calls : d.op = c.op /\ d.st = st
             /\ \A d \in net.calls \ {c} : d \in n.calls
  <2> DEFINE d == [c EXCEPT !.st = st]
  <2>1. n = [net EXCEPT !.calls = (net.calls \ {c}) \cup {d}]
    BY <1>2 DEF History!With
  <2>2. HistoryCall(d) /\ d.st = st /\ d.op = c.op
    BY <1>1 DEF HistoryCall
  <2> HIDE DEF d
  <2>3. /\ DOMAIN n = DOMAIN net /\ n.reads = net.reads /\ n.late = net.late
        /\ n.calls = (net.calls \ {c}) \cup {d}
    BY <1>1, <2>1 DEF HistoryFields, HistoryNet
  <2>4. HistoryFields(srv, ui, n)
    BY <1>1, <2>2, <2>3 DEF HistoryFields
  <2>5. QED
    BY <2>2, <2>3, <2>4
<1>3. CASE History!Serve(c) /\ c.op = "delete"
  <2>1. /\ srv' = [srv EXCEPT !.matches = srv.matches \ {c.match}]
        /\ \E st \in {"ok", "404"} : net' = History!With(c, st)
    BY <1>3 DEF History!Serve
  <2>2. DOMAIN srv' = DOMAIN srv
    BY <2>1
  <2>3. PICK st \in {"ok", "404"} : net' = History!With(c, st)
    BY <2>1
  <2>4. /\ DOMAIN net' = DOMAIN net /\ net'.reads = net.reads /\ net'.late = net.late
        /\ HistoryFields(srv, ui, net')
        /\ \E d \in net'.calls : d.op = c.op /\ d.st = st
    BY <1>2, <2>3
  <2>5. HistoryOwes(net')
    BY <1>3, <2>4 DEF HistoryOwes
  <2>6. HistoryFields(srv', ui, net')
    BY <2>2, <2>4 DEF HistoryFields
  <2>7. HistoryAsked(ui, net')
    BY <1>1, <2>4 DEF HistoryAsked
  <2>8. QED
    BY <1>1, <2>5, <2>6, <2>7 DEF HistoryFresh
<1>4. CASE (History!Serve(c) /\ c.op # "delete") \/ History!ServeFails(c) \/ History!AwaitLookups(c)
  <2>1. /\ srv' = srv /\ (c.op # "delete" \/ c.st = "sent")
        /\ \E st : net' = History!With(c, st)
    BY <1>4 DEF History!Serve, History!ServeFails, History!AwaitLookups
  <2>2. PICK st : net' = History!With(c, st)
    BY <2>1
  <2>3. /\ net'.reads = net.reads /\ net'.late = net.late
        /\ HistoryFields(srv, ui, net')
        /\ \A d \in net.calls \ {c} : d \in net'.calls
    BY <1>2, <2>2
  <2>4. \A d \in net.calls : d.op = "delete" /\ d.st \in {"ok", "404"} => d \in net'.calls
    BY <2>1, <2>3
  <2>5. HistoryFresh(srv, ui, net')
    BY <2>3, <2>4, HistoryBeside
  <2>6. QED
    BY <1>1, <2>1, <2>5
<1>5. QED
  BY <1>3, <1>4

\* The handler goes on: it asks again, or tells a failure.
LEMMA HistoryGoesOn ==
  ASSUME HistoryFresh(srv, ui, net), NEW c \in net.calls,
         History!AnswerPanelCall(c) \/ History!AnswerDelete(c) \/ History!AnswerFailure(c)
  PROVE  HistoryFresh(srv', ui', net')
<1> DEFINE n == History!Gone(c)
<1>1. HistoryFields(srv, ui, net) /\ srv' = srv
  BY DEF HistoryFresh, History!AnswerPanelCall, History!AnswerDelete, History!AnswerFailure
<1>2. /\ DOMAIN n = DOMAIN net /\ n.reads = net.reads /\ n.late = net.late
      /\ n.calls = net.calls \ {c}
  BY <1>1 DEF History!Gone, HistoryFields, HistoryNet
<1>3. HistoryFields(srv, ui, n)
  BY <1>1, <1>2 DEF HistoryFields
<1>4. CASE History!AnswerPanelCall(c)
  <2>1. /\ ui' = [ui EXCEPT !.loading = TRUE]
        /\ net' = [n EXCEPT !.reads = Demoted(n.reads) \cup
             {[of |-> c.of, has |-> Nothing, last |-> TRUE, here |-> c.of = History!toApiFilters(ui)]}]
    BY <1>4 DEF History!AnswerPanelCall, History!Loaded, Demoted
  <2> HIDE DEF n
  <2>2. HistoryFresh(srv, ui', net')
    BY <1>3, <2>1, HistoryAsks
  <2>3. QED
    BY <1>1, <2>2
<1>5. CASE History!AnswerDelete(c)
  <2> DEFINE u == [ui EXCEPT !.dialog = Nothing, !.busy = FALSE,
                             !.panel = IF ui.panel = c.match THEN Nothing ELSE ui.panel]
  <2>1. /\ ui' = [u EXCEPT !.loading = TRUE]
        /\ net' = [n EXCEPT !.reads = Demoted(n.reads) \cup
             {[of |-> c.of, has |-> Nothing, last |-> TRUE, here |-> c.of = History!toApiFilters(u)]}]
    BY <1>5 DEF History!AnswerDelete, History!Loaded, Demoted
  <2> HIDE DEF n
  <2>2. HistoryFields(srv, u, n)
    BY <1>3 DEF HistoryFields, HistoryUi
  <2> HIDE DEF u
  <2>3. HistoryFresh(srv, ui', net')
    BY <2>1, <2>2, HistoryAsks
  <2>4. QED
    BY <1>1, <2>3
<1>6. CASE History!AnswerFailure(c)
  <2>1. net' = n /\ c.st = "error"
    BY <1>6 DEF History!AnswerFailure
  <2> HIDE DEF n
  <2>2. /\ DOMAIN ui' = DOMAIN ui /\ ui'.form = ui.form /\ ui'.applied = ui.applied
        /\ ui'.stored = ui.stored /\ ui'.rows = ui.rows /\ ui'.error = ui.error
    BY <1>1, <1>6 DEF History!AnswerFailure, HistoryFields, HistoryUi
  <2>3. HistoryFields(srv, ui', n)
    BY <1>3, <2>2 DEF HistoryFields
  <2>4. History!toApiFilters(ui') = History!toApiFilters(ui)
    BY <2>2 DEF History!toApiFilters
  <2>5. \A d \in net.calls : d.op = "delete" /\ d.st \in {"ok", "404"} => d \in n.calls
    BY <1>2, <2>1
  <2>6. HistoryFresh(srv, ui', n)
    BY <1>2, <2>2, <2>3, <2>4, <2>5, HistoryBeside
  <2>7. QED
    BY <1>1, <2>1, <2>6
<1>7. QED
  BY <1>4, <1>5, <1>6

\* What is deleted elsewhere, or by a page that was left, is no debt of this one.
LEMMA HistoryElsewhere ==
  ASSUME HistoryFresh(srv, ui, net),
         \/ \E m \in srv.matches : History!OtherDelete(m)
         \/ \E c \in net.calls : History!ServeLeft(c)
  PROVE  HistoryFresh(srv', ui', net')
<1>1. /\ HistoryFields(srv, ui, net) /\ HistoryAsked(ui, net) /\ ui' = ui
  BY DEF HistoryFresh, History!OtherDelete, History!ServeLeft
<1>2. PICK m : srv' = [matches |-> srv.matches \ {m}, elsewhere |-> srv.elsewhere \cup {m}]
  BY DEF History!OtherDelete, History!ServeLeft
<1>3. /\ {"matches", "elsewhere"} \subseteq DOMAIN srv'
      /\ \A has : has \ srv.matches \subseteq srv.elsewhere => has \ srv'.matches \subseteq srv'.elsewhere
  BY <1>2
<1>4. /\ DOMAIN net' = DOMAIN net /\ net'.reads = net.reads /\ net'.late = net.late
      /\ net'.calls \subseteq net.calls
      /\ \A c \in net.calls : c.op = "delete" /\ c.st \in {"ok", "404"} => c \in net'.calls
  BY <1>1 DEF History!OtherDelete, History!ServeLeft, History!Gone, HistoryFields, HistoryCall, HistoryNet
<1>5. HistoryFields(srv', ui, net')
  BY <1>1, <1>3, <1>4 DEF HistoryFields
<1>6. HistoryAsked(ui, net')
  BY <1>1, <1>4 DEF HistoryAsked
<1>7. HistoryShows(srv, ui, net) => HistoryShows(srv', ui, net')
  BY <1>3, <1>4 DEF HistoryShows
<1>8. HistoryOwes(net) => HistoryOwes(net')
  BY <1>4 DEF HistoryOwes
<1>9. QED
  BY <1>1, <1>5, <1>6, <1>7, <1>8 DEF HistoryFresh

LEMMA NextHistory ==
  ASSUME HistoryFresh(srv, ui, net), [History!Next]_<<srv, ui, net>>
  PROVE  HistoryFresh(srv', ui', net')
<1>1. CASE UNCHANGED <<srv, ui, net>>
  BY <1>1
<1>2. CASE \/ History!ChangeField \/ History!ClearFilters \/ History!SearchTimer
           \/ History!Refresh \/ History!ComeBack
  BY ONLY <1>2, HistoryFresh(srv, ui, net), HistoryFilters
<1>3. CASE \E r \in net.reads : History!AnswerRead(r) \/ History!ShowRead(r) \/ History!FailRead(r)
  BY ONLY <1>3, HistoryFresh(srv, ui, net), HistoryReads
<1>4. CASE \/ \E m \in Matches : History!OpenProduct(m) \/ History!AskDelete(m)
           \/ History!CloseProduct \/ History!CancelDelete \/ History!ConfirmDelete
           \/ \E op \in {"snooze", "target"} : History!PanelCall(op)
  BY ONLY <1>4, HistoryFresh(srv, ui, net), HistoryClicks
<1>5. CASE \/ \E m \in srv.matches : History!OtherDelete(m)
           \/ \E c \in net.calls : History!ServeLeft(c)
  BY ONLY <1>5, HistoryFresh(srv, ui, net), HistoryElsewhere
<1>6. CASE \E c \in net.calls : History!Serve(c) \/ History!ServeFails(c) \/ History!AwaitLookups(c)
  BY ONLY <1>6, HistoryFresh(srv, ui, net), HistoryServes
<1>7. CASE \E c \in net.calls :
             History!AnswerPanelCall(c) \/ History!AnswerDelete(c) \/ History!AnswerFailure(c)
  BY ONLY <1>7, HistoryFresh(srv, ui, net), HistoryGoesOn
<1>8. QED
  BY <1>1, <1>2, <1>3, <1>4, <1>5, <1>6, <1>7 DEF History!Next

\* With nothing awaited there is no last read and no debt.
LEMMA HistoryShown == ASSUME HistoryFresh(srv, ui, net) PROVE History!RowsAreOfFilters
<1> SUFFICES ASSUME History!Quiet, ~net.late
             PROVE  ui.rows.of = ui.form /\ ui.rows.has \ srv.matches \subseteq srv.elsewhere
  BY DEF History!RowsAreOfFilters
<1>1. /\ net.reads = {} /\ net.calls = {} /\ ui.applied = ui.form.search
      /\ ui.error # TRUE /\ net.late # TRUE
  BY DEF History!Quiet
<1>2. LastOf(net.reads) = {} /\ ~HistoryOwes(net)
  BY <1>1 DEF LastOf, HistoryOwes
<1>3. /\ ui.rows.of = History!toApiFilters(ui)
      /\ ui.rows.has \ srv.matches \subseteq srv.elsewhere
  BY <1>1, <1>2 DEF HistoryFresh, HistoryAsked, HistoryShows
<1>4. History!toApiFilters(ui) = ui.form
  BY <1>1 DEF HistoryFresh, HistoryFields, IsForm, History!toApiFilters
<1>5. QED
  BY <1>3, <1>4
-----------------------------------------------------------------------------
(* The savings: the list and the report are two answers to one question.       *)

EconomyNet == {"reads", "calls", "titles", "late", "lost", "ops"}
EconomyOps == {"save", "delete", "goal", "noGoal"}
EconomyFields(s, u, n) ==
  /\ {"purchases", "goal"} \subseteq DOMAIN s
  /\ {"purchases", "report", "loading", "listError", "form", "formError", "submitting",
      "pendingDelete", "deleting", "goalDialog", "goalError", "goalSaving"} \subseteq DOMAIN u
  /\ EconomyNet \subseteq DOMAIN n
  /\ ReadsOk(n.reads, {"list", "report"})
  /\ \A c \in n.calls : {"op", "of", "st"} \subseteq DOMAIN c /\ c.op \in EconomyOps
\* A change that was made and whose handler goes on, or never learns of it.
EconomyOwes(n) == n.lost = TRUE \/ \E c \in n.calls : c.st = "ok"
ReportOf(s) == [items |-> s.purchases, goal |-> s.goal]
EconomyShows(s, u, n) ==
  /\ \A r \in LastOf(n.reads) : /\ r.list # Nothing => r.list.now = s.purchases
                                /\ r.report # Nothing => r.report = ReportOf(s)
  /\ LastOf(n.reads) = {} =>
       u.listError = TRUE \/ n.late = TRUE \/ (u.purchases = s.purchases /\ u.report = ReportOf(s))
EconomyFresh(s, u, n) == EconomyFields(s, u, n) /\ (EconomyOwes(n) \/ EconomyShows(s, u, n))

\* A page that asks again shows, in the end, what it is answered.
LEMMA EconomyAsks ==
  ASSUME NEW s, NEW u, NEW n, EconomyFields(s, u, n), NEW m, m = Economy!Reloaded(n)
  PROVE  EconomyFresh(s, u, m)
<1> DEFINE new == [last |-> TRUE, list |-> Nothing, report |-> Nothing]
<1>1. m = [n EXCEPT !.reads = Demoted(n.reads) \cup {new}]
  BY DEF Economy!Reloaded, Demoted
<1>2. /\ {"list", "report"} \cup {"last"} \subseteq DOMAIN new /\ new.last = TRUE
      /\ new.list = Nothing /\ new.report = Nothing
  OBVIOUS
<1> HIDE DEF new
<1>3. ReadsOk(n.reads, {"list", "report"})
  BY DEF EconomyFields
<1>4. /\ ReadsOk(Demoted(n.reads) \cup {new}, {"list", "report"})
      /\ LastOf(Demoted(n.reads) \cup {new}) = {new}
  BY <1>2, <1>3, AskedLast
<1>5. DOMAIN m = DOMAIN n /\ m.reads = Demoted(n.reads) \cup {new} /\ m.calls = n.calls
  BY <1>1 DEF EconomyFields, EconomyNet
<1>6. QED
  BY <1>2, <1>4, <1>5 DEF EconomyFresh, EconomyFields, EconomyShows

\* A step that moves neither the purchases nor the reads.
LEMMA EconomyBeside ==
  ASSUME NEW s, NEW u, NEW n, EconomyFresh(s, u, n), NEW v, NEW m, EconomyFields(s, v, m),
         v.purchases = u.purchases, v.report = u.report, u.listError = TRUE => v.listError = TRUE,
         m.reads = n.reads, m.late = n.late, m.lost = n.lost,
         \A c \in n.calls : c.st = "ok" => c \in m.calls
  PROVE  EconomyFresh(s, v, m)
BY DEF EconomyFresh, EconomyOwes, EconomyShows

LEMMA EconomyInit == ASSUME Economy!Init PROVE EconomyFresh(srv, ui, net)
<1>1. PICK n : /\ n = [reads |-> {}, calls |-> {}, titles |-> {}, late |-> FALSE, lost |-> FALSE, ops |-> 0]
               /\ net = Economy!Reloaded(n)
  BY DEF Economy!Init
<1>2. /\ {"purchases", "goal"} \subseteq DOMAIN srv
      /\ {"purchases", "report", "loading", "listError", "form", "formError", "submitting",
          "pendingDelete", "deleting", "goalDialog", "goalError", "goalSaving"} \subseteq DOMAIN ui
  BY DEF Economy!Init
<1>3. EconomyFields(srv, ui, n)
  BY <1>1, <1>2 DEF EconomyFields, EconomyNet, ReadsOk, LastOf
<1>4. QED
  BY <1>1, <1>3, EconomyAsks

\* One of the two requests of a read is answered; the read is shown, or lost.
LEMMA EconomyReads ==
  ASSUME EconomyFresh(srv, ui, net), NEW r \in net.reads,
         \/ Economy!AnswerList(r) \/ Economy!AnswerReport(r)
         \/ Economy!ShowRead(r) \/ Economy!FailRead(r)
  PROVE  EconomyFresh(srv', ui', net')
<1>1. EconomyFields(srv, ui, net)
  BY DEF EconomyFresh
<1>0. r \in net.reads /\ ReadsOk(net.reads, {"list", "report"})
  BY <1>1 DEF EconomyFields
<1>2. srv' = srv
  BY DEF Economy!AnswerList, Economy!AnswerReport, Economy!ShowRead, Economy!FailRead
<1>3. {"list", "report"} \cup {"last"} \subseteq DOMAIN r /\ r.last \in BOOLEAN
  BY <1>0 DEF ReadsOk
<1>4. CASE Economy!AnswerList(r) \/ Economy!AnswerReport(r)
  <2>1. PICK q : /\ \/ q = [r EXCEPT !.list = [now |-> srv.purchases]]
                    \/ q = [r EXCEPT !.report = ReportOf(srv)]
                 /\ net' = [net EXCEPT !.reads = (net.reads \ {r}) \cup {q}]
    BY <1>4 DEF Economy!AnswerList, Economy!AnswerReport, ReportOf
  <2>2. /\ {"list", "report"} \cup {"last"} \subseteq DOMAIN q /\ q.last = r.last
        /\ \/ q.list.now = srv.purchases /\ q.report = r.report
           \/ q.list = r.list /\ q.report = ReportOf(srv)
    BY <1>3, <2>1
  <2> DEFINE reads == (net.reads \ {r}) \cup {q}
  <2>3. /\ ReadsOk(reads, {"list", "report"})
        /\ r \in LastOf(net.reads) => LastOf(reads) = {q}
        /\ r \notin LastOf(net.reads) => LastOf(reads) = LastOf(net.reads)
    BY ONLY <1>0, <2>2, AnsweredLast
  <2>4. /\ DOMAIN net' = DOMAIN net /\ net'.reads = reads /\ net'.calls = net.calls
        /\ net'.late = net.late /\ net'.lost = net.lost
    BY <1>1, <2>1 DEF EconomyFields, EconomyNet
  <2> HIDE DEF reads
  <2>5. ui' = ui
    BY <1>4 DEF Economy!AnswerList, Economy!AnswerReport
  <2>6. EconomyFields(srv, ui, net')
    BY <1>1, <2>3, <2>4 DEF EconomyFields
  <2>7. EconomyShows(srv, ui, net) => EconomyShows(srv, ui, net')
    BY <2>2, <2>3, <2>4 DEF EconomyShows
  <2>8. QED
    BY <1>2, <2>4, <2>5, <2>6, <2>7 DEF EconomyFresh, EconomyOwes
<1>5. CASE Economy!ShowRead(r) \/ Economy!FailRead(r)
  <2> DEFINE reads == net.reads \ {r}
  <2>1. /\ ReadsOk(reads, {"list", "report"})
        /\ r \in LastOf(net.reads) => LastOf(reads) = {}
        /\ r \notin LastOf(net.reads) => LastOf(reads) = LastOf(net.reads)
    BY ONLY <1>0, EndedLast
  <2>2. /\ DOMAIN net' = DOMAIN net /\ net'.reads = reads /\ net'.calls = net.calls
        /\ net'.lost = net.lost
    BY <1>1, <1>5 DEF Economy!ShowRead, Economy!FailRead, EconomyFields, EconomyNet
  <2>3. /\ DOMAIN ui' = DOMAIN ui
        /\ \/ ui'.listError = TRUE
           \/ r \notin LastOf(net.reads) /\ net'.late = TRUE
           \/ /\ r \in LastOf(net.reads) /\ r.list # Nothing /\ r.report # Nothing
              /\ ui'.purchases = r.list.now /\ ui'.report = r.report
    <3>1. CASE Economy!ShowRead(r)
      <4>1. /\ DOMAIN ui' = DOMAIN ui /\ ui'.purchases = r.list.now /\ ui'.report = r.report
            /\ r.list # Nothing /\ r.report # Nothing
        BY <1>1, <3>1 DEF Economy!ShowRead, EconomyFields
      <4>2. net'.late = ~r.last
        BY <1>1, <3>1 DEF Economy!ShowRead, EconomyFields, EconomyNet
      <4>3. QED
        BY <1>3, <4>1, <4>2 DEF LastOf
    <3>2. CASE Economy!FailRead(r)
      BY <1>1, <3>2 DEF Economy!FailRead, EconomyFields
    <3>3. QED
      BY <1>5, <3>1, <3>2
  <2> HIDE DEF reads
  <2>4. EconomyFields(srv, ui', net')
    BY <1>1, <2>1, <2>2, <2>3 DEF EconomyFields
  <2>5. EconomyShows(srv, ui, net) => EconomyShows(srv, ui', net')
    BY <2>1, <2>2, <2>3 DEF EconomyShows
  <2>6. QED
    BY <1>2, <2>2, <2>4, <2>5 DEF EconomyFresh, EconomyOwes
<1>6. QED
  BY <1>4, <1>5

\* What the administrator does changes nothing before it is served.
LEMMA EconomyClicks ==
  ASSUME EconomyFresh(srv, ui, net),
         \/ Economy!OpenCreate \/ Economy!Type \/ Economy!CloseForm \/ Economy!SubmitForm
         \/ \E i \in Purchases : Economy!OpenEdit(i) \/ Economy!AskDelete(i)
         \/ \E i \in net.titles, ok \in BOOLEAN : Economy!AnswerTitle(i, ok)
         \/ Economy!CancelDelete \/ Economy!ConfirmDelete \/ Economy!OpenGoal \/ Economy!CloseGoal
         \/ \E op \in {"goal", "noGoal"} : Economy!SubmitGoal(op)
  PROVE  EconomyFresh(srv', ui', net')
<1>1. EconomyFields(srv, ui, net)
  BY DEF EconomyFresh
<1>2. ASSUME NEW op \in EconomyOps, NEW of, net' = Economy!Sent(op, of)
      PROVE  /\ DOMAIN net' = DOMAIN net /\ net'.reads = net.reads /\ net'.late = net.late
             /\ net'.lost = net.lost /\ net.calls \subseteq net'.calls
             /\ \A c \in net'.calls : {"op", "of", "st"} \subseteq DOMAIN c /\ c.op \in EconomyOps
  <2> DEFINE c == [n |-> net.ops, op |-> op, of |-> of, st |-> "sent"]
  <2>1. PICK n : n = [net EXCEPT !.ops = @ + 1] /\ net' = [n EXCEPT !.calls = n.calls \cup {c}]
    BY <1>2 DEF Economy!Sent, Economy!Counted
  <2>2. {"op", "of", "st"} \subseteq DOMAIN c /\ c.op \in EconomyOps
    OBVIOUS
  <2> HIDE DEF c
  <2>3. /\ DOMAIN n = DOMAIN net /\ n.reads = net.reads /\ n.late = net.late
        /\ n.lost = net.lost /\ n.calls = net.calls
    BY <1>1, <2>1 DEF EconomyFields, EconomyNet
  <2>4. /\ DOMAIN net' = DOMAIN net /\ net'.reads = net.reads /\ net'.late = net.late
        /\ net'.lost = net.lost /\ net'.calls = net.calls \cup {c}
    BY <1>1, <2>1, <2>3 DEF EconomyFields, EconomyNet
  <2>5. QED
    BY <1>1, <2>2, <2>4 DEF EconomyFields
<1>3. /\ srv' = srv /\ DOMAIN ui' = DOMAIN ui /\ ui'.purchases = ui.purchases
      /\ ui'.report = ui.report /\ ui'.listError = ui.listError
  <2>1. CASE \/ Economy!OpenCreate \/ Economy!Type \/ Economy!CloseForm \/ Economy!SubmitForm
             \/ \E i \in Purchases : Economy!OpenEdit(i) \/ Economy!AskDelete(i)
    BY <1>1, <2>1 DEF Economy!OpenCreate, Economy!Type, Economy!CloseForm, Economy!SubmitForm,
         Economy!OpenEdit, Economy!AskDelete, EconomyFields
  <2>2. CASE \E i \in net.titles, ok \in BOOLEAN : Economy!AnswerTitle(i, ok)
    BY <1>1, <2>2 DEF Economy!AnswerTitle, EconomyFields
  <2>3. CASE \/ Economy!CancelDelete \/ Economy!ConfirmDelete \/ Economy!OpenGoal \/ Economy!CloseGoal
             \/ \E op \in {"goal", "noGoal"} : Economy!SubmitGoal(op)
    BY <1>1, <2>3 DEF Economy!CancelDelete, Economy!ConfirmDelete, Economy!OpenGoal,
         Economy!CloseGoal, Economy!SubmitGoal, EconomyFields
  <2>4. QED
    BY <2>1, <2>2, <2>3
<1>4. /\ DOMAIN net' = DOMAIN net /\ net'.reads = net.reads /\ net'.late = net.late
      /\ net'.lost = net.lost /\ net.calls \subseteq net'.calls
      /\ \A c \in net'.calls : {"op", "of", "st"} \subseteq DOMAIN c /\ c.op \in EconomyOps
  <2>1. CASE \/ Economy!SubmitForm \/ Economy!ConfirmDelete
             \/ \E op \in {"goal", "noGoal"} : Economy!SubmitGoal(op)
    BY <1>2, <2>1 DEF Economy!SubmitForm, Economy!ConfirmDelete, Economy!SubmitGoal, EconomyOps
  <2>2. CASE \/ Economy!Type \/ Economy!CloseForm \/ Economy!CancelDelete \/ Economy!OpenGoal
             \/ Economy!CloseGoal \/ \E i \in Purchases : Economy!AskDelete(i)
    BY <1>1, <2>2 DEF Economy!Type, Economy!CloseForm, Economy!CancelDelete, Economy!OpenGoal,
         Economy!CloseGoal, Economy!AskDelete, EconomyFields
  <2>3. CASE \/ Economy!OpenCreate \/ \E i \in Purchases : Economy!OpenEdit(i)
             \/ \E i \in net.titles, ok \in BOOLEAN : Economy!AnswerTitle(i, ok)
    <3>1. PICK n, t : /\ n = net \/ n = [net EXCEPT !.ops = @ + 1]
                      /\ net' = n \/ net' = [n EXCEPT !.titles = t]
      BY <2>3 DEF Economy!OpenCreate, Economy!OpenEdit, Economy!AnswerTitle, Economy!Counted
    <3>2. /\ DOMAIN n = DOMAIN net /\ n.reads = net.reads /\ n.late = net.late
          /\ n.lost = net.lost /\ n.calls = net.calls
      BY <1>1, <3>1 DEF EconomyFields, EconomyNet
    <3>3. QED
      BY <1>1, <3>1, <3>2 DEF EconomyFields, EconomyNet
  <2>4. QED
    BY <2>1, <2>2, <2>3
<1>5. EconomyFields(srv, ui', net')
  BY <1>1, <1>3, <1>4 DEF EconomyFields
<1>6. QED
  BY <1>3, <1>4, <1>5, EconomyBeside

\* A call is served; or it fails, and nobody may know that it was served.
LEMMA EconomyServes ==
  ASSUME EconomyFresh(srv, ui, net), NEW c \in net.calls, Economy!Serve(c) \/ Economy!ServeFails(c)
  PROVE  EconomyFresh(srv', ui', net')
<1>1. /\ EconomyFields(srv, ui, net) /\ {"op", "of", "st"} \subseteq DOMAIN c
      /\ c.op \in EconomyOps /\ ui' = ui /\ c.st = "sent"
  BY DEF EconomyFresh, EconomyFields, Economy!Serve, Economy!ServeFails
<1>2. ASSUME NEW st, NEW n, n = Economy!With(c, st)
      PROVE  /\ DOMAIN n = DOMAIN net /\ n.reads = net.reads /\ n.late = net.late /\ n.lost = net.lost
             /\ EconomyFields(srv, ui, n)
             /\ \E d \in n.calls : d.st = st
             /\ \A d \in net.calls : d.st = "ok" => d \in n.calls
  <2> DEFINE d == [c EXCEPT !.st = st]
  <2>1. n = [net EXCEPT !.calls = (net.calls \ {c}) \cup {d}]
    BY <1>2 DEF Economy!With
  <2>2. {"op", "of", "st"} \subseteq DOMAIN d /\ d.st = st /\ d.op \in EconomyOps
    BY <1>1
  <2> HIDE DEF d
  <2>3. /\ DOMAIN n = DOMAIN net /\ n.reads = net.reads /\ n.late = net.late /\ n.lost = net.lost
        /\ n.calls = (net.calls \ {c}) \cup {d}
    BY <1>1, <2>1 DEF EconomyFields, EconomyNet
  <2>4. EconomyFields(srv, ui, n)
    BY <1>1, <2>2, <2>3 DEF EconomyFields
  <2>5. QED
    BY <1>1, <2>2, <2>3, <2>4
<1>3. ASSUME srv' \in Economy!Served(c) PROVE {"purchases", "goal"} \subseteq DOMAIN srv'
  <2>1. CASE c.op = "goal" \/ c.op = "noGoal"
    BY <1>1, <1>3, <2>1 DEF Economy!Served, EconomyFields
  <2>2. CASE c.op = "delete"
    BY <1>1, <1>3, <2>2 DEF Economy!Served, EconomyFields
  <2>3. CASE c.op = "save" /\ c.of = Economy!Create
    BY <1>1, <1>3, <2>3 DEF Economy!Served, EconomyFields
  <2>4. CASE c.op = "save" /\ c.of # Economy!Create
    <3>1. srv' = [srv EXCEPT !.purchases[c.of] = @ + 1]
      BY <1>3, <2>4 DEF Economy!Served
    <3>2. QED
      BY <1>1, <3>1 DEF EconomyFields
  <2>5. QED
    BY <1>1, <2>1, <2>2, <2>3, <2>4 DEF EconomyOps
<1>4. CASE srv' = srv /\ net' = Economy!With(c, "error")
  <2>1. /\ EconomyFields(srv, ui, net') /\ net'.reads = net.reads /\ net'.late = net.late
        /\ net'.lost = net.lost /\ \A d \in net.calls : d.st = "ok" => d \in net'.calls
    BY <1>2, <1>4
  <2>2. EconomyFresh(srv, ui, net')
    BY <2>1, EconomyBeside
  <2>3. QED
    BY <1>1, <1>4, <2>2
<1>5. CASE srv' \in Economy!Served(c) /\ \E n : /\ n = Economy!With(c, "ok") \/ n = Economy!With(c, "error")
                                              /\ \/ n = Economy!With(c, "ok") /\ net' = n
                                                 \/ net' = [n EXCEPT !.lost = TRUE]
  <2>1. PICK n : /\ n = Economy!With(c, "ok") \/ n = Economy!With(c, "error")
                 /\ \/ n = Economy!With(c, "ok") /\ net' = n
                    \/ net' = [n EXCEPT !.lost = TRUE]
    BY <1>5
  <2>2. EconomyFields(srv, ui, n) /\ (n = Economy!With(c, "ok") => \E d \in n.calls : d.st = "ok")
    BY <1>2, <2>1
  <2>3. /\ DOMAIN net' = DOMAIN n /\ net'.reads = n.reads /\ net'.calls = n.calls
        /\ EconomyOwes(net')
    BY <2>1, <2>2 DEF EconomyFields, EconomyNet, EconomyOwes
  <2>4. EconomyFields(srv', ui, net')
    BY <1>3, <1>5, <2>2, <2>3 DEF EconomyFields
  <2>5. QED
    BY <1>1, <2>3, <2>4 DEF EconomyFresh
<1>6. QED
  BY <1>4, <1>5 DEF Economy!Serve, Economy!ServeFails

\* The handler goes on: it asks again, or tells a failure.
LEMMA EconomyGoesOn ==
  ASSUME EconomyFresh(srv, ui, net), NEW c \in net.calls, Economy!Answer(c) \/ Economy!AnswerFailure(c)
  PROVE  EconomyFresh(srv', ui', net')
<1> DEFINE n == Economy!Gone(c)
<1>1. EconomyFields(srv, ui, net) /\ c.op \in EconomyOps
  BY DEF EconomyFresh, EconomyFields
<1>2. srv' = srv
  BY DEF Economy!Answer, Economy!AnswerFailure
<1>3. /\ DOMAIN n = DOMAIN net /\ n.reads = net.reads /\ n.late = net.late /\ n.lost = net.lost
      /\ n.calls = net.calls \ {c}
  BY <1>1 DEF Economy!Gone, EconomyFields, EconomyNet
<1>4. /\ DOMAIN ui' = DOMAIN ui /\ ui'.purchases = ui.purchases /\ ui'.report = ui.report
      /\ ui.listError = TRUE => ui'.listError = TRUE
  <2>1. CASE Economy!Answer(c)
    BY <1>1, <2>1 DEF Economy!Answer, Economy!Closed, EconomyFields, EconomyOps
  <2>2. CASE Economy!AnswerFailure(c)
    BY <1>1, <2>2 DEF Economy!AnswerFailure, EconomyFields, EconomyOps
  <2>3. QED
    BY <2>1, <2>2
<1>5. EconomyFields(srv, ui', n)
  BY <1>1, <1>3, <1>4 DEF EconomyFields
<1>6. CASE Economy!Answer(c)
  <2>1. net' = Economy!Reloaded(n)
    BY <1>6 DEF Economy!Answer
  <2> HIDE DEF n
  <2>2. EconomyFresh(srv, ui', net')
    BY <1>5, <2>1, EconomyAsks
  <2>3. QED
    BY <1>2, <2>2
<1>7. CASE Economy!AnswerFailure(c)
  <2>1. net' = n /\ c.st # "ok"
    BY <1>7 DEF Economy!AnswerFailure
  <2> HIDE DEF n
  <2>2. EconomyFresh(srv, ui', net')
    BY <1>3, <1>4, <1>5, <2>1, EconomyBeside
  <2>3. QED
    BY <1>2, <2>2
<1>8. QED
  BY <1>6, <1>7

LEMMA NextEconomy ==
  ASSUME EconomyFresh(srv, ui, net), [Economy!Next]_<<srv, ui, net>> PROVE EconomyFresh(srv', ui', net')
<1>1. CASE UNCHANGED <<srv, ui, net>>
  BY <1>1
<1>2. CASE Economy!Next
  BY <1>2, EconomyReads, EconomyClicks, EconomyServes, EconomyGoesOn DEF Economy!Next
<1>3. QED
  BY <1>1, <1>2

\* With nothing awaited, the list and the report are the api's.
LEMMA EconomyShown == ASSUME EconomyFresh(srv, ui, net) PROVE Economy!ReportIsCurrent
<1>1. ASSUME Economy!Quiet, ~net.late, ~net.lost
      PROVE  ui.purchases = srv.purchases /\ ui.report = ReportOf(srv)
  BY <1>1 DEF Economy!Quiet, LastOf, EconomyFresh, EconomyOwes, EconomyShows
<1>2. QED
  BY <1>1 DEF Economy!ReportIsCurrent, ReportOf

-----------------------------------------------------------------------------
(* The wizard: an answer that was not overtaken is at least as new as any of a  *)
(* call of the page's own that was applied.                                     *)

WizardUi == {"status", "chosen", "busy", "confirm", "editing", "error", "applied"}
WizardNet == {"calls", "polls", "ops", "late"}
\* A view the api gave: of some version up to the one it is at.
ViewOf(s, view) == "version" \in DOMAIN view /\ view.version \in Nat /\ view.version <= s.version
NotBehind(s, u, a) ==
  /\ {"view", "stale"} \subseteq DOMAIN a
  /\ a.view = Nothing \/ ViewOf(s, a.view)
  /\ a.view # Nothing /\ ~a.stale => a.view.version >= u.applied
WizardFresh(s, u, n) ==
  /\ {"done", "login", "version"} \subseteq DOMAIN s /\ s.version \in Nat
  /\ WizardUi \subseteq DOMAIN u /\ WizardNet \subseteq DOMAIN n
  /\ u.applied \in Nat /\ u.applied <= s.version
  /\ \A c \in n.calls : /\ {"n", "kind", "st"} \subseteq DOMAIN c /\ c.kind \in Wizard!Kinds
                        /\ c.st = "ok" => ViewOf(s, c.view)
                        /\ NotBehind(s, u, c)
  /\ \A p \in n.polls : NotBehind(s, u, p)
  /\ u.status # Nothing /\ ~n.late => u.status.version >= u.applied

LEMMA WizardInit == ASSUME Wizard!Init PROVE WizardFresh(srv, ui, net)
<1> DEFINE p == [view |-> Nothing, stale |-> FALSE]
<1>1. /\ {"done", "login", "version"} \subseteq DOMAIN srv /\ srv.version = 0
      /\ WizardUi \subseteq DOMAIN ui /\ ui.status = Nothing /\ ui.applied = 0
      /\ WizardNet \subseteq DOMAIN net /\ net.calls = {} /\ net.polls = {p}
  BY DEF Wizard!Init, WizardUi, WizardNet
<1>2. {"view", "stale"} \subseteq DOMAIN p /\ p.view = Nothing
  OBVIOUS
<1> HIDE DEF p
<1>3. QED
  BY <1>1, <1>2 DEF WizardFresh, NotBehind

\* A step of the page that moves neither the status nor what was applied.
LEMMA WizardBeside ==
  ASSUME WizardFresh(srv, ui, net), srv' = srv,
         WizardUi \subseteq DOMAIN ui', ui'.status = ui.status, ui'.applied = ui.applied,
         WizardNet \subseteq DOMAIN net', net'.late = net.late,
         \A c \in net'.calls \ net.calls :
            /\ {"n", "kind", "st"} \subseteq DOMAIN c /\ c.kind \in Wizard!Kinds
            /\ c.st = "ok" => ViewOf(srv, c.view)
            /\ NotBehind(srv, ui, c),
         \A p \in net'.polls \ net.polls : NotBehind(srv, ui, p)
  PROVE  WizardFresh(srv', ui', net')
BY DEF WizardFresh, NotBehind

\* What a step keeps of the page it is closed on.
LEMMA WizardRemounted ==
  ASSUME NEW u, WizardUi \subseteq DOMAIN u, NEW v, v = Wizard!Remounted(u)
  PROVE  /\ WizardUi \subseteq DOMAIN v /\ v.status = u.status /\ v.applied = u.applied
BY DEF Wizard!Remounted, WizardUi

LEMMA WizardClicks ==
  ASSUME WizardFresh(srv, ui, net),
         \/ \E step \in Wizard!Steps : Wizard!Toggle(step)
         \/ Wizard!Edit \/ Wizard!ConfirmDisconnect \/ Wizard!AskStatus
         \/ \E kind \in Wizard!Kinds : Wizard!Run(kind)
  PROVE  WizardFresh(srv', ui', net')
<1>1. WizardUi \subseteq DOMAIN ui /\ WizardNet \subseteq DOMAIN net
  BY DEF WizardFresh
<1>2. ASSUME NEW step, Wizard!Toggle(step) PROVE WizardFresh(srv', ui', net')
  <2>1. PICK x : ui' = Wizard!Remounted([ui EXCEPT !.chosen = x]) /\ srv' = srv /\ net' = net
    BY <1>2 DEF Wizard!Toggle
  <2> DEFINE u == [ui EXCEPT !.chosen = x]
  <2>2. WizardUi \subseteq DOMAIN u /\ u.status = ui.status /\ u.applied = ui.applied
    BY <1>1 DEF WizardUi
  <2>3. ui' = Wizard!Remounted(u)
    BY <2>1
  <2> HIDE DEF u
  <2>4. WizardUi \subseteq DOMAIN ui' /\ ui'.status = ui.status /\ ui'.applied = ui.applied
    BY <2>2, <2>3, WizardRemounted
  <2>5. QED
    BY <1>1, <2>1, <2>4, WizardBeside
<1>3. CASE Wizard!Edit \/ Wizard!ConfirmDisconnect
  <2>1. /\ WizardUi \subseteq DOMAIN ui' /\ ui'.status = ui.status /\ ui'.applied = ui.applied
        /\ srv' = srv /\ net' = net
    BY <1>1, <1>3 DEF Wizard!Edit, Wizard!ConfirmDisconnect, WizardUi
  <2>2. QED
    BY <1>1, <2>1, WizardBeside
<1>4. CASE Wizard!AskStatus
  <2> DEFINE p == [view |-> Nothing, stale |-> FALSE]
  <2>1. srv' = srv /\ ui' = ui /\ net' = [net EXCEPT !.polls = net.polls \cup {p}]
    BY <1>4 DEF Wizard!AskStatus
  <2>2. NotBehind(srv, ui, p)
    BY DEF NotBehind
  <2> HIDE DEF p
  <2>3. /\ WizardNet \subseteq DOMAIN net' /\ net'.late = net.late /\ net'.calls = net.calls
        /\ net'.polls = net.polls \cup {p}
    BY <1>1, <2>1 DEF WizardNet
  <2>4. QED
    BY <1>1, <2>1, <2>2, <2>3, WizardBeside
<1>5. ASSUME NEW kind \in Wizard!Kinds, Wizard!Run(kind) PROVE WizardFresh(srv', ui', net')
  <2> DEFINE c == [n |-> net.ops, kind |-> kind, st |-> "sent", view |-> Nothing, stale |-> FALSE]
  <2>1. /\ srv' = srv /\ ui' = [ui EXCEPT !.busy = TRUE, !.error = FALSE]
        /\ net' = [net EXCEPT !.ops = net.ops + 1, !.calls = net.calls \cup {c}]
    BY <1>5 DEF Wizard!Run
  <2>2. /\ {"n", "kind", "st"} \subseteq DOMAIN c /\ c.kind \in Wizard!Kinds /\ c.st # "ok"
        /\ NotBehind(srv, ui, c)
    BY DEF NotBehind
  <2> HIDE DEF c
  <2>3. /\ WizardNet \subseteq DOMAIN net' /\ net'.late = net.late /\ net'.polls = net.polls
        /\ net'.calls = net.calls \cup {c}
    BY <1>1, <2>1 DEF WizardNet
  <2>4. WizardUi \subseteq DOMAIN ui' /\ ui'.status = ui.status /\ ui'.applied = ui.applied
    BY <1>1, <2>1 DEF WizardUi
  <2>5. QED
    BY <1>1, <2>1, <2>2, <2>3, <2>4, WizardBeside
<1>6. QED
  BY <1>2, <1>3, <1>4, <1>5

\* What a call of the page's own was answered is shown; answers from before are overtaken.
LEMMA WizardAnswers ==
  ASSUME WizardFresh(srv, ui, net), NEW c \in net.calls, Wizard!Answer(c)
  PROVE  WizardFresh(srv', ui', net')
<1> DEFINE w == [ui EXCEPT !.busy = FALSE, !.confirm = FALSE, !.editing = FALSE]
           u == Wizard!HandleStatus(w, c.view)
           v == Wizard!Remounted(u)
<1>1. /\ WizardUi \subseteq DOMAIN ui /\ WizardNet \subseteq DOMAIN net /\ srv' = srv
      /\ {"n", "kind", "st"} \subseteq DOMAIN c
      /\ srv.version \in Nat /\ ui.applied \in Nat /\ ui.applied <= srv.version
      /\ NotBehind(srv, ui, c) /\ ViewOf(srv, c.view)
  BY DEF WizardFresh, Wizard!Answer
<1>2. WizardUi \subseteq DOMAIN w /\ w.status = ui.status /\ w.applied = ui.applied
  BY <1>1 DEF WizardUi
<1>3. WizardUi \subseteq DOMAIN u /\ u.status = c.view /\ u.applied = ui.applied
  BY <1>2 DEF Wizard!HandleStatus, WizardUi
<1>4. ui' = [v EXCEPT !.applied = IF c.view.version > v.applied THEN c.view.version ELSE v.applied]
  BY DEF Wizard!Answer
<1> HIDE DEF w, u
<1>5. WizardUi \subseteq DOMAIN v /\ v.status = c.view /\ v.applied = ui.applied
  BY <1>3, WizardRemounted
<1> HIDE DEF v
<1>6. /\ WizardUi \subseteq DOMAIN ui' /\ ui'.status = c.view
      /\ ui'.applied = IF c.view.version > ui.applied THEN c.view.version ELSE ui.applied
  BY <1>4, <1>5 DEF WizardUi
<1>7. /\ ui'.applied \in Nat /\ ui'.applied <= srv.version
      /\ c.view # Nothing /\ ~c.stale => c.view.version >= ui'.applied
  BY <1>1, <1>6 DEF ViewOf, NotBehind
<1>8. /\ WizardNet \subseteq DOMAIN net' /\ net'.late = c.stale
      /\ net'.calls = Wizard!Overtaken(net.calls \ {c}) /\ net'.polls = Wizard!Overtaken(net.polls)
  BY <1>1 DEF Wizard!Answer, WizardNet
<1>9. ASSUME NEW answers, NEW a \in Wizard!Overtaken(answers)
      PROVE  \E b \in answers : a = [b EXCEPT !.stale = b.view # Nothing]
  BY <1>9 DEF Wizard!Overtaken
<1>10. ASSUME NEW b, NEW a, NotBehind(srv, ui, b), a = [b EXCEPT !.stale = b.view # Nothing]
       PROVE  NotBehind(srv, ui', a) /\ DOMAIN a = DOMAIN b /\ a.view = b.view
  <2>1. DOMAIN a = DOMAIN b /\ a.view = b.view /\ a.stale = (b.view # Nothing)
    BY <1>10 DEF NotBehind
  <2>2. QED
    BY <1>10, <2>1 DEF NotBehind
<1>11. ASSUME NEW a \in net'.calls
       PROVE  /\ {"n", "kind", "st"} \subseteq DOMAIN a /\ a.kind \in Wizard!Kinds
              /\ a.st = "ok" => ViewOf(srv, a.view)
              /\ NotBehind(srv, ui', a)
  <2>1. PICK b \in net.calls : a = [b EXCEPT !.stale = b.view # Nothing]
    BY <1>8, <1>9
  <2>2. /\ {"n", "kind", "st"} \subseteq DOMAIN b /\ b.kind \in Wizard!Kinds
        /\ b.st = "ok" => ViewOf(srv, b.view)
        /\ NotBehind(srv, ui, b)
    BY DEF WizardFresh
  <2>3. NotBehind(srv, ui', a) /\ DOMAIN a = DOMAIN b /\ a.view = b.view
    BY <1>10, <2>1, <2>2
  <2>4. a.kind = b.kind /\ a.st = b.st
    BY <2>1, <2>2
  <2>5. QED
    BY <2>2, <2>3, <2>4
<1>12. ASSUME NEW a \in net'.polls PROVE NotBehind(srv, ui', a)
  <2>1. PICK b \in net.polls : a = [b EXCEPT !.stale = b.view # Nothing]
    BY <1>8, <1>9
  <2>2. NotBehind(srv, ui, b)
    BY DEF WizardFresh
  <2>3. QED
    BY <1>10, <2>1, <2>2
<1>13. {"done", "login", "version"} \subseteq DOMAIN srv
  BY DEF WizardFresh
<1>14. ui'.status # Nothing /\ ~net'.late => ui'.status.version >= ui'.applied
  BY <1>6, <1>7, <1>8
<1>15. QED
  BY <1>1, <1>6, <1>7, <1>8, <1>11, <1>12, <1>13, <1>14 DEF WizardFresh

LEMMA WizardRules ==
  ASSUME WizardFresh(srv, ui, net), NEW c \in net.calls,
         \/ Wizard!RuleCreated(c) \/ Wizard!Fail(c)
         \/ \E ok \in BOOLEAN : Wizard!RuleApplied(c, ok)
  PROVE  WizardFresh(srv', ui', net')
<1>1. /\ WizardUi \subseteq DOMAIN ui /\ WizardNet \subseteq DOMAIN net /\ srv' = srv
      /\ {"n", "kind", "st"} \subseteq DOMAIN c /\ c.kind \in Wizard!Kinds
      /\ NotBehind(srv, ui, c)
  BY DEF WizardFresh, Wizard!RuleCreated, Wizard!Fail, Wizard!RuleApplied
<1>2. WizardUi \subseteq DOMAIN ui' /\ ui'.status = ui.status /\ ui'.applied = ui.applied
  <2>1. CASE Wizard!RuleCreated(c) \/ Wizard!Fail(c)
    BY <1>1, <2>1 DEF Wizard!RuleCreated, Wizard!Fail, WizardUi
  <2>2. CASE \E ok \in BOOLEAN : Wizard!RuleApplied(c, ok)
    BY <1>1, <2>2 DEF Wizard!RuleApplied, WizardUi
  <2>3. QED
    BY <2>1, <2>2
<1>3. CASE Wizard!RuleCreated(c)
  <2> DEFINE d == [c EXCEPT !.st = "reload"]
  <2>1. net' = [net EXCEPT !.calls = (net.calls \ {c}) \cup {d}]
    BY <1>3 DEF Wizard!RuleCreated
  <2>2. /\ {"n", "kind", "st"} \subseteq DOMAIN d /\ d.kind \in Wizard!Kinds /\ d.st # "ok"
        /\ NotBehind(srv, ui, d)
    BY <1>1 DEF NotBehind
  <2> HIDE DEF d
  <2>3. /\ WizardNet \subseteq DOMAIN net' /\ net'.late = net.late /\ net'.polls = net.polls
        /\ net'.calls = (net.calls \ {c}) \cup {d}
    BY <1>1, <2>1 DEF WizardNet
  <2>4. QED
    BY <1>1, <1>2, <2>2, <2>3, WizardBeside
<1>4. CASE Wizard!Fail(c)
  <2>1. /\ WizardNet \subseteq DOMAIN net' /\ net'.late = net.late /\ net'.polls = net.polls
        /\ net'.calls = net.calls \ {c}
    BY <1>1, <1>4 DEF Wizard!Fail, WizardNet
  <2>2. QED
    BY <1>1, <1>2, <2>1, WizardBeside
<1>5. CASE \E ok \in BOOLEAN : Wizard!RuleApplied(c, ok)
  <2> DEFINE p == [view |-> Nothing, stale |-> FALSE]
  <2>1. net' = [net EXCEPT !.calls = net.calls \ {c}, !.polls = net.polls \cup {p}]
    BY <1>5 DEF Wizard!RuleApplied
  <2>2. NotBehind(srv, ui, p)
    BY DEF NotBehind
  <2> HIDE DEF p
  <2>3. /\ WizardNet \subseteq DOMAIN net' /\ net'.late = net.late /\ net'.polls = net.polls \cup {p}
        /\ net'.calls = net.calls \ {c}
    BY <1>1, <2>1 DEF WizardNet
  <2>4. QED
    BY <1>1, <1>2, <2>2, <2>3, WizardBeside
<1>6. QED
  BY <1>3, <1>4, <1>5

\* The status is read, and what is read is shown.
LEMMA WizardPolls ==
  ASSUME WizardFresh(srv, ui, net), NEW p \in net.polls,
         Wizard!ServeStatus(p) \/ Wizard!ShowStatus(p) \/ Wizard!FailStatus(p)
  PROVE  WizardFresh(srv', ui', net')
<1>1. /\ WizardUi \subseteq DOMAIN ui /\ WizardNet \subseteq DOMAIN net /\ srv' = srv
      /\ NotBehind(srv, ui, p)
      /\ srv.version \in Nat /\ ui.applied \in Nat /\ ui.applied <= srv.version
  BY DEF WizardFresh, Wizard!ServeStatus, Wizard!ShowStatus, Wizard!FailStatus
<1>2. CASE Wizard!ServeStatus(p)
  <2> DEFINE q == [p EXCEPT !.view = Wizard!View(srv)]
  <2>1. net' = [net EXCEPT !.polls = (net.polls \ {p}) \cup {q}] /\ ui' = ui
    BY <1>2 DEF Wizard!ServeStatus
  <2>2. ViewOf(srv, Wizard!View(srv)) /\ Wizard!View(srv).version = srv.version
    BY <1>1 DEF ViewOf, Wizard!View
  <2>3. {"view", "stale"} \subseteq DOMAIN q /\ q.view = Wizard!View(srv) /\ q.stale = p.stale
    BY <1>1 DEF NotBehind
  <2> HIDE DEF q
  <2>4. NotBehind(srv, ui, q)
    BY <1>1, <2>2, <2>3 DEF NotBehind
  <2>5. /\ WizardNet \subseteq DOMAIN net' /\ net'.late = net.late /\ net'.calls = net.calls
        /\ net'.polls = (net.polls \ {p}) \cup {q}
    BY <1>1, <2>1 DEF WizardNet
  <2>6. QED
    BY <1>1, <2>1, <2>4, <2>5, WizardBeside
<1>3. CASE Wizard!ShowStatus(p)
  <2> DEFINE u == [ui EXCEPT !.status = p.view]
  <2>1. ui' = Wizard!Remounted(u) /\ p.view # Nothing
    BY <1>3 DEF Wizard!ShowStatus
  <2>2. WizardUi \subseteq DOMAIN u /\ u.status = p.view /\ u.applied = ui.applied
    BY <1>1 DEF WizardUi
  <2> HIDE DEF u
  <2>3. WizardUi \subseteq DOMAIN ui' /\ ui'.status = p.view /\ ui'.applied = ui.applied
    BY <2>1, <2>2, WizardRemounted
  <2>4. /\ WizardNet \subseteq DOMAIN net' /\ net'.late = p.stale /\ net'.calls = net.calls
        /\ net'.polls = net.polls \ {p}
    BY <1>1, <1>3 DEF Wizard!ShowStatus, WizardNet
  <2>5. ~net'.late => ui'.status.version >= ui'.applied
    BY <1>1, <2>1, <2>3, <2>4 DEF NotBehind
  <2>6. QED
    BY <1>1, <2>3, <2>4, <2>5 DEF WizardFresh, NotBehind
<1>4. CASE Wizard!FailStatus(p)
  <2>1. /\ WizardNet \subseteq DOMAIN net' /\ net'.late = net.late /\ net'.calls = net.calls
        /\ net'.polls = net.polls \ {p} /\ ui' = ui
    BY <1>1, <1>4 DEF Wizard!FailStatus, WizardNet
  <2>2. QED
    BY <1>1, <2>1, WizardBeside
<1>5. QED
  BY <1>2, <1>3, <1>4

\* What happens on the server makes its status a newer one.
LEMMA WizardNewer ==
  ASSUME NEW s, {"done", "login", "version"} \subseteq DOMAIN s, s.version = srv.version,
         srv.version \in Nat, srv' = [s EXCEPT !.version = s.version + 1]
  PROVE  /\ {"done", "login", "version"} \subseteq DOMAIN srv' /\ srv'.version = srv.version + 1
         /\ \A view : ViewOf(srv, view) => ViewOf(srv', view)
         /\ ViewOf(srv', Wizard!View(srv')) /\ Wizard!View(srv').version = srv'.version
<1>1. /\ {"done", "login", "version"} \subseteq DOMAIN srv' /\ srv'.version = srv.version + 1
  OBVIOUS
<1>2. QED
  BY <1>1 DEF ViewOf, Wizard!View

LEMMA WizardServes ==
  ASSUME WizardFresh(srv, ui, net), NEW c \in net.calls, Wizard!Serve(c)
  PROVE  WizardFresh(srv', ui', net')
<1>1. /\ WizardUi \subseteq DOMAIN ui /\ WizardNet \subseteq DOMAIN net /\ ui' = ui
      /\ {"done", "login", "version"} \subseteq DOMAIN srv /\ srv.version \in Nat
      /\ {"n", "kind", "st"} \subseteq DOMAIN c /\ c.kind \in Wizard!Kinds
      /\ NotBehind(srv, ui, c) /\ ui.applied \in Nat /\ ui.applied <= srv.version
  BY DEF WizardFresh, Wizard!Serve
<1>2. CASE srv' = srv /\ net' = [net EXCEPT !.calls = (net.calls \ {c}) \cup {[c EXCEPT !.st = "refused"]}]
  <2> DEFINE d == [c EXCEPT !.st = "refused"]
  <2>1. /\ {"n", "kind", "st"} \subseteq DOMAIN d /\ d.kind \in Wizard!Kinds /\ d.st # "ok"
        /\ NotBehind(srv, ui, d)
    BY <1>1 DEF NotBehind
  <2>2. net' = [net EXCEPT !.calls = (net.calls \ {c}) \cup {d}]
    BY <1>2
  <2> HIDE DEF d
  <2>3. /\ WizardNet \subseteq DOMAIN net' /\ net'.late = net.late /\ net'.polls = net.polls
        /\ net'.calls = (net.calls \ {c}) \cup {d}
    BY <1>1, <2>2 DEF WizardNet
  <2>4. QED
    BY <1>1, <1>2, <2>1, <2>3, WizardBeside
<1>3. CASE /\ \E s \in Wizard!Signed(srv, c.kind) : srv' = [s EXCEPT !.version = s.version + 1]
           /\ net' = [net EXCEPT !.calls = (net.calls \ {c}) \cup
                                  {[c EXCEPT !.st = "ok", !.view = Wizard!View(srv')]}]
  <2> DEFINE d == [c EXCEPT !.st = "ok", !.view = Wizard!View(srv')]
  <2>1. PICK s \in Wizard!Signed(srv, c.kind) : srv' = [s EXCEPT !.version = s.version + 1]
    BY <1>3
  <2>2. ASSUME NEW kind \in Wizard!Kinds
        PROVE  /\ {"done", "login", "version"} \subseteq DOMAIN Wizard!Effect(srv, kind)
               /\ Wizard!Effect(srv, kind).version = srv.version
    BY <1>1 DEF Wizard!Effect, Wizard!Kinds
  <2>3. {"done", "login", "version"} \subseteq DOMAIN s /\ s.version = srv.version
    <3>1. PICK kind \in Wizard!Kinds : s = Wizard!Effect(srv, kind)
      BY <1>1 DEF Wizard!Signed, Wizard!Kinds
    <3>2. QED
      BY <2>2, <3>1
  <2>4. /\ {"done", "login", "version"} \subseteq DOMAIN srv' /\ srv'.version = srv.version + 1
        /\ \A view : ViewOf(srv, view) => ViewOf(srv', view)
        /\ ViewOf(srv', Wizard!View(srv')) /\ Wizard!View(srv').version = srv'.version
    BY <1>1, <2>1, <2>3, WizardNewer
  <2>5. /\ {"n", "kind", "st", "view", "stale"} \subseteq DOMAIN d /\ d.kind \in Wizard!Kinds
        /\ d.view = Wizard!View(srv')
    BY <1>1 DEF NotBehind
  <2>6. net' = [net EXCEPT !.calls = (net.calls \ {c}) \cup {d}]
    BY <1>3
  <2> HIDE DEF d
  <2>7. NotBehind(srv', ui, d)
    BY <1>1, <2>4, <2>5 DEF NotBehind
  <2>8. /\ WizardNet \subseteq DOMAIN net' /\ net'.late = net.late /\ net'.polls = net.polls
        /\ net'.calls = (net.calls \ {c}) \cup {d}
    BY <1>1, <2>6 DEF WizardNet
  <2>9. ASSUME NEW a \in net'.calls
        PROVE  /\ {"n", "kind", "st"} \subseteq DOMAIN a /\ a.kind \in Wizard!Kinds
               /\ a.st = "ok" => ViewOf(srv', a.view)
               /\ NotBehind(srv', ui, a)
    <3>1. CASE a = d
      BY <2>4, <2>5, <2>7, <3>1
    <3>2. CASE a \in net.calls
      BY <2>4, <3>2 DEF WizardFresh, NotBehind
    <3>3. QED
      BY <2>8, <3>1, <3>2
  <2>10. \A p \in net'.polls : NotBehind(srv', ui, p)
    BY <2>4, <2>8 DEF WizardFresh, NotBehind
  <2>11. srv'.version \in Nat /\ ui.applied <= srv'.version
    BY <1>1, <2>4
  <2>12. ui.status # Nothing /\ ~net'.late => ui.status.version >= ui.applied
    BY <2>8 DEF WizardFresh
  <2>13. QED
    BY <1>1, <2>4, <2>8, <2>9, <2>10, <2>11, <2>12 DEF WizardFresh
<1>4. QED
  BY <1>2, <1>3 DEF Wizard!Serve

LEMMA WizardElsewhere ==
  ASSUME WizardFresh(srv, ui, net), Wizard!Elsewhere
  PROVE  WizardFresh(srv', ui', net')
<1>1. /\ {"done", "login", "version"} \subseteq DOMAIN srv /\ srv.version \in Nat
      /\ ui.applied \in Nat /\ ui.applied <= srv.version /\ ui' = ui /\ net' = net
  BY DEF WizardFresh, Wizard!Elsewhere
<1>2. \/ srv' = [srv EXCEPT !.login = "none", !.version = srv.version + 1]
      \/ \E step : srv' = [srv EXCEPT !.done = srv.done \cup {step}, !.version = srv.version + 1]
  BY DEF Wizard!Elsewhere
<1>3. {"done", "login", "version"} \subseteq DOMAIN srv' /\ srv'.version = srv.version + 1
  BY <1>1, <1>2
<1>4. \A view : ViewOf(srv, view) => ViewOf(srv', view)
  BY <1>1, <1>3 DEF ViewOf
<1>5. srv'.version \in Nat /\ ui.applied <= srv'.version
  BY <1>1, <1>3
<1>6. QED
  BY <1>1, <1>3, <1>4, <1>5 DEF WizardFresh, NotBehind

LEMMA NextWizard ==
  ASSUME WizardFresh(srv, ui, net), [Wizard!Next]_<<srv, ui, net>> PROVE WizardFresh(srv', ui', net')
<1>1. CASE UNCHANGED <<srv, ui, net>>
  BY <1>1
<1>2. CASE Wizard!Next
  BY <1>2, WizardClicks, WizardAnswers, WizardRules, WizardPolls, WizardServes, WizardElsewhere DEF Wizard!Next
<1>3. QED
  BY <1>1, <1>2

\* No answer overtaken by one of the page's own is shown, unless it came late.
LEMMA WizardShown == ASSUME WizardFresh(srv, ui, net) PROVE Wizard!OwnChangeIsShown
BY DEF WizardFresh, Wizard!OwnChangeIsShown
-----------------------------------------------------------------------------
(* The sources: a call that was made is followed by a read of the table.        *)

RegistryNet == {"reads", "calls", "groups", "late", "lost", "ops"}
RegistryFields(u, n) ==
  /\ {"sources", "loading", "listError", "edit", "pausing", "del", "deleting", "tab",
      "submitting", "formError", "groups", "selected", "adding"} \subseteq DOMAIN u
  /\ RegistryNet \subseteq DOMAIN n
  /\ ReadsOk(n.reads, {"list"})
  /\ \A c \in n.calls : {"op", "of", "chats", "st"} \subseteq DOMAIN c
\* A change that was made and whose handler goes on, or never learns of it.
RegistryOwes(n) == n.lost = TRUE \/ \E c \in n.calls : c.st = "ok"
RegistryShows(s, u, n) ==
  /\ \A r \in LastOf(n.reads) : r.list # Nothing => r.list.now = s
  /\ LastOf(n.reads) = {} => u.listError = TRUE \/ n.late = TRUE \/ u.sources = s
RegistryFresh(s, u, n) == RegistryFields(u, n) /\ (RegistryOwes(n) \/ RegistryShows(s, u, n))

\* A page that asks again shows, in the end, what it is answered.
LEMMA RegistryAsks ==
  ASSUME NEW s, NEW u, NEW n, RegistryFields(u, n), NEW m, m = Registry!Reloaded(n)
  PROVE  RegistryFresh(s, u, m)
<1> DEFINE new == [last |-> TRUE, list |-> Nothing]
<1>1. m = [n EXCEPT !.reads = Demoted(n.reads) \cup {new}]
  BY DEF Registry!Reloaded, Demoted
<1>2. {"list"} \cup {"last"} \subseteq DOMAIN new /\ new.last = TRUE /\ new.list = Nothing
  OBVIOUS
<1> HIDE DEF new
<1>3. ReadsOk(n.reads, {"list"})
  BY DEF RegistryFields
<1>4. /\ ReadsOk(Demoted(n.reads) \cup {new}, {"list"})
      /\ LastOf(Demoted(n.reads) \cup {new}) = {new}
  BY <1>2, <1>3, AskedLast
<1>5. DOMAIN m = DOMAIN n /\ m.reads = Demoted(n.reads) \cup {new} /\ m.calls = n.calls
  BY <1>1 DEF RegistryFields, RegistryNet
<1>6. QED
  BY <1>2, <1>4, <1>5 DEF RegistryFresh, RegistryFields, RegistryShows

\* A step that moves neither the sources nor the reads.
LEMMA RegistryBeside ==
  ASSUME NEW s, NEW u, NEW n, RegistryFresh(s, u, n), NEW v, NEW m, RegistryFields(v, m),
         v.sources = u.sources, u.listError = TRUE => v.listError = TRUE,
         m.reads = n.reads, m.late = n.late, m.lost = n.lost,
         \A c \in n.calls : c.st = "ok" => c \in m.calls
  PROVE  RegistryFresh(s, v, m)
BY DEF RegistryFresh, RegistryOwes, RegistryShows

LEMMA RegistryInit == ASSUME Registry!Init PROVE RegistryFresh(srv, ui, net)
<1>1. PICK n : /\ n = [reads |-> {}, calls |-> {}, groups |-> {Nothing},
                       late |-> FALSE, lost |-> FALSE, ops |-> 0]
               /\ net = Registry!Reloaded(n)
  BY DEF Registry!Init
<1>2. RegistryFields(ui, n)
  BY <1>1 DEF Registry!Init, RegistryFields, RegistryNet, ReadsOk, LastOf
<1>3. QED
  BY <1>1, <1>2, RegistryAsks

\* A read is answered, shown or lost.
LEMMA RegistryReads ==
  ASSUME RegistryFresh(srv, ui, net), NEW r \in net.reads,
         Registry!AnswerRead(r) \/ Registry!ShowRead(r) \/ Registry!FailRead(r)
  PROVE  RegistryFresh(srv', ui', net')
<1>1. RegistryFields(ui, net)
  BY DEF RegistryFresh
<1>0. r \in net.reads /\ ReadsOk(net.reads, {"list"})
  BY <1>1 DEF RegistryFields
<1>2. srv' = srv
  BY DEF Registry!AnswerRead, Registry!ShowRead, Registry!FailRead
<1>3. {"list"} \cup {"last"} \subseteq DOMAIN r /\ r.last \in BOOLEAN
  BY <1>0 DEF ReadsOk
<1>4. CASE Registry!AnswerRead(r)
  <2>1. PICK q : /\ q = [r EXCEPT !.list = [now |-> srv]]
                 /\ net' = [net EXCEPT !.reads = (net.reads \ {r}) \cup {q}]
    BY <1>4 DEF Registry!AnswerRead
  <2>2. {"list"} \cup {"last"} \subseteq DOMAIN q /\ q.last = r.last
    BY <1>3, <2>1
  <2>9. q.list.now = srv
    BY <1>3, <2>1
  <2> DEFINE reads == (net.reads \ {r}) \cup {q}
  <2>3. /\ ReadsOk(reads, {"list"})
        /\ r \in LastOf(net.reads) => LastOf(reads) = {q}
        /\ r \notin LastOf(net.reads) => LastOf(reads) = LastOf(net.reads)
    BY ONLY <1>0, <2>2 DEF ReadsOk, LastOf
  <2>4. /\ DOMAIN net' = DOMAIN net /\ net'.reads = reads /\ net'.calls = net.calls
        /\ net'.late = net.late /\ net'.lost = net.lost
    BY <1>1, <2>1 DEF RegistryFields, RegistryNet
  <2> HIDE DEF reads
  <2>5. ui' = ui
    BY <1>4 DEF Registry!AnswerRead
  <2>6. RegistryFields(ui, net')
    BY <1>1, <2>3, <2>4 DEF RegistryFields
  <2>7. RegistryShows(srv, ui, net) => RegistryShows(srv, ui, net')
    BY <2>3, <2>4, <2>9 DEF RegistryShows
  <2>8. QED
    BY <1>2, <2>4, <2>5, <2>6, <2>7 DEF RegistryFresh, RegistryOwes
<1>5. CASE Registry!ShowRead(r) \/ Registry!FailRead(r)
  <2> DEFINE reads == net.reads \ {r}
  <2>1. /\ ReadsOk(reads, {"list"})
        /\ r \in LastOf(net.reads) => LastOf(reads) = {}
        /\ r \notin LastOf(net.reads) => LastOf(reads) = LastOf(net.reads)
    BY ONLY <1>0, EndedLast
  <2>2. /\ DOMAIN net' = DOMAIN net /\ net'.reads = reads /\ net'.calls = net.calls
        /\ net'.lost = net.lost
    BY <1>1, <1>5 DEF Registry!ShowRead, Registry!FailRead, RegistryFields, RegistryNet
  <2>3. /\ DOMAIN ui' = DOMAIN ui
        /\ \/ ui'.listError = TRUE
           \/ r \notin LastOf(net.reads) /\ net'.late = TRUE
           \/ r \in LastOf(net.reads) /\ r.list # Nothing /\ ui'.sources = r.list.now
    <3>1. CASE Registry!ShowRead(r)
      <4>1. DOMAIN ui' = DOMAIN ui /\ ui'.sources = r.list.now /\ r.list # Nothing
        BY <1>1, <3>1 DEF Registry!ShowRead, RegistryFields
      <4>2. net'.late = ~r.last
        BY <1>1, <3>1 DEF Registry!ShowRead, RegistryFields, RegistryNet
      <4>3. QED
        BY <1>3, <4>1, <4>2 DEF LastOf
    <3>2. CASE Registry!FailRead(r)
      BY <1>1, <3>2 DEF Registry!FailRead, RegistryFields
    <3>3. QED
      BY <1>5, <3>1, <3>2
  <2> HIDE DEF reads
  <2>4. RegistryFields(ui', net')
    BY <1>1, <2>1, <2>2, <2>3 DEF RegistryFields
  <2>5. RegistryShows(srv, ui, net) => RegistryShows(srv, ui', net')
    BY <2>1, <2>2, <2>3 DEF RegistryShows
  <2>6. QED
    BY <1>2, <2>2, <2>4, <2>5 DEF RegistryFresh, RegistryOwes
<1>6. QED
  BY <1>4, <1>5

\* What the administrator does changes nothing before it is served, nor do the groups.
LEMMA RegistryClicks ==
  ASSUME RegistryFresh(srv, ui, net),
         \/ \E i \in Sources : Registry!Pause(i) \/ Registry!AskDelete(i) \/ Registry!Edit(i)
         \/ Registry!CancelDelete \/ Registry!ConfirmDelete \/ Registry!AnswerGroups
         \/ Registry!FailGroups \/ Registry!Add
         \/ \E tab \in {"account", "chat"} : Registry!LeaveEdit(tab) \/ Registry!SelectTab(tab)
         \/ \E chat \in Chats : Registry!Submit(chat) \/ Registry!Toggle(chat)
         \/ \E g \in net.groups : Registry!ShowGroups(g)
  PROVE  RegistryFresh(srv', ui', net')
<1>1. RegistryFields(ui, net)
  BY DEF RegistryFresh
<1>2. ASSUME NEW op, NEW of, NEW chats, net' = Registry!Sent(op, of, chats)
      PROVE  /\ DOMAIN net' = DOMAIN net /\ net'.reads = net.reads /\ net'.late = net.late
             /\ net'.lost = net.lost /\ net.calls \subseteq net'.calls
             /\ \A c \in net'.calls : {"op", "of", "chats", "st"} \subseteq DOMAIN c
  <2> DEFINE c == [n |-> net.ops, op |-> op, of |-> of, chats |-> chats, st |-> "sent"]
  <2>1. net' = [net EXCEPT !.ops = @ + 1, !.calls = net.calls \cup {c}]
    BY <1>2 DEF Registry!Sent
  <2>2. {"op", "of", "chats", "st"} \subseteq DOMAIN c
    OBVIOUS
  <2> HIDE DEF c
  <2>3. /\ DOMAIN net' = DOMAIN net /\ net'.reads = net.reads /\ net'.late = net.late
        /\ net'.lost = net.lost /\ net'.calls = net.calls \cup {c}
    BY <1>1, <2>1 DEF RegistryFields, RegistryNet
  <2>4. QED
    BY <1>1, <2>2, <2>3 DEF RegistryFields
<1>3. ASSUME NEW u, u = Registry!Remounted(ui)
      PROVE  DOMAIN u = DOMAIN ui /\ u.sources = ui.sources /\ u.listError = ui.listError
  BY <1>1, <1>3 DEF Registry!Remounted, RegistryFields
<1>4. /\ srv' = srv /\ DOMAIN ui' = DOMAIN ui /\ ui'.sources = ui.sources /\ ui'.listError = ui.listError
  <2>1. CASE \/ \E i \in Sources : Registry!Pause(i) \/ Registry!AskDelete(i)
             \/ Registry!CancelDelete \/ Registry!ConfirmDelete \/ Registry!AnswerGroups
             \/ Registry!FailGroups \/ Registry!Add
    BY <1>1, <2>1 DEF Registry!Pause, Registry!AskDelete, Registry!CancelDelete, Registry!ConfirmDelete,
         Registry!AnswerGroups, Registry!FailGroups, Registry!Add, RegistryFields
  <2>2. CASE \/ \E chat \in Chats : Registry!Submit(chat) \/ Registry!Toggle(chat)
             \/ \E g \in net.groups : Registry!ShowGroups(g)
    BY <1>1, <2>2 DEF Registry!Submit, Registry!Toggle, Registry!ShowGroups, RegistryFields
  <2>3. CASE \/ \E i \in Sources : Registry!Edit(i)
             \/ \E tab \in {"account", "chat"} : Registry!LeaveEdit(tab) \/ Registry!SelectTab(tab)
    <3> DEFINE u == Registry!Remounted(ui)
    <3>1. DOMAIN u = DOMAIN ui /\ u.sources = ui.sources /\ u.listError = ui.listError
      BY <1>3
    <3> HIDE DEF u
    <3>2. CASE \E i \in Sources : Registry!Edit(i)
      BY <1>1, <3>1, <3>2 DEF u, Registry!Edit, RegistryFields
    <3>3. CASE \E tab \in {"account", "chat"} : Registry!LeaveEdit(tab)
      BY <1>1, <3>1, <3>3 DEF u, Registry!LeaveEdit, RegistryFields
    <3>4. CASE \E tab \in {"account", "chat"} : Registry!SelectTab(tab)
      BY <1>1, <3>1, <3>4 DEF u, Registry!SelectTab, RegistryFields
    <3>5. QED
      BY <2>3, <3>2, <3>3, <3>4
  <2>4. QED
    BY <2>1, <2>2, <2>3
<1>5. /\ DOMAIN net' = DOMAIN net /\ net'.reads = net.reads /\ net'.late = net.late
      /\ net'.lost = net.lost /\ net.calls \subseteq net'.calls
      /\ \A c \in net'.calls : {"op", "of", "chats", "st"} \subseteq DOMAIN c
  <2>1. CASE \/ \E i \in Sources : Registry!Pause(i)
             \/ Registry!ConfirmDelete \/ Registry!Add \/ \E chat \in Chats : Registry!Submit(chat)
    BY <1>2, <2>1 DEF Registry!Pause, Registry!ConfirmDelete, Registry!Add, Registry!Submit
  <2>2. CASE \/ \E i \in Sources : Registry!AskDelete(i) \/ Registry!Edit(i)
             \/ Registry!CancelDelete \/ Registry!AnswerGroups \/ Registry!FailGroups
             \/ \E tab \in {"account", "chat"} : Registry!LeaveEdit(tab) \/ Registry!SelectTab(tab)
             \/ \E chat \in Chats : Registry!Toggle(chat)
             \/ \E g \in net.groups : Registry!ShowGroups(g)
    <3>1. net' = net \/ \E g : net' = [net EXCEPT !.groups = g]
      BY <2>2 DEF Registry!AskDelete, Registry!Edit, Registry!CancelDelete, Registry!AnswerGroups,
           Registry!FailGroups, Registry!LeaveEdit, Registry!SelectTab, Registry!Toggle, Registry!ShowGroups
    <3>2. QED
      BY <1>1, <3>1 DEF RegistryFields, RegistryNet
  <2>3. QED
    BY <2>1, <2>2
<1>6. RegistryFields(ui', net')
  BY <1>1, <1>4, <1>5 DEF RegistryFields
<1>7. QED
  BY <1>4, <1>5, <1>6, RegistryBeside

\* A call is served; or it fails, and nobody may know that it was served.
LEMMA RegistryServes ==
  ASSUME RegistryFresh(srv, ui, net), NEW c \in net.calls, Registry!Serve(c) \/ Registry!ServeFails(c)
  PROVE  RegistryFresh(srv', ui', net')
<1>1. /\ RegistryFields(ui, net) /\ {"op", "of", "chats", "st"} \subseteq DOMAIN c
      /\ ui' = ui /\ c.st = "sent"
  BY DEF RegistryFresh, RegistryFields, Registry!Serve, Registry!ServeFails
<1>2. ASSUME NEW st, NEW n, n = Registry!CallIs(c, st)
      PROVE  /\ DOMAIN n = DOMAIN net /\ n.reads = net.reads /\ n.late = net.late /\ n.lost = net.lost
             /\ RegistryFields(ui, n)
             /\ \E d \in n.calls : d.st = st
             /\ \A d \in net.calls : d.st = "ok" => d \in n.calls
  <2> DEFINE d == [c EXCEPT !.st = st]
  <2>1. n = [net EXCEPT !.calls = (net.calls \ {c}) \cup {d}]
    BY <1>2 DEF Registry!CallIs
  <2>2. {"op", "of", "chats", "st"} \subseteq DOMAIN d /\ d.st = st
    BY <1>1
  <2> HIDE DEF d
  <2>3. /\ DOMAIN n = DOMAIN net /\ n.reads = net.reads /\ n.late = net.late /\ n.lost = net.lost
        /\ n.calls = (net.calls \ {c}) \cup {d}
    BY <1>1, <2>1 DEF RegistryFields, RegistryNet
  <2>4. RegistryFields(ui, n)
    BY <1>1, <2>2, <2>3 DEF RegistryFields
  <2>5. QED
    BY <1>1, <2>2, <2>3, <2>4
<1>3. CASE srv' = srv /\ net' = Registry!CallIs(c, "error")
  <2>1. /\ RegistryFields(ui, net') /\ net'.reads = net.reads /\ net'.late = net.late
        /\ net'.lost = net.lost /\ \A d \in net.calls : d.st = "ok" => d \in net'.calls
    BY <1>2, <1>3
  <2>2. RegistryFresh(srv, ui, net')
    BY <2>1, RegistryBeside
  <2>3. QED
    BY <1>1, <1>3, <2>2
<1>4. CASE \E n : /\ n = Registry!CallIs(c, "ok") \/ n = Registry!CallIs(c, "error")
                  /\ \/ n = Registry!CallIs(c, "ok") /\ net' = n
                     \/ net' = [n EXCEPT !.lost = TRUE]
  <2>1. PICK n : /\ n = Registry!CallIs(c, "ok") \/ n = Registry!CallIs(c, "error")
                 /\ \/ n = Registry!CallIs(c, "ok") /\ net' = n
                    \/ net' = [n EXCEPT !.lost = TRUE]
    BY <1>4
  <2>2. RegistryFields(ui, n) /\ (n = Registry!CallIs(c, "ok") => \E d \in n.calls : d.st = "ok")
    BY <1>2, <2>1
  <2>3. /\ DOMAIN net' = DOMAIN n /\ net'.reads = n.reads /\ net'.calls = n.calls
        /\ RegistryOwes(net')
    BY <2>1, <2>2 DEF RegistryFields, RegistryNet, RegistryOwes
  <2>4. RegistryFields(ui, net')
    BY <2>2, <2>3 DEF RegistryFields
  <2>5. QED
    BY <1>1, <2>3, <2>4 DEF RegistryFresh
<1>5. QED
  BY <1>3, <1>4 DEF Registry!Serve, Registry!ServeFails

\* The handler goes on: it asks again, or tells a failure.
LEMMA RegistryGoesOn ==
  ASSUME RegistryFresh(srv, ui, net), NEW c \in net.calls,
         Registry!Answer(c) \/ Registry!AnswerFailure(c)
  PROVE  RegistryFresh(srv', ui', net')
<1> DEFINE n == Registry!Gone(c)
           Same(v, u) == DOMAIN v = DOMAIN u /\ v.sources = u.sources /\ v.listError = u.listError
<1>1. RegistryFields(ui, net)
  BY DEF RegistryFresh
<1>2. srv' = srv
  BY DEF Registry!Answer, Registry!AnswerFailure
<1>3. /\ DOMAIN n = DOMAIN net /\ n.reads = net.reads /\ n.late = net.late /\ n.lost = net.lost
      /\ n.calls = net.calls \ {c}
  BY <1>1 DEF Registry!Gone, RegistryFields, RegistryNet
<1>4. ASSUME NEW u, DOMAIN u = DOMAIN ui
      PROVE  Same(Registry!Ended(u, c), u) /\ Same(Registry!Done(u, c), u)
  <2>1. {"sources", "listError", "edit", "submitting", "formError", "groups", "selected", "adding",
                "pausing", "del", "deleting"} \subseteq DOMAIN u
    BY <1>1, <1>4 DEF RegistryFields
  <2>2. Same(Registry!Ended(u, c), u)
    BY <2>1 DEF Registry!Ended
  <2>3. Same(Registry!Remounted(u), u)
    BY <2>1 DEF Registry!Remounted
  <2>4. \A x : Same([Registry!Remounted(u) EXCEPT !.edit = x], u)
    <3> DEFINE w == Registry!Remounted(u)
    <3>1. Same(w, u)
      BY <2>3
    <3> HIDE DEF w
    <3>2. \A x : Same([w EXCEPT !.edit = x], u)
      BY <2>1, <3>1
    <3>3. QED
      BY <3>2 DEF w
  <2>5. Same(Registry!Done(u, c), u)
    BY <2>1, <2>4 DEF Registry!Done
  <2>6. QED
    BY <2>2, <2>5
<1>5. /\ DOMAIN ui' = DOMAIN ui /\ ui'.sources = ui.sources
      /\ ui.listError = TRUE => ui'.listError = TRUE
  <2>1. CASE Registry!Answer(c)
    <3>1. PICK w, v : /\ w = Registry!Done(ui, c) /\ v = Registry!Ended(w, c)
                      /\ ui' = [v EXCEPT !.loading = TRUE]
      BY <2>1 DEF Registry!Answer, Registry!Reloading
    <3>2. Same(w, ui)
      BY <1>4, <3>1
    <3>3. Same(v, w)
      BY <1>4, <3>1, <3>2
    <3>4. QED
      BY <1>1, <3>1, <3>2, <3>3 DEF RegistryFields
  <2>2. CASE Registry!AnswerFailure(c)
    <3>1. PICK u : /\ u = [ui EXCEPT !.listError = TRUE] \/ u = [ui EXCEPT !.formError = TRUE]
                   /\ ui' = ui \/ ui' = Registry!Ended(u, c)
      BY <2>2 DEF Registry!AnswerFailure
    <3>2. /\ DOMAIN u = DOMAIN ui /\ u.sources = ui.sources /\ (ui.listError = TRUE => u.listError = TRUE)
      BY <1>1, <3>1 DEF RegistryFields
    <3>3. Same(Registry!Ended(u, c), u)
      BY <1>4, <3>2
    <3>4. QED
      BY <3>1, <3>2, <3>3
  <2>3. QED
    BY <2>1, <2>2
<1>6. RegistryFields(ui', n)
  BY <1>1, <1>3, <1>5 DEF RegistryFields
<1> HIDE DEF n
<1>7. CASE Registry!Answer(c)
  <2>1. PICK m : m = Registry!Reloaded(n) /\ (net' = m \/ net' = [m EXCEPT !.groups = {Nothing}])
    BY <1>7 DEF n, Registry!Answer, Registry!AskedGroups
  <2>2. RegistryFresh(srv, ui', m)
    BY <1>6, <2>1, RegistryAsks
  <2>3. /\ DOMAIN net' = DOMAIN m /\ net'.reads = m.reads /\ net'.calls = m.calls
        /\ net'.late = m.late /\ net'.lost = m.lost
    BY <2>1, <2>2 DEF RegistryFresh, RegistryFields, RegistryNet
  <2>4. RegistryFields(ui', net')
    BY <2>2, <2>3 DEF RegistryFresh, RegistryFields
  <2>5. RegistryFresh(srv, ui', net')
    BY <2>2, <2>3, <2>4, RegistryBeside
  <2>6. QED
    BY <1>2, <2>5
<1>8. CASE Registry!AnswerFailure(c)
  <2>1. net' = n /\ c.st # "ok"
    BY <1>8 DEF n, Registry!AnswerFailure
  <2>2. RegistryFresh(srv, ui', net')
    BY <1>3, <1>5, <1>6, <2>1, RegistryBeside
  <2>3. QED
    BY <1>2, <2>2
<1>9. QED
  BY <1>7, <1>8

LEMMA NextRegistry ==
  ASSUME RegistryFresh(srv, ui, net), [Registry!Next]_<<srv, ui, net>> PROVE RegistryFresh(srv', ui', net')
<1>1. CASE UNCHANGED <<srv, ui, net>>
  BY <1>1
<1>2. CASE Registry!Next
  BY <1>2, RegistryReads, RegistryClicks, RegistryServes, RegistryGoesOn DEF Registry!Next
<1>3. QED
  BY <1>1, <1>2

\* With nothing awaited, the table is the api's, and offers no group that is in it.
LEMMA RegistryShown == ASSUME RegistryFresh(srv, ui, net) PROVE Registry!SourcesAreCurrent
<1>1. ASSUME Registry!Quiet, ~net.late, ~net.lost PROVE ui.sources = srv
  BY <1>1 DEF Registry!Quiet, LastOf, RegistryFresh, RegistryOwes, RegistryShows
<1>2. ASSUME ui.sources = srv, NEW i \in DOMAIN srv PROVE Registry!Already(srv[i].chat)
  BY <1>2 DEF Registry!Already, Registry!Registered
<1>3. QED
  BY <1>1, <1>2 DEF Registry!SourcesAreCurrent

-----------------------------------------------------------------------------
(* The state of Telegram: the events yet to be heard are the last changes.      *)

HealthFresh(s, u, n) ==
  /\ s \in Nat
  /\ {"health", "loading", "error", "sseState"} \subseteq DOMAIN u
  /\ u.health = Nothing \/ u.health \in 0..s
  /\ {"events", "polls", "polled", "newest"} \subseteq DOMAIN n
  /\ n.events \in Seq(Nat) /\ Len(n.events) <= s
  /\ \A k \in 1..Len(n.events) : n.events[k] = (s - Len(n.events)) + k
  /\ n.newest \in Nat /\ s - Len(n.events) <= n.newest
  /\ \A p \in n.polls : /\ {"n", "answer"} \subseteq DOMAIN p
                        /\ p.answer = Nothing \/ p.answer \in {Health!Failed} \cup 0..s

LEMMA HealthInit == ASSUME Health!Init PROVE HealthFresh(srv, ui, net)
<1> DEFINE p == [n |-> 0, answer |-> Nothing]
<1>1. PICK n : /\ n = [events |-> <<>>, polls |-> {}, polled |-> 0, newest |-> 0]
               /\ net = Health!Polled(n)
  BY DEF Health!Init
<1>2. net = [n EXCEPT !.polls = {p}, !.polled = 1]
  BY <1>1 DEF Health!Polled
<1>3. {"n", "answer"} \subseteq DOMAIN p /\ p.answer = Nothing
  OBVIOUS
<1> HIDE DEF p
<1>4. /\ {"events", "polls", "polled", "newest"} \subseteq DOMAIN net
      /\ net.events = <<>> /\ net.polls = {p} /\ net.newest = 0
  BY <1>1, <1>2
<1>5. /\ srv = 0 /\ {"health", "loading", "error", "sseState"} \subseteq DOMAIN ui /\ ui.health = Nothing
  BY DEF Health!Init
<1>6. QED
  BY <1>3, <1>4, <1>5 DEF HealthFresh

\* A change is the newest event.
LEMMA HealthChange ==
  ASSUME HealthFresh(srv, ui, net), Health!Change
  PROVE  HealthFresh(srv', ui', net')
<1>1. /\ srv' = srv + 1 /\ ui' = ui /\ srv \in Nat
      /\ net' = [net EXCEPT !.events = Append(net.events, srv + 1)]
  BY DEF HealthFresh, Health!Change
<1>2. /\ DOMAIN net' = DOMAIN net /\ net'.events = Append(net.events, srv + 1) /\ net'.polls = net.polls
      /\ net'.newest = net.newest
  BY <1>1 DEF HealthFresh
<1>3. /\ net'.events \in Seq(Nat) /\ Len(net'.events) = Len(net.events) + 1
      /\ Len(net.events) \in Nat
      /\ net'.events[Len(net.events) + 1] = srv + 1
      /\ \A k \in 1..Len(net.events) : net'.events[k] = net.events[k]
  BY <1>1, <1>2 DEF HealthFresh
<1>4. /\ Len(net'.events) <= srv' /\ srv' - Len(net'.events) = srv - Len(net.events)
  BY <1>1, <1>3 DEF HealthFresh
<1>5. \A k \in 1..Len(net'.events) : net'.events[k] = (srv' - Len(net'.events)) + k
  <2>1. ASSUME NEW k \in 1..Len(net.events) PROVE net'.events[k] = (srv' - Len(net'.events)) + k
    BY <1>3, <1>4, <2>1 DEF HealthFresh
  <2>2. net'.events[Len(net.events) + 1] = (srv' - Len(net'.events)) + (Len(net.events) + 1)
    BY <1>1, <1>3, <1>4
  <2>3. QED
    BY <1>3, <2>1, <2>2
<1>6. QED
  BY <1>1, <1>2, <1>3, <1>4, <1>5 DEF HealthFresh

LEMMA HealthPolls ==
  ASSUME HealthFresh(srv, ui, net),
         \/ Health!Poll
         \/ \E p \in net.polls : Health!AnswerPoll(p) \/ Health!ShowPoll(p)
  PROVE  HealthFresh(srv', ui', net')
<1>1. CASE Health!Poll
  <2> DEFINE new == [n |-> net.polled, answer |-> Nothing]
  <2>1. /\ net' = [net EXCEPT !.polls = net.polls \cup {new}, !.polled = net.polled + 1]
        /\ srv' = srv /\ ui' = ui
    BY <1>1 DEF Health!Poll, Health!Polled
  <2>2. {"n", "answer"} \subseteq DOMAIN new /\ new.answer = Nothing
    OBVIOUS
  <2> HIDE DEF new
  <2>3. /\ DOMAIN net' = DOMAIN net /\ net'.events = net.events /\ net'.polls = net.polls \cup {new}
        /\ net'.newest = net.newest
    BY <2>1 DEF HealthFresh
  <2>4. QED
    BY <2>1, <2>2, <2>3 DEF HealthFresh
<1>2. ASSUME NEW p \in net.polls, Health!AnswerPoll(p) PROVE HealthFresh(srv', ui', net')
  <2>1. PICK a \in {srv, Health!Failed} :
           net' = [net EXCEPT !.polls = (net.polls \ {p}) \cup {[p EXCEPT !.answer = a]}]
    BY <1>2 DEF Health!AnswerPoll
  <2> DEFINE q == [p EXCEPT !.answer = a]
  <2>2. /\ {"n", "answer"} \subseteq DOMAIN q /\ q.answer = a /\ srv' = srv /\ ui' = ui
    BY <1>2 DEF HealthFresh, Health!AnswerPoll
  <2>3. net' = [net EXCEPT !.polls = (net.polls \ {p}) \cup {q}]
    BY <2>1
  <2> HIDE DEF q
  <2>4. /\ DOMAIN net' = DOMAIN net /\ net'.events = net.events /\ net'.polls = (net.polls \ {p}) \cup {q}
        /\ net'.newest = net.newest
    BY <2>3 DEF HealthFresh
  <2>5. QED
    BY <2>1, <2>2, <2>4 DEF HealthFresh
<1>3. ASSUME NEW p \in net.polls, Health!ShowPoll(p) PROVE HealthFresh(srv', ui', net')
  <2>1. /\ p.answer \in {Health!Failed} \cup 0..srv /\ srv' = srv /\ srv \in Nat /\ net.newest \in Nat
    BY <1>3 DEF HealthFresh, Health!ShowPoll
  <2>2. /\ DOMAIN net' = DOMAIN net /\ net'.events = net.events /\ net'.polls = net.polls \ {p}
        /\ net'.newest = Health!Newest(net, p.answer)
    BY <1>3 DEF HealthFresh, Health!ShowPoll
  <2>3. net'.newest \in Nat /\ net'.newest >= net.newest
    BY <2>1, <2>2 DEF Health!Newest, Health!Failed
  <2>4. DOMAIN ui' = DOMAIN ui /\ (ui'.health = ui.health \/ ui'.health \in 0..srv)
    <3>1. CASE p.answer = Health!Failed
      BY <1>3, <3>1 DEF HealthFresh, Health!ShowPoll
    <3>2. CASE p.answer # Health!Failed
      BY <1>3, <2>1, <3>2 DEF HealthFresh, Health!ShowPoll
    <3>3. QED
      BY <3>1, <3>2
  <2>5. srv - Len(net.events) \in Int /\ srv - Len(net.events) <= net'.newest
    BY <2>1, <2>3 DEF HealthFresh
  <2>6. QED
    BY <2>1, <2>2, <2>3, <2>4, <2>5 DEF HealthFresh
<1>4. QED
  BY <1>1, <1>2, <1>3

\* The event that is heard is the oldest one left.
LEMMA HealthHears ==
  ASSUME HealthFresh(srv, ui, net), Health!Connect \/ Health!Drop \/ Health!Hear
  PROVE  HealthFresh(srv', ui', net')
<1>1. CASE Health!Connect \/ Health!Drop
  BY <1>1 DEF HealthFresh, Health!Connect, Health!Drop
<1>2. CASE Health!Hear
  <2>1. /\ srv' = srv /\ srv \in Nat /\ net.newest \in Nat /\ net.events \in Seq(Nat) /\ net.events # <<>>
        /\ Len(net.events) <= srv /\ srv - Len(net.events) <= net.newest
        /\ \A k \in 1..Len(net.events) : net.events[k] = (srv - Len(net.events)) + k
    BY <1>2 DEF HealthFresh, Health!Hear
  <2>2. PICK len \in Nat \ {0} : len = Len(net.events)
    BY <2>1
  <2>3. Head(net.events) = net.events[1] /\ 1 \in 1..Len(net.events)
    BY <2>1, <2>2
  <2>4. Head(net.events) = (srv - len) + 1
    BY <2>1, <2>2, <2>3
  <2>5. Head(net.events) \in 0..srv /\ srv - len <= net.newest /\ len <= srv
    <3>1. len <= srv /\ srv - len <= net.newest
      BY <2>1, <2>2
    <3>2. srv \in Nat /\ len \in Nat \ {0}
      BY <2>1
    <3>3. (srv - len) + 1 \in 0..srv
      BY ONLY <3>1, <3>2
    <3>4. QED
      BY <2>4, <3>1, <3>3
  <2>6. /\ DOMAIN net' = DOMAIN net /\ net'.events = Tail(net.events) /\ net'.polls = net.polls
        /\ net'.newest = Health!Newest(net, Head(net.events))
    BY <1>2 DEF HealthFresh, Health!Hear
  <2>7. /\ net'.events \in Seq(Nat) /\ Len(net'.events) = len - 1
        /\ \A k \in 1..Len(net'.events) : net'.events[k] = net.events[k + 1]
    BY <2>1, <2>2, <2>6
  <2>8. net'.newest \in Nat /\ (srv - len) + 1 <= net'.newest
    BY <2>1, <2>4, <2>5, <2>6 DEF Health!Newest
  <2>9. DOMAIN ui' = DOMAIN ui /\ (ui'.health = ui.health \/ ui'.health \in 0..srv)
    BY <1>2, <2>5 DEF HealthFresh, Health!Hear
  <2>10. Len(net'.events) <= srv /\ srv - Len(net'.events) <= net'.newest
    <3>1. Len(net'.events) <= srv /\ srv - Len(net'.events) = (srv - len) + 1
      BY <2>1, <2>5, <2>7
    <3>2. QED
      BY <2>8, <3>1
  <2>11. ASSUME NEW k \in 1..Len(net'.events)
         PROVE  net'.events[k] = (srv - Len(net'.events)) + k
    <3>4. len \in Nat \ {0} /\ k \in 1..(len - 1)
      BY <2>2, <2>7
    <3>5. k \in Nat /\ k + 1 \in 1..len
      BY ONLY <3>4
    <3>1. k \in Nat /\ k + 1 \in 1..Len(net.events) /\ net'.events[k] = net.events[k + 1]
      BY <2>2, <2>7, <3>5
    <3>2. net.events[k + 1] = (srv - len) + (k + 1)
      BY <2>1, <2>2, <3>1
    <3>3. QED
      BY <2>1, <2>2, <2>7, <3>1, <3>2
  <2>12. QED
    BY <2>1, <2>6, <2>7, <2>8, <2>9, <2>10, <2>11 DEF HealthFresh
<1>3. QED
  BY <1>1, <1>2

LEMMA NextHealth ==
  ASSUME HealthFresh(srv, ui, net), [Health!Next]_<<srv, ui, net>> PROVE HealthFresh(srv', ui', net')
<1>1. CASE UNCHANGED <<srv, ui, net>>
  BY <1>1
<1>2. CASE Health!Next
  BY <1>2, HealthChange, HealthPolls, HealthHears DEF Health!Next
<1>3. QED
  BY <1>1, <1>2

\* Every change was heard: another state is shown only by an answer older than that.
LEMMA HealthShown == ASSUME HealthFresh(srv, ui, net) PROVE Health!AdapterIsCurrent
<1>1. ASSUME net.events = <<>>, ui.health # Nothing
      PROVE  ui.health = srv \/ ui.health < net.newest
  <2>1. srv \in Nat /\ net.newest \in Nat /\ ui.health \in 0..srv /\ srv <= net.newest
    BY <1>1 DEF HealthFresh
  <2>2. QED
    BY <2>1
<1>2. QED
  BY <1>1 DEF Health!AdapterIsCurrent
-----------------------------------------------------------------------------
(* The theme: what a tab shows is what the browser holds, once it was told.     *)

ThemeFields(s, u, n) ==
  /\ s \in [stored: Theme!ThemePreference \cup {Nothing}, blocked: BOOLEAN, dark: BOOLEAN]
  /\ u \in [Tabs -> [state: Theme!ThemeState \cup {Nothing}, root: Theme!ThemeState \cup {Nothing},
                     listens: BOOLEAN, missed: BOOLEAN]]
  /\ {"storage", "change", "ops"} \subseteq DOMAIN n
ResolvedAs(p, dark) == IF p # "system" THEN p ELSE IF dark THEN "dark" ELSE "light"
StoredIn(s) == IF s.blocked \/ s.stored = Nothing THEN "system" ELSE s.stored
TabShows(s, tab, stored, told) ==
  tab.state # Nothing \/ tab.listens =>
    /\ tab.state \in Theme!ThemeState /\ tab.root = tab.state
    /\ tab.state.preference # "system" \/ told =>
         tab.missed \/ tab.state.resolved = ResolvedAs(tab.state.preference, s.dark)
    /\ stored => tab.missed \/ s.blocked \/ tab.state.preference = StoredIn(s)
ThemeFresh(s, u, n) ==
  /\ ThemeFields(s, u, n)
  /\ \A t \in Tabs : TabShows(s, u[t], t \notin n.storage, t \notin n.change)

LEMMA ThemeInit == ASSUME Theme!Init PROVE ThemeFresh(srv, ui, net)
BY DEF Theme!Init, Theme!ThemePreference, ThemeFresh, ThemeFields, TabShows

\* A theme that is computed now is the one to show.
LEMMA ThemeComputed ==
  ASSUME ThemeFields(srv, ui, net), NEW p \in Theme!ThemePreference
  PROVE  /\ Theme!compute(p) \in Theme!ThemeState
         /\ Theme!compute(p).preference = p
         /\ Theme!compute(p).resolved = ResolvedAs(p, srv.dark)
         /\ Theme!readStoredPreference = StoredIn(srv) /\ StoredIn(srv) \in Theme!ThemePreference
BY DEF ThemeFields, Theme!compute, Theme!resolveTheme, ResolvedAs, Theme!ThemeState,
     Theme!ThemePreference, Theme!ResolvedTheme, Theme!readStoredPreference, StoredIn

LEMMA ThemePainted ==
  ASSUME ThemeFields(srv, ui, net), NEW t \in Tabs, NEW p \in Theme!ThemePreference,
         NEW tab, tab = Theme!commit(ui[t], Theme!compute(p))
  PROVE  /\ tab \in [state: Theme!ThemeState \cup {Nothing}, root: Theme!ThemeState \cup {Nothing},
                     listens: BOOLEAN, missed: BOOLEAN]
         /\ tab.state = Theme!compute(p) /\ tab.state \in Theme!ThemeState /\ tab.root = tab.state
         /\ tab.missed = ui[t].missed
<1>1. Theme!compute(p) \in Theme!ThemeState
  BY ThemeComputed
<1>2. QED
  BY <1>1 DEF ThemeFields, Theme!commit

LEMMA ThemeTabs ==
  ASSUME ThemeFresh(srv, ui, net), NEW t \in Tabs,
         Theme!Open(t) \/ Theme!Listen(t) \/ Theme!onStorage(t) \/ Theme!onSystemChange(t)
  PROVE  ThemeFresh(srv', ui', net')
<1>1. /\ ThemeFields(srv, ui, net) /\ srv' = srv
      /\ \A x \in Tabs : TabShows(srv, ui[x], x \notin net.storage, x \notin net.change)
  BY DEF ThemeFresh, Theme!Open, Theme!Listen, Theme!onStorage, Theme!onSystemChange
<1>2. ASSUME NEW tab \in [state: Theme!ThemeState \cup {Nothing}, root: Theme!ThemeState \cup {Nothing},
                          listens: BOOLEAN, missed: BOOLEAN],
             ui' = [ui EXCEPT ![t] = tab],
             {"storage", "change", "ops"} \subseteq DOMAIN net',
             \A x \in Tabs \ {t} : /\ x \notin net'.storage => x \notin net.storage
                                   /\ x \notin net'.change => x \notin net.change,
             TabShows(srv, tab, t \notin net'.storage, t \notin net'.change)
      PROVE  ThemeFresh(srv', ui', net')
  <2>1. ThemeFields(srv', ui', net')
    BY <1>1, <1>2 DEF ThemeFields
  <2>2. ui'[t] = tab /\ \A x \in Tabs \ {t} : ui'[x] = ui[x]
    BY <1>1, <1>2 DEF ThemeFields
  <2>3. ASSUME NEW x \in Tabs \ {t} PROVE TabShows(srv, ui'[x], x \notin net'.storage, x \notin net'.change)
    BY <1>1, <1>2, <2>2, <2>3 DEF TabShows
  <2>4. QED
    BY <1>1, <1>2, <2>1, <2>2, <2>3 DEF ThemeFresh
<1>3. /\ ui[t] \in [state: Theme!ThemeState \cup {Nothing}, root: Theme!ThemeState \cup {Nothing},
                    listens: BOOLEAN, missed: BOOLEAN]
      /\ TabShows(srv, ui[t], t \notin net.storage, t \notin net.change)
  BY <1>1 DEF ThemeFields
<1>4. ASSUME NEW n, n = [net EXCEPT !.storage = @ \ {t}] \/ n = [net EXCEPT !.change = @ \ {t}] \/ n = net
      PROVE  /\ {"storage", "change", "ops"} \subseteq DOMAIN n
             /\ \A x \in Tabs \ {t} : /\ x \notin n.storage => x \notin net.storage
                                      /\ x \notin n.change => x \notin net.change
  BY <1>1, <1>4 DEF ThemeFields
<1>5. CASE Theme!Open(t)
  <2> DEFINE tab == Theme!commit(ui[t], Theme!compute(Theme!readStoredPreference))
  <2>1. /\ Theme!readStoredPreference = StoredIn(srv) /\ StoredIn(srv) \in Theme!ThemePreference
    BY <1>1, ThemeComputed DEF Theme!ThemePreference
  <2>2. /\ Theme!compute(StoredIn(srv)).preference = StoredIn(srv)
        /\ Theme!compute(StoredIn(srv)).resolved = ResolvedAs(StoredIn(srv), srv.dark)
    BY <1>1, <2>1, ThemeComputed
  <2>3. /\ tab \in [state: Theme!ThemeState \cup {Nothing}, root: Theme!ThemeState \cup {Nothing},
                    listens: BOOLEAN, missed: BOOLEAN]
        /\ tab.state = Theme!compute(StoredIn(srv)) /\ tab.state \in Theme!ThemeState /\ tab.root = tab.state
    BY <1>1, <2>1, ThemePainted
  <2>4. ui' = [ui EXCEPT ![t] = tab] /\ net' = net
    BY <1>5 DEF Theme!Open
  <2> HIDE DEF tab
  <2>5. TabShows(srv, tab, t \notin net'.storage, t \notin net'.change)
    BY <2>2, <2>3 DEF TabShows
  <2>6. QED
    BY <1>2, <1>4, <2>3, <2>4, <2>5
<1>6. CASE Theme!Listen(t)
  <2> DEFINE tab == [ui[t] EXCEPT !.listens = TRUE]
  <2>1. ui' = [ui EXCEPT ![t] = tab] /\ net' = net
    BY <1>6 DEF Theme!Listen
  <2>2. /\ tab \in [state: Theme!ThemeState \cup {Nothing}, root: Theme!ThemeState \cup {Nothing},
                    listens: BOOLEAN, missed: BOOLEAN]
        /\ tab.state = ui[t].state /\ tab.root = ui[t].root /\ tab.missed = ui[t].missed
    BY <1>3
  <2> HIDE DEF tab
  <2>3. ui[t].state # Nothing
    BY <1>6 DEF Theme!Listen
  <2>4. TabShows(srv, tab, t \notin net'.storage, t \notin net'.change)
    BY <1>3, <2>1, <2>2, <2>3 DEF TabShows
  <2>5. QED
    BY <1>2, <1>4, <2>1, <2>2, <2>4
<1>7. ASSUME ui' = Theme!Lost(t), ~ui[t].listens,
             net' = [net EXCEPT !.storage = @ \ {t}] \/ net' = [net EXCEPT !.change = @ \ {t}]
      PROVE  ThemeFresh(srv', ui', net')
  <2> DEFINE tab == [ui[t] EXCEPT !.missed = ui[t].missed \/ ui[t].state # Nothing]
  <2>1. ui' = [ui EXCEPT ![t] = tab]
    BY <1>7 DEF Theme!Lost
  <2>2. /\ tab \in [state: Theme!ThemeState \cup {Nothing}, root: Theme!ThemeState \cup {Nothing},
                    listens: BOOLEAN, missed: BOOLEAN]
        /\ tab.state = ui[t].state /\ tab.root = ui[t].root
        /\ tab.listens = FALSE /\ (tab.state # Nothing => tab.missed)
    BY <1>3, <1>7
  <2> HIDE DEF tab
  <2>3. TabShows(srv, tab, t \notin net'.storage, t \notin net'.change)
    BY <1>3, <2>2 DEF TabShows
  <2>4. QED
    BY <1>2, <1>4, <1>7, <2>1, <2>2, <2>3
<1>8. CASE Theme!onStorage(t)
  <2>1. CASE ~ui[t].listens
    BY <1>7, <1>8, <2>1 DEF Theme!onStorage
  <2>2. CASE ui[t].listens
    <3> DEFINE tab == Theme!commit(ui[t], Theme!compute(Theme!readStoredPreference))
    <3>1. /\ Theme!readStoredPreference = StoredIn(srv) /\ StoredIn(srv) \in Theme!ThemePreference
      BY <1>1, ThemeComputed DEF Theme!ThemePreference
    <3>2. /\ Theme!compute(StoredIn(srv)).preference = StoredIn(srv)
          /\ Theme!compute(StoredIn(srv)).resolved = ResolvedAs(StoredIn(srv), srv.dark)
      BY <1>1, <3>1, ThemeComputed
    <3>3. /\ tab \in [state: Theme!ThemeState \cup {Nothing}, root: Theme!ThemeState \cup {Nothing},
                      listens: BOOLEAN, missed: BOOLEAN]
          /\ tab.state = Theme!compute(StoredIn(srv)) /\ tab.state \in Theme!ThemeState /\ tab.root = tab.state
      BY <1>1, <3>1, ThemePainted
    <3>4. ui' = [ui EXCEPT ![t] = tab] /\ net' = [net EXCEPT !.storage = @ \ {t}]
      BY <1>8, <2>2 DEF Theme!onStorage
    <3> HIDE DEF tab
    <3>5. TabShows(srv, tab, t \notin net'.storage, t \notin net'.change)
      BY <3>2, <3>3 DEF TabShows
    <3>6. QED
      BY <1>2, <1>4, <3>3, <3>4, <3>5
  <2>3. QED
    BY <2>1, <2>2
<1>9. CASE Theme!onSystemChange(t)
  <2>0. net' = [net EXCEPT !.change = @ \ {t}] /\ t \in net.change
    BY <1>9 DEF Theme!onSystemChange
  <2>1. CASE ~ui[t].listens
    BY <1>7, <1>9, <2>1 DEF Theme!onSystemChange
  <2>2. CASE ui[t].listens /\ ui[t].state.preference = "system"
    <3> DEFINE tab == Theme!commit(ui[t], Theme!compute("system"))
    <3>1. "system" \in Theme!ThemePreference
      BY DEF Theme!ThemePreference
    <3>2. /\ Theme!compute("system").preference = "system"
          /\ Theme!compute("system").resolved = ResolvedAs("system", srv.dark)
      BY <1>1, <3>1, ThemeComputed
    <3>3. /\ tab \in [state: Theme!ThemeState \cup {Nothing}, root: Theme!ThemeState \cup {Nothing},
                      listens: BOOLEAN, missed: BOOLEAN]
          /\ tab.state = Theme!compute("system") /\ tab.state \in Theme!ThemeState /\ tab.root = tab.state /\ tab.missed = ui[t].missed
      BY <1>1, <3>1, ThemePainted
    <3>4. ui' = [ui EXCEPT ![t] = tab]
      BY <1>9, <2>2 DEF Theme!onSystemChange
    <3> HIDE DEF tab
    <3>5. net'.storage = net.storage
      BY <1>1, <2>0 DEF ThemeFields
    <3>6. TabShows(srv, tab, t \notin net'.storage, t \notin net'.change)
      BY <1>3, <2>2, <3>2, <3>3, <3>5 DEF TabShows
    <3>7. QED
      BY <1>2, <1>4, <2>0, <3>3, <3>4, <3>6
  <2>3. CASE ui[t].listens /\ ui[t].state.preference # "system"
    <3>1. ui' = ui /\ net'.storage = net.storage
      BY <1>1, <1>9, <2>0, <2>3 DEF Theme!onSystemChange, ThemeFields
    <3>2. ui' = [ui EXCEPT ![t] = ui[t]]
      BY <1>1, <3>1 DEF ThemeFields
    <3>3. TabShows(srv, ui[t], t \notin net'.storage, t \notin net'.change)
      BY <1>3, <2>3, <3>1 DEF TabShows
    <3>4. QED
      BY <1>2, <1>3, <1>4, <2>0, <3>2, <3>3
  <2>4. QED
    BY <2>1, <2>2, <2>3
<1>10. QED
  BY <1>5, <1>6, <1>8, <1>9

\* The tabs that were not clicked are told of what was stored.
LEMMA ThemeCycles ==
  ASSUME ThemeFresh(srv, ui, net), NEW t \in Tabs, Theme!Cycle(t)
  PROVE  ThemeFresh(srv', ui', net')
<1> DEFINE p == Theme!nextThemePreference(ui[t].state.preference)
           tab == Theme!commit(ui[t], Theme!compute(p))
<1>1. /\ ThemeFields(srv, ui, net) /\ ui[t].listens
      /\ \A x \in Tabs : TabShows(srv, ui[x], x \notin net.storage, x \notin net.change)
  BY DEF ThemeFresh, Theme!Cycle
<1>2. p \in Theme!ThemePreference
  <2>1. ui[t].state \in Theme!ThemeState
    BY <1>1 DEF TabShows
  <2>2. ui[t].state.preference \in Theme!ThemePreference
    BY <2>1 DEF Theme!ThemeState
  <2>3. QED
    BY <2>2 DEF Theme!nextThemePreference, Theme!ThemePreference
<1>3. /\ Theme!compute(p).preference = p
      /\ Theme!compute(p).resolved = ResolvedAs(p, srv.dark)
  BY <1>1, <1>2, ThemeComputed
<1>4. /\ tab \in [state: Theme!ThemeState \cup {Nothing}, root: Theme!ThemeState \cup {Nothing},
                  listens: BOOLEAN, missed: BOOLEAN]
      /\ tab.state = Theme!compute(p) /\ tab.state \in Theme!ThemeState /\ tab.root = tab.state
  BY <1>1, <1>2, ThemePainted
<1>5. /\ ui' = [ui EXCEPT ![t] = tab]
      /\ srv' = IF srv.blocked THEN srv ELSE [srv EXCEPT !.stored = p]
      /\ net' = [net EXCEPT !.ops = net.ops + 1,
                   !.storage = IF srv.blocked \/ srv.stored = p THEN net.storage ELSE net.storage \cup (Tabs \ {t})]
  BY DEF Theme!Cycle
<1> HIDE DEF p, tab
<1>6. /\ srv'.blocked = srv.blocked /\ srv'.dark = srv.dark
      /\ srv.blocked => srv' = srv
      /\ ~srv.blocked => srv'.stored = p
      /\ srv' \in [stored: Theme!ThemePreference \cup {Nothing}, blocked: BOOLEAN, dark: BOOLEAN]
  BY <1>1, <1>2, <1>5 DEF ThemeFields
<1>7. /\ {"storage", "change", "ops"} \subseteq DOMAIN net' /\ net'.change = net.change
      /\ net'.storage = IF srv.blocked \/ srv.stored = p THEN net.storage ELSE net.storage \cup (Tabs \ {t})
  BY <1>1, <1>5 DEF ThemeFields
<1>8. ThemeFields(srv', ui', net')
  BY <1>1, <1>4, <1>5, <1>6, <1>7 DEF ThemeFields
<1>9. ui'[t] = tab /\ \A x \in Tabs \ {t} : ui'[x] = ui[x]
  BY <1>1, <1>5 DEF ThemeFields
<1>10. TabShows(srv', tab, t \notin net'.storage, t \notin net'.change)
  <2>1. srv.blocked \/ StoredIn(srv') = p
    BY <1>2, <1>6, PanelAssumption DEF StoredIn
  <2>2. QED
    BY <1>3, <1>4, <1>6, <2>1 DEF TabShows
<1>11. ASSUME NEW x \in Tabs \ {t}
       PROVE  TabShows(srv', ui'[x], x \notin net'.storage, x \notin net'.change)
  <2>1. TabShows(srv, ui[x], x \notin net.storage, x \notin net.change)
    BY <1>1
  <2>2. x \notin net'.storage => x \notin net.storage /\ (srv.blocked \/ srv.stored = p)
    BY <1>7
  <2>3. x \notin net'.storage => srv'.blocked \/ StoredIn(srv') = StoredIn(srv)
    BY <1>6, <2>2 DEF StoredIn
  <2>4. QED
    BY <1>6, <1>7, <1>9, <2>1, <2>2, <2>3 DEF TabShows
<1>12. QED
  BY <1>8, <1>9, <1>10, <1>11 DEF ThemeFresh

\* All tabs are told when the storage is emptied, and when the system changes.
LEMMA ThemeOutside ==
  ASSUME ThemeFresh(srv, ui, net), Theme!ClearStorage \/ Theme!SystemChanges
  PROVE  ThemeFresh(srv', ui', net')
<1>1. /\ ThemeFields(srv, ui, net) /\ ui' = ui
      /\ \A x \in Tabs : TabShows(srv, ui[x], x \notin net.storage, x \notin net.change)
  BY DEF ThemeFresh, Theme!ClearStorage, Theme!SystemChanges
<1>2. CASE Theme!ClearStorage
  <2>1. /\ srv' = [srv EXCEPT !.stored = Nothing] /\ net' = [net EXCEPT !.storage = Tabs, !.ops = net.ops + 1]
    BY <1>2 DEF Theme!ClearStorage
  <2>2. /\ {"storage", "change", "ops"} \subseteq DOMAIN net' /\ net'.change = net.change /\ net'.storage = Tabs
        /\ srv'.dark = srv.dark
        /\ srv' \in [stored: Theme!ThemePreference \cup {Nothing}, blocked: BOOLEAN, dark: BOOLEAN]
    BY <1>1, <2>1 DEF ThemeFields
  <2>3. QED
    BY <1>1, <2>2 DEF ThemeFresh, ThemeFields, TabShows
<1>3. CASE Theme!SystemChanges
  <2>1. /\ srv' = [srv EXCEPT !.dark = ~srv.dark] /\ net' = [net EXCEPT !.change = Tabs, !.ops = net.ops + 1]
    BY <1>3 DEF Theme!SystemChanges
  <2>2. /\ {"storage", "change", "ops"} \subseteq DOMAIN net' /\ net'.storage = net.storage /\ net'.change = Tabs
        /\ srv'.stored = srv.stored /\ srv'.blocked = srv.blocked
        /\ srv' \in [stored: Theme!ThemePreference \cup {Nothing}, blocked: BOOLEAN, dark: BOOLEAN]
    BY <1>1, <2>1 DEF ThemeFields
  <2>3. \A p : p # "system" => ResolvedAs(p, srv'.dark) = ResolvedAs(p, srv.dark)
    BY DEF ResolvedAs
  <2>4. StoredIn(srv') = StoredIn(srv)
    BY <2>2 DEF StoredIn
  <2>5. ASSUME NEW x \in Tabs
        PROVE  TabShows(srv', ui[x], x \notin net'.storage, x \notin net'.change)
    BY <1>1, <2>2, <2>3, <2>4 DEF TabShows
  <2>6. QED
    BY <1>1, <2>2, <2>5 DEF ThemeFresh, ThemeFields
<1>4. QED
  BY <1>2, <1>3

LEMMA NextTheme ==
  ASSUME ThemeFresh(srv, ui, net), [Theme!Next]_<<srv, ui, net>> PROVE ThemeFresh(srv', ui', net')
<1>1. CASE UNCHANGED <<srv, ui, net>>
  BY <1>1
<1>2. CASE Theme!Next
  BY <1>2, ThemeTabs, ThemeCycles, ThemeOutside DEF Theme!Next
<1>3. QED
  BY <1>1, <1>2

\* A tab that was told of everything shows the shared preference as the system resolves it.
LEMMA ThemeShown == ASSUME ThemeFresh(srv, ui, net) PROVE Theme!ThemeIsCurrent
<1>1. ASSUME NEW t \in Tabs, ui[t].state # Nothing, ~ui[t].missed, t \notin net.storage \cup net.change
      PROVE  /\ ui[t].root = Theme!compute(ui[t].state.preference)
             /\ srv.blocked \/ ui[t].state.preference = Theme!readStoredPreference
  <2>1. /\ ThemeFields(srv, ui, net)
        /\ ui[t].state \in Theme!ThemeState /\ ui[t].root = ui[t].state
        /\ ui[t].state.resolved = ResolvedAs(ui[t].state.preference, srv.dark)
        /\ srv.blocked \/ ui[t].state.preference = StoredIn(srv)
    BY <1>1 DEF ThemeFresh, TabShows
  <2>2. /\ ui[t].state.preference \in Theme!ThemePreference
        /\ ui[t].state = [preference |-> ui[t].state.preference, resolved |-> ui[t].state.resolved]
    BY <2>1 DEF Theme!ThemeState
  <2>3. ui[t].state = Theme!compute(ui[t].state.preference)
    BY <2>1, <2>2 DEF Theme!compute, Theme!resolveTheme, ResolvedAs
  <2>4. Theme!readStoredPreference = StoredIn(srv)
    BY DEF Theme!readStoredPreference, StoredIn
  <2>5. QED
    BY <2>1, <2>3, <2>4
<1>2. QED
  BY <1>1 DEF Theme!ThemeIsCurrent

-----------------------------------------------------------------------------
(* The panel                                                                   *)

\* Once nothing is awaited every page shows what the api holds, whatever was read,
\* answered, streamed, changed elsewhere or lost meanwhile, but for the ways that each
\* part names in which the code lets an older answer win.
THEOREM PagesAreCurrent == Spec => []ShownIsCurrent
<1> DEFINE Inv == /\ part = "feed" => FeedFresh(Feed!Listed, srv, ui, net)
                  /\ part = "digest" => DigestFresh(srv, ui, net)
                  /\ part = "product" => ProductFresh(srv, ui, net)
                  /\ part = "table" => TableFresh(srv, ui, net)
                  /\ part = "people" => PeopleFresh(srv, ui, net)
                  /\ part = "history" => HistoryFresh(srv, ui, net)
                  /\ part = "economy" => EconomyFresh(srv, ui, net)
                  /\ part = "wizard" => WizardFresh(srv, ui, net)
                  /\ part = "registry" => RegistryFresh(srv, ui, net)
                  /\ part = "health" => HealthFresh(srv, ui, net)
                  /\ part = "groups" => GroupsOk(srv)
                  /\ part = "theme" => ThemeFresh(srv, ui, net)
<1>1. Init => Inv
  BY FeedInit, DigestInit, ProductInit, TableInit, PeopleInit, HistoryInit, EconomyInit, WizardInit, RegistryInit, HealthInit, GroupsInit, ThemeInit DEF Init
<1>2. Inv /\ [Next]_vars => Inv'
  <2> SUFFICES ASSUME Inv, [Next]_vars PROVE Inv'
    OBVIOUS
  <2>1. part' = "feed" => FeedFresh(Feed!Listed', srv', ui', net')
    BY ShownStays, NextFeed
  <2>2. part' = "digest" => DigestFresh(srv', ui', net')
    BY ShownStays, NextDigest
  <2>3. part' = "product" => ProductFresh(srv', ui', net')
    BY ShownStays, NextProduct
  <2>4. part' = "table" => TableFresh(srv', ui', net')
    BY ShownStays, NextTable
  <2>5. part' = "people" => PeopleFresh(srv', ui', net')
    BY ShownStays, NextPeople
  <2>6. part' = "history" => HistoryFresh(srv', ui', net')
    BY ShownStays, NextHistory
  <2>7. part' = "economy" => EconomyFresh(srv', ui', net')
    BY ShownStays, NextEconomy
  <2>8. part' = "wizard" => WizardFresh(srv', ui', net')
    BY ShownStays, NextWizard
  <2>9. part' = "registry" => RegistryFresh(srv', ui', net')
    BY ShownStays, NextRegistry
  <2>10. part' = "health" => HealthFresh(srv', ui', net')
    BY ShownStays, NextHealth
  <2>11. part' = "groups" => GroupsOk(srv')
    BY PartStays, NextGroups
  <2>12. part' = "theme" => ThemeFresh(srv', ui', net')
    BY ShownStays, NextTheme
  <2>13. QED
    BY <2>1, <2>2, <2>3, <2>4, <2>5, <2>6, <2>7, <2>8, <2>9, <2>10, <2>11, <2>12
<1>3. Inv => ShownIsCurrent
  <2> SUFFICES ASSUME Inv PROVE ShownIsCurrent
    OBVIOUS
  <2>1. part = "feed" => Feed!FeedIsCurrent
    BY FeedShown
  <2>2. part = "digest" => Digest!DigestKeepsChanges
    BY DigestShown
  <2>3. part = "product" => Product!CorrectionIsShown
    BY ProductShown
  <2>4. part = "table" => Table!TableIsCurrent
    BY TableShown
  <2>5. part = "people" => People!CardsAreCurrent
    BY PeopleShown
  <2>6. part = "history" => History!RowsAreOfFilters
    BY HistoryShown
  <2>7. part = "economy" => Economy!ReportIsCurrent
    BY EconomyShown
  <2>8. part = "wizard" => Wizard!OwnChangeIsShown
    BY WizardShown
  <2>9. part = "registry" => Registry!SourcesAreCurrent
    BY RegistryShown
  <2>10. part = "health" => Health!AdapterIsCurrent
    BY HealthShown
  <2>11. part = "groups" => Groups!ListIsOfAccount
    BY DEF GroupsOk, Groups!ListIsOfAccount
  <2>12. part = "theme" => Theme!ThemeIsCurrent
    BY ThemeShown
  <2>13. QED
    BY <2>1, <2>2, <2>3, <2>4, <2>5, <2>6, <2>7, <2>8, <2>9, <2>10, <2>11, <2>12 DEF ShownIsCurrent
<1> HIDE DEF Inv
<1>4. QED
  BY <1>1, <1>2, <1>3, PTL DEF Spec
=============================================================================
