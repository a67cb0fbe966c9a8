-------------------------- MODULE EventStreamProofs --------------------------
(***************************************************************************)
(* Nothing is missed and nothing disappears, for every number of events,   *)
(* connections, failures and events of other runs, and every size of the   *)
(* queue.                                                                  *)
(***************************************************************************)
EXTENDS EventStream, TLAPS

Frames == Nat \X {"row", "own"} \X {"asis", "closed"}
EventsIn(items) == {item[1] : item \in items}

Types ==
  /\ rows \in Nat /\ pub \in Nat
  /\ queue \in [Conns -> Seq(Frames)] /\ out \in [Conns -> Seq(Frames)]
  /\ stage \in [Conns -> {"unused", "subscribed", "streaming", "gone"}]
  /\ cur \in Conns \cup {0}
  /\ dropped \in [Conns -> BOOLEAN]

\* At most the last committed row is still to be published.
PublishInv == pub <= rows /\ rows <= pub + 1

\* What the page has stored, or is about to store, was committed; and it never
\* stores less than it has.
StoredInv ==
  /\ EventsIn(snap) \subseteq 1 .. rows
  /\ ask = "answered" => /\ EventsIn(answer) \subseteq 1 .. rows
                         /\ EventsIn(snap) \subseteq EventsIn(answer)

IInv == Types /\ PublishInv /\ StoredInv /\ NothingMissed

-----------------------------------------------------------------------------
(* Sequences and what is shown *)

LEMMA ShownIs == Shown = EventsIn(snap) \cup EventsIn(live)
BY DEF Shown, Timeline, EventsIn

LEMMA HeadAndTail ==
  ASSUME NEW s \in Seq(Frames), s # <<>>
  PROVE  /\ Tail(s) \in Seq(Frames)
         /\ EventsOf(s) \subseteq {Head(s)[1]} \cup EventsOf(Tail(s))
<1>1. Tail(s) \in Seq(Frames) /\ Len(s) \in Nat \ {0} /\ DOMAIN s = 1 .. Len(s)
  OBVIOUS
<1>2. /\ Len(Tail(s)) = Len(s) - 1 /\ DOMAIN Tail(s) = 1 .. Len(s) - 1
      /\ Head(s) = s[1]
      /\ \A i \in 1 .. Len(s) - 1 : Tail(s)[i] = s[i + 1]
  OBVIOUS
<1>3. ASSUME NEW i \in DOMAIN s
      PROVE  s[i][1] \in {Head(s)[1]} \cup EventsOf(Tail(s))
  <2>1. CASE i = 1
    BY <1>2, <2>1
  <2>2. CASE i # 1
    <3>1. i - 1 \in DOMAIN Tail(s) /\ Tail(s)[i - 1] = s[i]
      BY <1>1, <1>2, <2>2
    <3> QED BY <3>1 DEF EventsOf
  <2> QED BY <2>1, <2>2
<1> QED BY <1>1, <1>3 DEF EventsOf

LEMMA Appended ==
  ASSUME NEW s \in Seq(Frames), NEW x \in Frames
  PROVE  /\ Append(s, x) \in Seq(Frames)
         /\ EventsOf(s) \cup {x[1]} \subseteq EventsOf(Append(s, x))
<1>1. /\ Append(s, x) \in Seq(Frames)
      /\ Len(s) \in Nat /\ DOMAIN s = 1 .. Len(s)
      /\ DOMAIN Append(s, x) = 1 .. Len(s) + 1
      /\ Append(s, x)[Len(s) + 1] = x
      /\ \A i \in 1 .. Len(s) : Append(s, x)[i] = s[i]
  OBVIOUS
<1>2. \A i \in DOMAIN s : i \in DOMAIN Append(s, x) /\ Append(s, x)[i] = s[i]
  BY <1>1
<1>3. Len(s) + 1 \in DOMAIN Append(s, x)
  BY <1>1
<1>4. x[1] \in EventsOf(Append(s, x))
  BY <1>1, <1>3 DEF EventsOf
<1>5. EventsOf(s) \subseteq EventsOf(Append(s, x))
  BY <1>2 DEF EventsOf
<1> QED BY <1>1, <1>4, <1>5

LEMMA StoredEvents == 
  ASSUME rows \in Nat
  PROVE  EventsIn(Stored) = 1 .. rows
<1>1. \A e : StoredRow(e)[1] = e
  BY DEF StoredRow
<1> QED BY <1>1 DEF EventsIn, Stored

\* Receiving an item shows it and keeps the rest.
LEMMA Received ==
  ASSUME NEW item, Receive(item), UNCHANGED snap
  PROVE  Shown \cup {item[1]} \subseteq Shown'
<1>1. /\ EventsIn(live) \subseteq EventsIn(live')
      /\ item[1] \in EventsIn(snap) \cup EventsIn(live')
  BY DEF Receive, EventsIn
<1>2. Shown' = EventsIn(snap') \cup EventsIn(live')
  BY DEF Shown, Timeline, EventsIn
<1> QED BY <1>1, <1>2, ShownIs

-----------------------------------------------------------------------------
(* What is shown *)

\* A step takes nothing from the screen, unless the page sees the end of the run.
LEMMA ShownStep ==
  ASSUME IInv, [Next]_vars
  PROVE  \/ Shown \subseteq Shown'
         \/ status' # status /\ cur' = 0
<1>1. Shown' = EventsIn(snap') \cup EventsIn(live')
  BY DEF Shown, Timeline, EventsIn
<1>2. ASSUME UNCHANGED <<snap, live>>
      PROVE  Shown \subseteq Shown'
  BY <1>2, <1>1, ShownIs
<1>3. CASE Server \/ Connect \/ Cut \/ UNCHANGED vars
  BY <1>2, <1>3 DEF Server, CommitRow, Publish, PublishOther, EndRun, Stop, Restart, Connect,
     Cut, vars, query, page
<1>4. ASSUME NEW c \in Conns, Stream(c)
      PROVE  Shown \subseteq Shown'
  <2>1. CASE LoadSnapshot(c) \/ Unsubscribe(c)
    BY <1>2, <2>1 DEF LoadSnapshot, Unsubscribe, query, page
  <2>2. CASE SendRow(c)
    BY <2>2, Received DEF SendRow, query
  <2>3. CASE SendLive(c)
    BY <1>2, <2>3, Received DEF SendLive, query
  <2> QED BY <1>4, <2>1, <2>2, <2>3 DEF Stream
<1>5. CASE PollRuns
  <2>1. CASE status = "running" /\ run = "ended"
    BY <1>5, <2>1 DEF PollRuns
  <2>2. CASE ~ (status = "running" /\ run = "ended")
    BY <1>2, <1>5, <2>2 DEF PollRuns
  <2> QED BY <2>1, <2>2
<1>6. CASE ReadEvents \/ EventsFail
  BY <1>2, <1>6 DEF ReadEvents, EventsFail, page
<1>7. CASE ReceiveEvents
  <2>1. EventsIn(snap) \subseteq EventsIn(snap') /\ UNCHANGED live
    BY <1>7 DEF ReceiveEvents, IInv, StoredInv, page
  <2> QED BY <1>1, <2>1, ShownIs
<1> QED BY <1>3, <1>4, <1>5, <1>6, <1>7 DEF Next, Query

-----------------------------------------------------------------------------
(* The invariant *)

\* What a connection still owes the page, and what it has shown.
Covered(c) == 1 .. pub \subseteq Shown \cup EventsOf(out[c]) \cup EventsOf(queue[c])

LEMMA MissedIs ==
  NothingMissed <=> (cur # 0 => stage[cur] # "streaming" \/ dropped[cur] \/ Covered(cur))
BY DEF NothingMissed, Covered

\* A step that leaves store and streams alone.
LEMMA Aside ==
  ASSUME IInv, [Next]_vars, UNCHANGED <<rows, pub, stage, queue, out, dropped>>,
         cur' = cur \/ cur' = 0
  PROVE  Types' /\ PublishInv' /\ NothingMissed'
<1>1. Types' /\ PublishInv'
  BY DEF IInv, Types, PublishInv
<1>2. cur' # 0 => Shown \subseteq Shown'
  BY ShownStep
<1>3. Covered(cur) /\ cur' # 0 => Covered(cur)'
  BY <1>2 DEF Covered
<1>4. NothingMissed'
  BY <1>3 DEF IInv, NothingMissed, Covered
<1> QED BY <1>1, <1>4

LEMMA StoredStep ==
  ASSUME IInv, [Next]_vars
  PROVE  StoredInv'
<1>1. rows \in Nat /\ rows' \in Nat /\ rows <= rows'
  BY DEF IInv, Types, Next, Server, CommitRow, Publish, PublishOther, EndRun, Stop, Restart,
     Stream, LoadSnapshot, SendRow, SendLive, Unsubscribe, Connect, Cut, Query, PollRuns,
     ReadEvents, ReceiveEvents, EventsFail, vars, store
<1>2. \A S : S \subseteq 1 .. rows => S \subseteq 1 .. rows'
  BY <1>1
<1>3. CASE UNCHANGED <<snap, ask, answer>>
  BY <1>2, <1>3 DEF IInv, StoredInv
<1>4. CASE UNCHANGED snap /\ ask' # "answered"
  BY <1>2, <1>4 DEF IInv, StoredInv
<1>5. CASE ReadEvents
  <2>1. ask' = "answered" /\ answer' = Stored /\ UNCHANGED <<snap, rows>>
    BY <1>5 DEF ReadEvents, store
  <2>2. EventsIn(answer') = 1 .. rows
    BY <1>1, <2>1, StoredEvents
  <2> QED BY <2>1, <2>2 DEF IInv, StoredInv
<1>6. CASE ReceiveEvents
  <2>1. ask = "answered" /\ ask' = "none" /\ snap' = answer /\ UNCHANGED rows
    BY <1>6 DEF ReceiveEvents, store
  <2> QED BY <2>1 DEF IInv, StoredInv
<1>7. CASE PollRuns
  BY <1>3, <1>4, <1>7 DEF PollRuns
<1>8. CASE EventsFail
  BY <1>4, <1>8 DEF EventsFail
<1>9. CASE Server \/ (\E c \in Conns : Stream(c)) \/ Connect \/ Cut \/ UNCHANGED vars
  BY <1>3, <1>9 DEF Server, CommitRow, Publish, PublishOther, EndRun, Stop, Restart, Stream,
     LoadSnapshot, SendRow, SendLive, Unsubscribe, Connect, Cut, vars, query
<1> QED BY <1>5, <1>6, <1>7, <1>8, <1>9 DEF Next, Query

\* An item is put into every queue that has room; the others are marked.
LEMMA FanOutEffect ==
  ASSUME Types, NEW item \in Frames, FanOut(item)
  PROVE  /\ queue' \in [Conns -> Seq(Frames)] /\ dropped' \in [Conns -> BOOLEAN]
         /\ UNCHANGED <<stage, out>>
         /\ \A c \in Conns : /\ EventsOf(queue[c]) \subseteq EventsOf(queue'[c])
                             /\ stage[c] = "streaming" /\ ~ dropped'[c] =>
                                  ~ dropped[c] /\ item[1] \in EventsOf(queue'[c])
<1>1. ASSUME NEW c \in Conns
      PROVE  /\ Append(queue[c], item) \in Seq(Frames)
             /\ EventsOf(queue[c]) \cup {item[1]} \subseteq EventsOf(Append(queue[c], item))
  BY Appended DEF Types
<1>2. \A c \in Conns : queue'[c] = IF c \in Subscribed /\ ~ Full(c) THEN Append(queue[c], item)
                                                                   ELSE queue[c]
  BY DEF FanOut
<1>3. \A c \in Conns : dropped'[c] = (dropped[c] \/ (c \in Subscribed /\ Full(c)))
  BY DEF FanOut
<1>4. queue' \in [Conns -> Seq(Frames)]
  BY <1>1 DEF FanOut, Types
<1>5. dropped' \in [Conns -> BOOLEAN]
  BY DEF FanOut
<1>6. ASSUME NEW c \in Conns, stage[c] = "streaming", ~ dropped'[c]
      PROVE  ~ dropped[c] /\ c \in Subscribed /\ ~ Full(c)
  BY <1>3, <1>6 DEF Subscribed
<1>7. UNCHANGED <<stage, out>>
  BY DEF FanOut
<1>8. ASSUME NEW c \in Conns
      PROVE  /\ EventsOf(queue[c]) \subseteq EventsOf(queue'[c])
             /\ stage[c] = "streaming" /\ ~ dropped'[c] =>
                  ~ dropped[c] /\ item[1] \in EventsOf(queue'[c])
  BY <1>1, <1>2, <1>6
<1> QED BY <1>4, <1>5, <1>7, <1>8

LEMMA ServerStep ==
  ASSUME IInv, Server
  PROVE  Types' /\ PublishInv' /\ NothingMissed'
<1>1. [Next]_vars
  BY DEF Next
<1>2. CASE EndRun \/ Restart
  BY <1>1, <1>2, Aside DEF EndRun, Restart, streams, page
<1>3. CASE CommitRow
  <2>1. rows' = rows + 1 /\ UNCHANGED <<pub, stage, queue, out, dropped, cur, snap, live>> /\ pub = rows
    BY <1>3 DEF CommitRow, streams, page, query
  <2> QED BY <2>1 DEF IInv, Types, PublishInv, NothingMissed, Shown, Timeline
<1>4. CASE Publish
  <2>1. PICK stamp \in {"row", "own"} : FanOut(<<rows, stamp, "asis">>)
    BY <1>4 DEF Publish
  <2> DEFINE item == <<rows, stamp, "asis">>
  <2>2. item \in Frames /\ item[1] = rows
    BY DEF IInv, Types, Frames
  <2>3. /\ queue' \in [Conns -> Seq(Frames)] /\ dropped' \in [Conns -> BOOLEAN]
        /\ UNCHANGED <<stage, out>>
        /\ \A c \in Conns : /\ EventsOf(queue[c]) \subseteq EventsOf(queue'[c])
                            /\ stage[c] = "streaming" /\ ~ dropped'[c] =>
                                 ~ dropped[c] /\ rows \in EventsOf(queue'[c])
    BY <2>1, <2>2, FanOutEffect DEF IInv
  <2>4. pub' = rows /\ pub < rows /\ UNCHANGED <<rows, cur, snap, live>>
    BY <1>4 DEF Publish, query, page
  <2>5. Types' /\ PublishInv'
    BY <2>3, <2>4 DEF IInv, Types, PublishInv
  <2>6. Shown' = Shown
    BY <2>4 DEF Shown, Timeline
  <2>7. 1 .. pub' \subseteq 1 .. pub \cup {rows}
    BY <2>4 DEF IInv, Types, PublishInv
  <2>8. NothingMissed'
    <3> SUFFICES ASSUME cur # 0, stage[cur] = "streaming", ~ dropped'[cur]
                 PROVE  1 .. pub' \subseteq Shown \cup EventsOf(out[cur]) \cup EventsOf(queue'[cur])
      BY <2>3, <2>4, <2>6 DEF NothingMissed
    <3>1. cur \in Conns
      BY DEF IInv, Types
    <3>2. 1 .. pub \subseteq Shown \cup EventsOf(out[cur]) \cup EventsOf(queue[cur])
      BY <2>3, <3>1 DEF IInv, NothingMissed
    <3> QED BY <2>3, <2>7, <3>1, <3>2
  <2> QED BY <2>5, <2>8
<1>5. CASE PublishOther
  <2>1. Foreign \in Frames
    BY DEF Foreign, Frames
  <2>2. /\ queue' \in [Conns -> Seq(Frames)] /\ dropped' \in [Conns -> BOOLEAN]
        /\ UNCHANGED <<stage, out>>
        /\ \A c \in Conns : /\ EventsOf(queue[c]) \subseteq EventsOf(queue'[c])
                            /\ stage[c] = "streaming" /\ ~ dropped'[c] => ~ dropped[c]
    BY <1>5, <2>1, FanOutEffect DEF IInv, PublishOther
  <2>3. UNCHANGED <<rows, pub, cur, snap, live>>
    BY <1>5 DEF PublishOther, store, query, page
  <2>4. Shown' = Shown
    BY <2>3 DEF Shown, Timeline
  <2>5. NothingMissed'
    <3> SUFFICES ASSUME cur # 0, stage[cur] = "streaming", ~ dropped'[cur]
                 PROVE  1 .. pub \subseteq Shown \cup EventsOf(out[cur]) \cup EventsOf(queue'[cur])
      BY <2>2, <2>3, <2>4 DEF NothingMissed
    <3>1. cur \in Conns
      BY DEF IInv, Types
    <3> QED BY <2>2, <3>1 DEF IInv, NothingMissed
  <2> QED BY <2>2, <2>3, <2>5 DEF IInv, Types, PublishInv
<1>6. CASE Stop
  <2>1. cur' = 0 /\ pub' = rows /\ UNCHANGED <<rows, dropped>>
    BY <1>6 DEF Stop
  <2>2. /\ queue' = [c \in Conns |-> <<>>] /\ out' = [c \in Conns |-> <<>>]
        /\ stage' \in [Conns -> {"unused", "subscribed", "streaming", "gone"}]
    BY <1>6 DEF Stop
  <2> QED BY <2>1, <2>2 DEF IInv, Types, PublishInv, NothingMissed
<1> QED BY <1>2, <1>3, <1>4, <1>5, <1>6 DEF Server

LEMMA StreamStep ==
  ASSUME IInv, NEW c \in Conns, Stream(c)
  PROVE  Types' /\ PublishInv' /\ NothingMissed'
<1>1. [Next]_vars
  BY DEF Next
<1>2. UNCHANGED <<rows, pub, cur, dropped>>
  BY DEF Stream, LoadSnapshot, SendRow, SendLive, Unsubscribe, store, page
<1>3. cur # 0 => cur \in Conns
  BY DEF IInv, Types
<1>4. 0 \notin Conns
  BY StreamAssumption DEF Conns
<1>5. CASE LoadSnapshot(c)
  <2>1. /\ out' = [out EXCEPT ![c] = [e \in 1 .. rows |-> StoredRow(e)]]
        /\ stage' = [stage EXCEPT ![c] = "streaming"]
        /\ UNCHANGED <<queue, snap, live>>
    BY <1>5 DEF LoadSnapshot, query, page
  <2> DEFINE list == [e \in 1 .. rows |-> StoredRow(e)]
  <2>2. \A e \in 1 .. rows : StoredRow(e) \in Frames /\ StoredRow(e)[1] = e
    BY DEF StoredRow, StateOf, Frames, IInv, Types
  <2>3. list \in Seq(Frames) /\ EventsOf(list) = 1 .. rows
    <3>1. rows \in Nat
      BY DEF IInv, Types
    <3>2. list \in [1 .. rows -> Frames] /\ DOMAIN list = 1 .. rows
      BY <2>2
    <3>3. list \in Seq(Frames)
      BY <3>1, <3>2
    <3>4. \A i \in 1 .. rows : list[i][1] = i
      BY <2>2
    <3>5. EventsOf(list) = {i : i \in 1 .. rows}
      BY <3>2, <3>4, Zenon DEF EventsOf
    <3> QED BY <3>3, <3>5
  <2> HIDE DEF list
  <2>4. Types' /\ PublishInv'
    BY <1>2, <2>1, <2>3 DEF IInv, Types, PublishInv, list
  <2>5. CASE cur = c
    <3>1. out'[cur] = list
      BY <2>1, <2>5 DEF IInv, Types, list
    <3>2. 1 .. pub \subseteq EventsOf(out'[cur])
      BY <2>3, <3>1 DEF IInv, Types, PublishInv
    <3> QED BY <1>2, <2>4, <3>2 DEF NothingMissed
  <2>6. CASE cur # c
    <3>1. cur # 0 => stage'[cur] = stage[cur] /\ out'[cur] = out[cur]
      BY <1>3, <2>1, <2>6 DEF IInv, Types
    <3>2. NothingMissed'
      BY <1>2, <2>1, <3>1 DEF IInv, NothingMissed, Shown, Timeline
    <3> QED BY <2>4, <3>2
  <2> QED BY <2>5, <2>6
<1>6. ASSUME cur = c, stage' = stage, Types',
             EventsOf(out[c]) \cup EventsOf(queue[c]) \cup Shown \subseteq
               EventsOf(out'[c]) \cup EventsOf(queue'[c]) \cup Shown' \cup {0}
      PROVE  Types' /\ PublishInv' /\ NothingMissed'
  <2>1. PublishInv'
    BY <1>2 DEF IInv, PublishInv
  <2>2. \A i \in 1 .. pub : i # 0
    BY DEF IInv, Types
  <2>3. Covered(c) => Covered(c)'
    BY <1>2, <1>6, <2>2 DEF Covered
  <2>4. NothingMissed'
    BY <1>2, <1>6, <2>3, MissedIs DEF IInv, NothingMissed, Covered
  <2> QED BY <1>6, <2>1, <2>4
<1>7. CASE SendRow(c)
  <2>1. /\ c = cur /\ out[c] # <<>> /\ out' = [out EXCEPT ![c] = Tail(out[c])]
        /\ Receive(Head(out[c])) /\ UNCHANGED <<stage, queue, snap>>
    BY <1>7 DEF SendRow, query
  <2>2. /\ Tail(out[c]) \in Seq(Frames)
        /\ EventsOf(out[c]) \subseteq {Head(out[c])[1]} \cup EventsOf(Tail(out[c]))
    BY <2>1, HeadAndTail DEF IInv, Types
  <2>3. out'[c] = Tail(out[c]) /\ Types'
    BY <1>2, <2>1, <2>2 DEF IInv, Types
  <2>4. Shown \cup {Head(out[c])[1]} \subseteq Shown'
    BY <2>1, Received
  <2> QED BY <1>6, <2>1, <2>2, <2>3, <2>4
<1>8. CASE SendLive(c)
  <2>1. /\ c = cur /\ queue[c] # <<>> /\ queue' = [queue EXCEPT ![c] = Tail(queue[c])]
        /\ Head(queue[c]) = Foreign \/ Receive(Head(queue[c]))
        /\ UNCHANGED <<stage, out, snap>>
    BY <1>8 DEF SendLive, query
  <2>2. /\ Tail(queue[c]) \in Seq(Frames)
        /\ EventsOf(queue[c]) \subseteq {Head(queue[c])[1]} \cup EventsOf(Tail(queue[c]))
    BY <2>1, HeadAndTail DEF IInv, Types
  <2>3. queue'[c] = Tail(queue[c]) /\ Types'
    BY <1>2, <2>1, <2>2 DEF IInv, Types
  <2>4. Shown \subseteq Shown'
    BY <1>1, <1>2, <2>1, <1>4, ShownStep
  <2>5. Head(queue[c])[1] \in Shown' \cup {0}
    <3>1. CASE Head(queue[c]) = Foreign
      BY <3>1 DEF Foreign
    <3>2. CASE Receive(Head(queue[c]))
      BY <2>1, <3>2, Received
    <3> QED BY <2>1, <3>1, <3>2
  <2> QED BY <1>6, <2>1, <2>2, <2>3, <2>4, <2>5
<1>9. CASE Unsubscribe(c)
  <2>1. /\ c # cur /\ stage' = [stage EXCEPT ![c] = "gone"]
        /\ queue' = [queue EXCEPT ![c] = <<>>] /\ out' = [out EXCEPT ![c] = <<>>]
        /\ UNCHANGED <<snap, live>>
    BY <1>9 DEF Unsubscribe, query, page
  <2>2. Types' /\ PublishInv'
    BY <1>2, <2>1 DEF IInv, Types, PublishInv
  <2>3. cur # 0 => stage'[cur] = stage[cur] /\ out'[cur] = out[cur] /\ queue'[cur] = queue[cur]
    BY <1>3, <2>1 DEF IInv, Types
  <2>4. NothingMissed'
    BY <1>2, <2>1, <2>3 DEF IInv, NothingMissed, Shown, Timeline
  <2> QED BY <2>2, <2>4
<1> QED BY <1>5, <1>7, <1>8, <1>9 DEF Stream

LEMMA PageStep ==
  ASSUME IInv, Connect \/ Cut \/ Query \/ UNCHANGED vars
  PROVE  Types' /\ PublishInv' /\ NothingMissed'
<1>1. [Next]_vars
  BY DEF Next
<1>2. CASE Connect
  <2>1. PICK c \in Conns : cur' = c /\ stage' = [stage EXCEPT ![c] = "subscribed"]
    BY <1>2 DEF Connect, Accept
  <2>2. UNCHANGED <<rows, pub, queue, out, dropped>>
    BY <1>2 DEF Connect, store
  <2>3. stage'[cur'] # "streaming"
    BY <2>1 DEF IInv, Types
  <2> QED BY <2>1, <2>2, <2>3 DEF IInv, Types, PublishInv, NothingMissed
<1>3. CASE Cut \/ Query \/ UNCHANGED vars
  BY <1>1, <1>3, Aside DEF Cut, Query, PollRuns, ReadEvents, ReceiveEvents, EventsFail, vars,
     store, streams, page
<1> QED BY <1>2, <1>3

LEMMA InitInv == Init => IInv
<1> SUFFICES ASSUME Init PROVE IInv
  OBVIOUS
<1>1. Types
  BY DEF Init, Types
<1>2. EventsIn(snap) = {}
  BY DEF Init, EventsIn
<1> QED BY <1>1, <1>2 DEF Init, IInv, PublishInv, StoredInv, NothingMissed

-----------------------------------------------------------------------------
(* Theorems *)

\* The inductive invariant: one row at most is committed and not published, the
\* page stores what was committed and never less, and nothing is missed.
THEOREM Inductive == Spec => []IInv
<1>1. IInv /\ [Next]_vars => IInv'
  BY StoredStep, ServerStep, StreamStep, PageStep DEF IInv, Next
<1> QED BY <1>1, InitInv, PTL DEF Spec

\* No published event falls between snapshot and queue (event_bus.py, api/jobs.py):
\* it is shown, about to be sent or in the queue, unless the queue was full.
THEOREM Missed == Spec => []NothingMissed
<1>1. IInv => NothingMissed
  BY DEF IInv
<1> QED BY <1>1, Inductive, PTL

\* What the timeline shows it keeps, except when the end of the run is seen
\* (src/frontend/lib/api/job-timeline.ts).
THEOREM ShownKept == Spec => ShownStays
<1>1. IInv /\ [Next]_vars => [status' = status => Shown \subseteq Shown']_vars
  BY ShownStep
<1> QED BY <1>1, Inductive, PTL DEF Spec, ShownStays

=============================================================================
