---------------------------- MODULE OutboxProofs -----------------------------
(*************************************************************************)
(* What holds of the outbound notifications for any events, any pollers  *)
(* and any number of crashes, lost answers and overlapping polls.        *)
(*************************************************************************)
EXTENDS Outbox, FiniteSetTheorems, TLAPS

-----------------------------------------------------------------------------
(* Types.                                                                *)

\* The midnight before a time is a time.
LEMMA DayStartIsTime ==
  ASSUME NEW t \in Times
  PROVE  DayStart(t) \in Times
BY OutboxAssumption DEF DayStart, Times

\* A step that changes no more than the record of one poller keeps the types.
LEMMA OnePollerKeepsTypes ==
  ASSUME TypeOK, NEW p \in Pollers, NEW r \in Poll, poll' = [poll EXCEPT ![p] = r],
         UNCHANGED <<event, now>>, mark' \in Times \cup {NoMark},
         box' \in [Events -> Row], told' \in [Events -> Nat], mishaps' \in 0..MaxMishaps
  PROVE  TypeOK'
BY DEF TypeOK

LEMMA NoPollIsPoll == NoPoll \in Poll
BY OutboxAssumption DEF NoPoll, Poll, Steps, Times

\* Every step of the writers and of the pollers keeps the types.
LEMMA TypeStep ==
  ASSUME TypeOK, [Next]_vars
  PROVE  TypeOK'
<1>1. CASE Tick
  BY <1>1, OutboxAssumption DEF Tick, TypeOK, Times
<1>2. ASSUME NEW e \in Events, Stamp(e) PROVE TypeOK'
  BY <1>2 DEF Stamp, TypeOK, Event
<1>3. ASSUME NEW e \in Events, Store(e) PROVE TypeOK'
  BY <1>3 DEF Store, TypeOK, Event
<1>4. ASSUME NEW p \in Pollers, StartPoll(p) PROVE TypeOK'
  <2>1. [NoPoll EXCEPT !.step = "mark", !.start = now] \in Poll
    BY NoPollIsPoll DEF Poll, Steps, TypeOK
  <2>2. mishaps' \in 0..MaxMishaps
    BY <1>4, OutboxAssumption DEF StartPoll, TypeOK
  <2> QED
    BY <1>4, <2>1, <2>2, OnePollerKeepsTypes DEF StartPoll, TypeOK
<1>5. ASSUME NEW p \in Pollers, ReadMark(p) PROVE TypeOK'
  <2> DEFINE since == IF mark = NoMark THEN DayStart(poll[p].start) ELSE mark
             first == (mark = NoMark)
             r == [poll[p] EXCEPT !.step = "read", !.first = first, !.since = since]
  <2>1. since \in Times /\ first \in BOOLEAN
    BY DayStartIsTime DEF TypeOK, Poll
  <2>2. r \in Poll
    <3> HIDE DEF since, first
    <3> QED
      BY <2>1, ZenonT(60) DEF Poll, Steps, TypeOK
  <2> QED
    BY <1>5, <2>2, OnePollerKeepsTypes DEF ReadMark, TypeOK
<1>6. ASSUME NEW p \in Pollers, ReadEvents(p) PROVE TypeOK'
  <2> DEFINE todo == {e \in Events : Unprojected(e, poll[p].since) /\ IsNotifiable(e)}
             r == [poll[p] EXCEPT !.step = "save", !.todo = todo]
  <2>1. r \in Poll
    <3>1. todo \in SUBSET Events
      OBVIOUS
    <3> HIDE DEF todo
    <3> QED
      BY <3>1, ZenonT(60) DEF Poll, Steps, TypeOK
  <2> QED
    BY <1>6, <2>1, OnePollerKeepsTypes DEF ReadEvents, TypeOK
<1>7. ASSUME NEW p \in Pollers, SaveOutbox(p) PROVE TypeOK'
  <2> DEFINE step == IF poll[p].first THEN "set" ELSE "list"
             r == [poll[p] EXCEPT !.todo = {}, !.step = step]
  <2>1. r \in Poll
    <3>1. step \in Steps /\ poll[p] \in Poll
      BY DEF Steps, TypeOK
    <3> HIDE DEF step
    <3> QED
      BY <3>1 DEF Poll
  <2>2. box' \in [Events -> Row]
    BY <1>7 DEF SaveOutbox, Entry, Row, TypeOK
  <2> QED
    BY <1>7, <2>1, <2>2, OnePollerKeepsTypes DEF SaveOutbox, TypeOK
<1>8. ASSUME NEW p \in Pollers, SetMark(p) PROVE TypeOK'
  <2>1. [poll[p] EXCEPT !.step = "list"] \in Poll
    BY DEF Poll, Steps, TypeOK
  <2>2. mark' \in Times \cup {NoMark}
    BY <1>8 DEF SetMark, TypeOK, Poll
  <2> QED
    BY <1>8, <2>1, <2>2, OnePollerKeepsTypes DEF SetMark, TypeOK
<1>9. ASSUME NEW p \in Pollers, ListPending(p) PROVE TypeOK'
  <2>1. PICK scan \in SUBSET Events :
          poll' = [poll EXCEPT ![p] = [@ EXCEPT !.step = "send",
            !.batches = IF Cardinality(scan) > PollCap THEN {scan} ELSE {{e} : e \in scan}]]
    BY <1>9 DEF ListPending
  <2> DEFINE batches == IF Cardinality(scan) > PollCap THEN {scan} ELSE {{e} : e \in scan}
             r == [poll[p] EXCEPT !.step = "send", !.batches = batches]
  <2>2. batches \in SUBSET (SUBSET Events) /\ poll[p] \in Poll
    BY DEF TypeOK
  <2>3. r \in Poll
    <3> HIDE DEF batches
    <3> QED
      BY <2>2 DEF Poll, Steps
  <2> QED
    BY <1>9, <2>1, <2>3, OnePollerKeepsTypes DEF ListPending, TypeOK
<1>10. ASSUME NEW p \in Pollers, Send(p) PROVE TypeOK'
  <2>1. PICK batch \in poll[p].batches, arrives \in BOOLEAN, answered \in BOOLEAN :
          /\ told' = IF arrives
                     THEN [e \in Events |-> IF e \in batch THEN told[e] + 1 ELSE told[e]]
                     ELSE told
          /\ poll' = [poll EXCEPT ![p] = [@ EXCEPT !.step = "settle", !.batches = poll[p].batches \ {batch},
                                  !.batch = batch, !.delivered = (arrives /\ answered)]]
          /\ IF arrives /\ ~ answered
             THEN mishaps < MaxMishaps /\ mishaps' = mishaps + 1
             ELSE UNCHANGED mishaps
    BY <1>10 DEF Send
  <2> DEFINE rest == poll[p].batches \ {batch}
             delivered == (arrives /\ answered)
             r == [poll[p] EXCEPT !.step = "settle", !.batches = rest,
                                  !.batch = batch, !.delivered = delivered]
  <2>2. r \in Poll
    <3>1. /\ rest \in SUBSET (SUBSET Events) /\ batch \in SUBSET Events
          /\ delivered \in BOOLEAN /\ poll[p] \in Poll
      BY DEF Poll, TypeOK
    <3> HIDE DEF rest, delivered
    <3> QED
      BY <3>1 DEF Poll, Steps
  <2>3. told' \in [Events -> Nat] /\ mishaps' \in 0..MaxMishaps
    BY <2>1, OutboxAssumption DEF TypeOK
  <2>4. poll' = [poll EXCEPT ![p] = r]
    BY <2>1
  <2> QED
    BY <1>10, <2>2, <2>3, <2>4, OnePollerKeepsTypes DEF Send, TypeOK
<1>11. ASSUME NEW p \in Pollers, Settle(p) PROVE TypeOK'
  <2>1. PICK e \in poll[p].batch :
          /\ box' = [box EXCEPT ![e] = IF poll[p].delivered THEN MarkSent(@) ELSE MarkFailed(@)]
          /\ poll' = [poll EXCEPT ![p] = [@ EXCEPT !.batch = poll[p].batch \ {e},
                                  !.step = IF poll[p].batch = {e} THEN "send" ELSE "settle"]]
    BY <1>11 DEF Settle
  <2> DEFINE rest == poll[p].batch \ {e}
             step == IF poll[p].batch = {e} THEN "send" ELSE "settle"
             r == [poll[p] EXCEPT !.batch = rest, !.step = step]
  <2>2. r \in Poll
    <3>1. rest \in SUBSET Events /\ step \in Steps /\ poll[p] \in Poll
      BY DEF Poll, Steps, TypeOK
    <3> HIDE DEF rest, step
    <3> QED
      BY <3>1 DEF Poll
  <2>3. e \in Events /\ MarkSent(box[e]) \in Row /\ MarkFailed(box[e]) \in Row
    BY DEF TypeOK, Poll, Row, MarkSent, MarkFailed
  <2>4. box' \in [Events -> Row]
    BY <2>1, <2>3 DEF TypeOK
  <2>5. poll' = [poll EXCEPT ![p] = r]
    BY <2>1
  <2> QED
    BY <1>11, <2>2, <2>4, <2>5, OnePollerKeepsTypes DEF Settle, TypeOK
<1>12. ASSUME NEW p \in Pollers, FinishPoll(p) PROVE TypeOK'
  BY <1>12, NoPollIsPoll, OnePollerKeepsTypes DEF FinishPoll, TypeOK
<1>13. ASSUME NEW p \in Pollers, Crash(p) PROVE TypeOK'
  <2>1. mishaps' \in 0..MaxMishaps
    BY <1>13, OutboxAssumption DEF Crash, TypeOK
  <2> QED
    BY <1>13, <2>1, NoPollIsPoll, OnePollerKeepsTypes DEF Crash, TypeOK
<1>14. CASE UNCHANGED vars
  BY <1>14 DEF vars, TypeOK
<1> QED
  BY <1>1, <1>2, <1>3, <1>4, <1>5, <1>6, <1>7, <1>8, <1>9, <1>10, <1>11, <1>12, <1>13, <1>14
  DEF Next, PollStep

\* The types of the events, the rows and the polls hold in every state.
THEOREM TypeCorrect == Spec => []TypeOK
<1>1. Init => TypeOK
  BY OutboxAssumption, NoPollIsPoll
  DEF Init, TypeOK, Times, NoEvent, Event, EventKinds, NoRow, Row
<1>2. TypeOK /\ [Next]_vars => TypeOK'
  BY TypeStep
<1> QED
  BY <1>1, <1>2, PTL DEF Spec

-----------------------------------------------------------------------------
(* What a poller has in its hands.                                       *)

BeforeList == {"mark", "read", "save", "set", "list"}

\* What each step of a poller does to its own record, and that it leaves the
\* records of the others alone.
LEMMA OwnRecord ==
  ASSUME TypeOK, NEW p \in Pollers
  PROVE  /\ StartPoll(p) \/ PollStep(p) \/ Crash(p) =>
              \A q \in Pollers : q # p => poll'[q] = poll[q]
         /\ StartPoll(p) =>
              /\ poll[p].step = "idle" /\ poll'[p].step = "mark"
              /\ poll'[p].todo = {} /\ poll'[p].batches = {} /\ poll'[p].batch = {}
         /\ ReadMark(p) \/ SetMark(p) \/ ReadEvents(p) \/ SaveOutbox(p) =>
              /\ poll[p].step \in BeforeList /\ poll'[p].step \in BeforeList
              /\ poll'[p].batches = poll[p].batches /\ poll'[p].batch = poll[p].batch
         /\ ReadMark(p) \/ SetMark(p) => poll'[p].todo = poll[p].todo
         /\ FinishPoll(p) \/ Crash(p) =>
              /\ poll[p].step # "idle" /\ poll'[p].step = "idle"
              /\ poll'[p].todo = {} /\ poll'[p].batches = {} /\ poll'[p].batch = {}
<1>1. poll \in [Pollers -> Poll] /\ poll[p] \in Poll
  BY DEF TypeOK
<1>2. ASSUME StartPoll(p) \/ PollStep(p) \/ Crash(p), NEW q \in Pollers, q # p
      PROVE  poll'[q] = poll[q]
  BY <1>1, <1>2
  DEF StartPoll, PollStep, ReadMark, ReadEvents, SaveOutbox, SetMark, ListPending, Send,
      Settle, FinishPoll, Crash
<1>3. ASSUME StartPoll(p)
      PROVE  /\ poll[p].step = "idle" /\ poll'[p].step = "mark"
             /\ poll'[p].todo = {} /\ poll'[p].batches = {} /\ poll'[p].batch = {}
  <2> DEFINE r == [NoPoll EXCEPT !.step = "mark", !.start = now]
  <2>1. poll[p].step = "idle" /\ poll' = [poll EXCEPT ![p] = r]
    BY <1>3 DEF StartPoll
  <2>2. r.step = "mark" /\ r.todo = {} /\ r.batches = {} /\ r.batch = {}
    BY DEF NoPoll
  <2> HIDE DEF r
  <2> QED
    BY <1>1, <2>1, <2>2
<1>4. ASSUME ReadMark(p)
      PROVE  /\ poll[p].step = "mark" /\ poll'[p].step = "read"
             /\ poll'[p].batches = poll[p].batches /\ poll'[p].batch = poll[p].batch
             /\ poll'[p].todo = poll[p].todo
  BY <1>1, <1>4 DEF ReadMark, Poll
<1>5. ASSUME SetMark(p)
      PROVE  /\ poll[p].step = "set" /\ poll'[p].step = "list"
             /\ poll'[p].batches = poll[p].batches /\ poll'[p].batch = poll[p].batch
             /\ poll'[p].todo = poll[p].todo
  BY <1>1, <1>5 DEF SetMark, Poll
<1>6. ASSUME ReadEvents(p)
      PROVE  /\ poll[p].step = "read" /\ poll'[p].step = "save"
             /\ poll'[p].batches = poll[p].batches /\ poll'[p].batch = poll[p].batch
  BY <1>1, <1>6 DEF ReadEvents, Poll
<1>7. ASSUME SaveOutbox(p)
      PROVE  /\ poll[p].step = "save" /\ poll'[p].step \in {"set", "list"}
             /\ poll'[p].batches = poll[p].batches /\ poll'[p].batch = poll[p].batch
  BY <1>1, <1>7 DEF SaveOutbox, Poll
<1>8. ASSUME FinishPoll(p) \/ Crash(p)
      PROVE  /\ poll[p].step # "idle" /\ poll'[p].step = "idle"
             /\ poll'[p].todo = {} /\ poll'[p].batches = {} /\ poll'[p].batch = {}
  <2>1. poll'[p] = NoPoll /\ poll[p].step # "idle"
    BY <1>1, <1>8 DEF FinishPoll, Crash
  <2> QED
    BY <2>1 DEF NoPoll
<1> QED
  BY <1>2, <1>3, <1>4, <1>5, <1>6, <1>7, <1>8 DEF BeforeList

\* A poller takes single events, or one summary, out of the rows that are pending.
LEMMA ListedRows ==
  ASSUME TypeOK, NEW p \in Pollers, ListPending(p)
  PROVE  /\ poll[p].step = "list" /\ poll'[p].step = "send"
         /\ poll'[p].todo = poll[p].todo /\ poll'[p].batch = poll[p].batch
         /\ \A b \in poll'[p].batches : b \subseteq Pending
         /\ \A b, c \in poll'[p].batches : b # c => b \cap c = {}
<1>1. PICK scan \in SUBSET Events :
        /\ Scans(scan)
        /\ poll' = [poll EXCEPT ![p] = [@ EXCEPT !.step = "send",
             !.batches = IF Cardinality(scan) > PollCap THEN {scan} ELSE {{e} : e \in scan}]]
  BY DEF ListPending
<1>2. poll'[p].batches \in {{scan}, {{e} : e \in scan}}
  BY <1>1 DEF TypeOK, Poll
<1>3. \A b \in poll'[p].batches : b \subseteq Pending
  BY <1>1, <1>2 DEF Scans
<1>4. \A b, c \in poll'[p].batches : b # c => b \cap c = {}
  BY <1>2
<1>5. /\ poll[p].step = "list" /\ poll'[p].step = "send"
      /\ poll'[p].todo = poll[p].todo /\ poll'[p].batch = poll[p].batch
  BY <1>1 DEF ListPending, TypeOK, Poll
<1> QED
  BY <1>3, <1>4, <1>5

\* One message is sent, of one batch: it arrives and is answered, or it arrives and
\* that costs a mishap, or it does not arrive.
SendsBatch(p, batch, arrives, answered) ==
  /\ poll[p].step = "send" /\ poll'[p].step = "settle"
  /\ poll'[p].todo = poll[p].todo /\ poll'[p].batches = poll[p].batches \ {batch}
  /\ poll'[p].batch = batch /\ poll'[p].delivered = (arrives /\ answered)
  /\ \A e \in Events : told'[e] = IF arrives /\ e \in batch THEN told[e] + 1 ELSE told[e]
  /\ mishaps' = IF arrives /\ ~ answered THEN mishaps + 1 ELSE mishaps

LEMMA SentBatch ==
  ASSUME TypeOK, NEW p \in Pollers, Send(p)
  PROVE  \E batch \in poll[p].batches, arrives, answered \in BOOLEAN :
           SendsBatch(p, batch, arrives, answered)
<1>1. PICK batch \in poll[p].batches, arrives \in BOOLEAN, answered \in BOOLEAN :
        /\ told' = IF arrives
                   THEN [e \in Events |-> IF e \in batch THEN told[e] + 1 ELSE told[e]]
                   ELSE told
        /\ poll' = [poll EXCEPT ![p] = [@ EXCEPT !.step = "settle",
                     !.batches = poll[p].batches \ {batch},
                     !.batch = batch, !.delivered = (arrives /\ answered)]]
        /\ IF arrives /\ ~ answered
           THEN mishaps < MaxMishaps /\ mishaps' = mishaps + 1
           ELSE UNCHANGED mishaps
  BY DEF Send
<1>2. /\ poll'[p].step = "settle" /\ poll'[p].todo = poll[p].todo
      /\ poll'[p].batches = poll[p].batches \ {batch}
      /\ poll'[p].batch = batch /\ poll'[p].delivered = (arrives /\ answered)
  BY <1>1 DEF TypeOK, Poll
<1>3. \A e \in Events : told'[e] = IF arrives /\ e \in batch THEN told[e] + 1 ELSE told[e]
  BY <1>1
<1>4. mishaps' = IF arrives /\ ~ answered THEN mishaps + 1 ELSE mishaps
  BY <1>1
<1>5. poll[p].step = "send"
  BY DEF Send
<1> QED
  BY <1>2, <1>3, <1>4, <1>5 DEF SendsBatch

\* One row of the batch that was sent is written.
SettlesRow(p, e) ==
  /\ e \in poll[p].batch /\ e \in Events
  /\ poll[p].step = "settle" /\ poll'[p].step \in {"send", "settle"}
  /\ poll'[p].step = "send" => poll'[p].batch = {}
  /\ poll'[p].todo = poll[p].todo /\ poll'[p].batches = poll[p].batches
  /\ poll'[p].batch = poll[p].batch \ {e} /\ poll'[p].delivered = poll[p].delivered
  /\ box'[e] = IF poll[p].delivered THEN MarkSent(box[e]) ELSE MarkFailed(box[e])
  /\ \A f \in Events : f # e => box'[f] = box[f]

LEMMA SettledRow ==
  ASSUME TypeOK, NEW p \in Pollers, Settle(p)
  PROVE  \E e \in poll[p].batch : SettlesRow(p, e)
<1>1. PICK e \in poll[p].batch :
        /\ box' = [box EXCEPT ![e] = IF poll[p].delivered THEN MarkSent(@) ELSE MarkFailed(@)]
        /\ poll' = [poll EXCEPT ![p] = [@ EXCEPT !.batch = poll[p].batch \ {e},
                     !.step = IF poll[p].batch = {e} THEN "send" ELSE "settle"]]
  BY DEF Settle
<1>2. e \in Events
  BY DEF TypeOK, Poll
<1>3. /\ poll'[p].step = IF poll[p].batch = {e} THEN "send" ELSE "settle"
      /\ poll'[p].todo = poll[p].todo /\ poll'[p].batches = poll[p].batches
      /\ poll'[p].batch = poll[p].batch \ {e} /\ poll'[p].delivered = poll[p].delivered
  BY <1>1 DEF TypeOK, Poll
<1>4. /\ box'[e] = IF poll[p].delivered THEN MarkSent(box[e]) ELSE MarkFailed(box[e])
      /\ \A f \in Events : f # e => box'[f] = box[f]
  BY <1>1, <1>2 DEF TypeOK
<1>5. poll[p].step = "settle"
  BY DEF Settle
<1> QED
  BY <1>2, <1>3, <1>4, <1>5 DEF SettlesRow

\* A poller holds messages only between their reading and their sending, no two of
\* them tell of the same event, and none of what is sent already is sent again.
HandsOf(p) ==
  /\ poll[p].step \notin {"send", "settle"} => poll[p].batches = {}
  /\ poll[p].step # "settle" => poll[p].batch = {}
  /\ \A b \in poll[p].batches : b \cap poll[p].batch = {}
  /\ \A b, c \in poll[p].batches : b # c => b \cap c = {}

HandsOK == \A p \in Pollers : HandsOf(p)

LEMMA HandsStep ==
  ASSUME TypeOK, HandsOK, [Next]_vars
  PROVE  HandsOK'
<1>1. CASE UNCHANGED poll
  BY <1>1 DEF HandsOK, HandsOf
<1>2. ASSUME NEW p \in Pollers, StartPoll(p) \/ PollStep(p) \/ Crash(p)
      PROVE  HandsOK'
  <2>1. HandsOf(p)
    BY DEF HandsOK
  <2>2. ASSUME StartPoll(p) \/ FinishPoll(p) \/ Crash(p) PROVE HandsOf(p)'
    BY <2>2, OwnRecord DEF HandsOf
  <2>3. ASSUME ReadMark(p) \/ ReadEvents(p) \/ SaveOutbox(p) \/ SetMark(p) PROVE HandsOf(p)'
    BY <2>1, <2>3, OwnRecord DEF HandsOf, BeforeList
  <2>4. ASSUME ListPending(p) PROVE HandsOf(p)'
    BY <2>1, <2>4, ListedRows DEF HandsOf
  <2>5. ASSUME Send(p) PROVE HandsOf(p)'
    BY <2>1, <2>5, SentBatch DEF HandsOf, SendsBatch
  <2>6. ASSUME Settle(p) PROVE HandsOf(p)'
    BY <2>1, <2>6, SettledRow DEF HandsOf, SettlesRow
  <2>7. HandsOf(p)'
    BY <1>2, <2>2, <2>3, <2>4, <2>5, <2>6 DEF PollStep
  <2> QED
    BY <1>2, <2>7, OwnRecord DEF HandsOK, HandsOf
<1> QED
  BY <1>1, <1>2 DEF Next, Tick, Stamp, Store, vars

LEMMA HandsCorrect == Spec => []HandsOK
<1>1. Init => HandsOK
  BY DEF Init, HandsOK, HandsOf, NoPoll
<1> QED
  BY <1>1, HandsStep, TypeCorrect, PTL DEF Spec

-----------------------------------------------------------------------------
(* The rows tell the truth.                                              *)

Tellable(e) == event[e].state = "stored" /\ event[e].kind = "notify"

\* Only stored events have rows and only presentable ones are pending or sent; what
\* a poller is to project is stored and notifiable, what it is to tell of is stored
\* and presentable, and what it holds to have delivered was told of.
ContentOf(p) ==
  /\ \A e \in poll[p].todo : event[e].state = "stored" /\ IsNotifiable(e)
  /\ \A b \in poll[p].batches : \A e \in b : Tellable(e)
  /\ \A e \in poll[p].batch : Tellable(e) /\ (poll[p].delivered => told[e] > 0)

RowIsTrue(e) ==
  /\ box[e].state # "none" => event[e].state = "stored"
  /\ box[e].state \in {"pending", "sent"} => event[e].kind = "notify"
  /\ box[e].state = "sent" => told[e] > 0
  /\ box[e].state = "failed" /\ event[e].kind = "notify" => box[e].attempts >= MaxAttempts
  /\ told[e] > 0 => Tellable(e)

Contents == (\A p \in Pollers : ContentOf(p)) /\ (\A e \in Events : RowIsTrue(e))

LEMMA ContentsStep ==
  ASSUME TypeOK, HandsOK, Contents, [Next]_vars
  PROVE  Contents'
<1> USE DEF Contents
<1>1. ASSUME UNCHANGED <<event, box, poll, told>> PROVE Contents'
  BY <1>1 DEF ContentOf, RowIsTrue, Tellable, IsNotifiable
<1>2. ASSUME NEW e \in Events, Stamp(e) \/ Store(e) PROVE Contents'
  <2>1. \A f \in Events : event[f].state = "stored" => event'[f] = event[f]
    BY <1>2 DEF Stamp, Store, TypeOK
  <2>2. \A f \in Events : RowIsTrue(f)'
    <3> SUFFICES ASSUME NEW f \in Events PROVE RowIsTrue(f)'
      OBVIOUS
    <3>1. UNCHANGED <<box, told>>
      BY <1>2 DEF Stamp, Store
    <3>2. CASE event[f].state = "stored"
      BY <2>1, <3>1, <3>2 DEF RowIsTrue, Tellable
    <3>3. CASE event[f].state # "stored"
      <4>1. box[f].state = "none" /\ ~ (told[f] > 0)
        BY <3>3 DEF RowIsTrue, Tellable
      <4> QED
        BY <3>1, <4>1 DEF RowIsTrue
    <3> QED
      BY <3>2, <3>3
  <2>3. \A p \in Pollers : ContentOf(p)'
    <3> SUFFICES ASSUME NEW p \in Pollers PROVE ContentOf(p)'
      OBVIOUS
    <3>1. UNCHANGED <<poll, told>> /\ poll[p] \in Poll
      BY <1>2 DEF Stamp, Store, TypeOK
    <3> QED
      BY <2>1, <3>1 DEF ContentOf, Tellable, IsNotifiable, Poll
  <2> QED
    BY <2>2, <2>3
<1>3. ASSUME NEW p \in Pollers, StartPoll(p) \/ PollStep(p) \/ Crash(p)
      PROVE  Contents'
  <2>1. UNCHANGED event /\ ContentOf(p) /\ poll[p] \in Poll
    BY <1>3 DEF StartPoll, PollStep, ReadMark, ReadEvents, SaveOutbox, SetMark, ListPending,
                Send, Settle, FinishPoll, Crash, TypeOK
  <2>2. \A q \in Pollers : q # p => poll'[q] = poll[q]
    BY <1>3, OwnRecord
  <2>3. ASSUME \A e \in Events : RowIsTrue(e)', \A e \in Events : told[e] > 0 => told'[e] > 0,
               ContentOf(p)'
        PROVE  Contents'
    <3>1. ASSUME NEW q \in Pollers, q # p PROVE ContentOf(q)'
      <4>1. poll'[q] = poll[q] /\ poll[q] \in Poll /\ ContentOf(q)
        BY <2>2, <3>1 DEF TypeOK
      <4> QED
        BY <2>1, <2>3, <4>1 DEF ContentOf, Tellable, IsNotifiable, Poll
    <3> QED
      BY <2>3, <3>1
  <2>4. ASSUME StartPoll(p) \/ FinishPoll(p) \/ Crash(p) PROVE Contents'
    <3>1. UNCHANGED <<box, told>>
      BY <2>4 DEF StartPoll, FinishPoll, Crash
    <3>2. ContentOf(p)'
      BY <2>4, OwnRecord DEF ContentOf
    <3>3. \A e \in Events : RowIsTrue(e)'
      BY <2>1, <3>1 DEF RowIsTrue, Tellable
    <3> QED
      BY <2>3, <3>1, <3>2, <3>3
  <2>5. ASSUME ReadMark(p) \/ SetMark(p) \/ ReadEvents(p) PROVE Contents'
    <3>1. UNCHANGED <<box, told>>
      BY <2>5 DEF ReadMark, SetMark, ReadEvents
    <3>2. poll[p].batch = {} /\ poll[p].batches = {}
      BY <2>5, OwnRecord DEF HandsOK, HandsOf, BeforeList
    <3>3. \A e \in poll'[p].todo : event[e].state = "stored" /\ IsNotifiable(e)
      <4>1. CASE ReadMark(p) \/ SetMark(p)
        BY <2>1, <4>1, OwnRecord DEF ContentOf
      <4>2. CASE ReadEvents(p)
        BY <2>1, <4>2 DEF ReadEvents, Unprojected, TypeOK, Poll
      <4> QED
        BY <2>5, <4>1, <4>2
    <3>4. ContentOf(p)'
      BY <2>1, <2>5, <3>2, <3>3, OwnRecord DEF ContentOf, IsNotifiable
    <3>5. \A e \in Events : RowIsTrue(e)'
      BY <2>1, <3>1 DEF RowIsTrue, Tellable
    <3> QED
      BY <2>3, <3>1, <3>4, <3>5
  <2>6. ASSUME SaveOutbox(p) PROVE Contents'
    <3>1. UNCHANGED told /\ poll'[p].todo = {}
      BY <2>1, <2>6 DEF SaveOutbox, TypeOK, Poll
    <3>2. poll[p].batch = {} /\ poll[p].batches = {}
      BY <2>6, OwnRecord DEF HandsOK, HandsOf, BeforeList
    <3>3. ContentOf(p)'
      BY <2>6, <3>1, <3>2, OwnRecord DEF ContentOf
    <3>4. ASSUME NEW e \in Events PROVE RowIsTrue(e)'
      <4>1. CASE e \in poll[p].todo /\ box[e].state = "none"
        <5>1. box'[e] = Entry(e) /\ event[e].kind \in {"notify", "forbidden"}
              /\ event[e].state = "stored"
          BY <2>1, <2>6, <4>1 DEF SaveOutbox, ContentOf, IsNotifiable, TypeOK, Event, EventKinds
        <5>2. /\ event[e].kind = "forbidden" => box'[e].state = "failed"
              /\ event[e].kind = "notify" => box'[e].state = "pending"
          BY <5>1 DEF Entry
        <5> QED
          BY <2>1, <3>1, <5>1, <5>2 DEF RowIsTrue, Tellable
      <4>2. CASE ~ (e \in poll[p].todo /\ box[e].state = "none")
        <5>1. box'[e] = box[e]
          BY <2>6, <4>2 DEF SaveOutbox
        <5> QED
          BY <2>1, <3>1, <5>1 DEF RowIsTrue, Tellable
      <4> QED
        BY <4>1, <4>2
    <3> QED
      BY <2>3, <3>1, <3>3, <3>4
  <2>7. ASSUME ListPending(p) PROVE Contents'
    <3>1. UNCHANGED <<box, told>>
      BY <2>7 DEF ListPending
    <3>2. \A e \in Pending : Tellable(e)
      BY DEF Pending, RowIsTrue, Tellable
    <3>3. /\ poll'[p].todo = poll[p].todo /\ poll'[p].batch = {}
          /\ \A b \in poll'[p].batches : b \subseteq Pending
      BY <2>7, ListedRows DEF HandsOK, HandsOf
    <3>4. ContentOf(p)'
      BY <2>1, <3>2, <3>3 DEF ContentOf, Tellable, IsNotifiable
    <3>5. \A e \in Events : RowIsTrue(e)'
      BY <2>1, <3>1 DEF RowIsTrue, Tellable
    <3> QED
      BY <2>3, <3>1, <3>4, <3>5
  <2>8. ASSUME Send(p) PROVE Contents'
    <3>1. PICK batch \in poll[p].batches, arrives \in BOOLEAN, answered \in BOOLEAN :
            SendsBatch(p, batch, arrives, answered)
      BY <2>8, SentBatch
    <3>2. UNCHANGED box /\ batch \subseteq Events
      BY <2>1, <2>8 DEF Send, Poll
    <3>3. \A e \in batch : Tellable(e)
      BY <2>1, <3>1 DEF ContentOf
    <3>4. \A e \in Events : /\ told[e] > 0 => told'[e] > 0
                            /\ arrives /\ e \in batch => told'[e] > 0
                            /\ told'[e] > 0 => told[e] > 0 \/ e \in batch
      BY <3>1 DEF SendsBatch, TypeOK
    <3>5. ContentOf(p)'
      <4>1. \A e \in poll'[p].todo : event'[e].state = "stored" /\ IsNotifiable(e)'
        BY <2>1, <3>1 DEF SendsBatch, ContentOf, IsNotifiable
      <4>2. \A b \in poll'[p].batches : \A e \in b : Tellable(e)'
        BY <2>1, <3>1 DEF SendsBatch, ContentOf, Tellable
      <4>3. \A e \in poll'[p].batch : Tellable(e)' /\ (poll'[p].delivered => told'[e] > 0)
        BY <2>1, <3>1, <3>2, <3>3, <3>4 DEF SendsBatch, Tellable
      <4> QED
        BY <4>1, <4>2, <4>3 DEF ContentOf
    <3>6. ASSUME NEW e \in Events PROVE RowIsTrue(e)'
      <4>1. told'[e] > 0 => Tellable(e)
        BY <3>3, <3>4 DEF RowIsTrue
      <4> QED
        BY <2>1, <3>2, <3>4, <4>1 DEF RowIsTrue, Tellable
    <3> QED
      BY <2>3, <3>4, <3>5, <3>6
  <2>9. ASSUME Settle(p) PROVE Contents'
    <3>1. PICK e \in poll[p].batch : SettlesRow(p, e)
      BY <2>9, SettledRow
    <3>2. UNCHANGED told /\ Tellable(e) /\ (poll[p].delivered => told[e] > 0)
      BY <2>1, <2>9 DEF Settle, ContentOf
    <3>3. ContentOf(p)'
      BY <2>1, <3>1, <3>2 DEF SettlesRow, ContentOf, Tellable, IsNotifiable
    <3>4. ASSUME NEW f \in Events PROVE RowIsTrue(f)'
      <4>1. CASE f = e
        <5>1. box[e].attempts \in Nat
          BY <3>1 DEF SettlesRow, TypeOK, Row
        <5>2. CASE poll[p].delivered
          <6>1. box'[e].state = "sent"
            BY <3>1, <5>2 DEF SettlesRow, MarkSent
          <6> QED
            BY <2>1, <3>2, <4>1, <5>2, <6>1 DEF RowIsTrue, Tellable
        <5>3. CASE ~ poll[p].delivered
          <6>1. /\ box'[e].state \in {"failed", "pending"}
                /\ box'[e].state = "failed" => box'[e].attempts >= MaxAttempts
            BY <3>1, <5>1, <5>3 DEF SettlesRow, MarkFailed
          <6> QED
            BY <2>1, <3>2, <4>1, <6>1 DEF RowIsTrue, Tellable
        <5> QED
          BY <5>2, <5>3
      <4>2. CASE f # e
        BY <2>1, <3>1, <3>2, <4>2 DEF SettlesRow, RowIsTrue, Tellable
      <4> QED
        BY <4>1, <4>2
    <3> QED
      BY <2>3, <3>2, <3>3, <3>4
  <2> QED
    BY <1>3, <2>4, <2>5, <2>6, <2>7, <2>8, <2>9 DEF PollStep
<1> QED
  BY <1>1, <1>2, <1>3 DEF Next, Tick, vars

\* In every state, whatever polls overlap and die: what the rows say was told of was
\* told of, nothing was given up early, and nothing went out that must not.
THEOREM RowsCorrect == Spec => []RowsTellTheTruth
<1>1. Init => Contents
  BY DEF Init, Contents, ContentOf, RowIsTrue, Tellable, NoPoll, NoRow
<1>2. Contents => RowsTellTheTruth
  BY DEF Contents, RowIsTrue, Tellable, RowsTellTheTruth
<1> QED
  BY <1>1, <1>2, ContentsStep, TypeCorrect, HandsCorrect, PTL DEF Spec

-----------------------------------------------------------------------------
(* Every repetition is paid for.                                         *)

\* The poller will send a message about e, or sent one that it holds to have failed.
Listed(p, e) ==
  \/ \E b \in poll[p].batches : e \in b
  \/ e \in poll[p].batch /\ ~ poll[p].delivered

MayTell(p, e) == poll[p].step \in BeforeList \/ Listed(p, e)

Tellers(e) == {p \in Pollers : MayTell(p, e)}

Open(e) == box[e].state \in {"none", "pending"}

Delivered(p, e) == e \in poll[p].batch /\ poll[p].delivered

\* While the row of an event is open, or a failed message may open it again, every
\* poll under way may tell of the event once more: each of them but one was paid for
\* when it was started beside another.  An open row that no poll is about to close
\* means that the first message, or a repetition, is still to come.
BudgetOf(e) ==
  /\ told[e] <= 1 + mishaps
  /\ Open(e) \/ (\E p \in Pollers : Listed(p, e)) =>
       told[e] + Cardinality(Tellers(e)) <= 1 + mishaps
  /\ Open(e) /\ (\A p \in Pollers : ~ Delivered(p, e)) => told[e] <= mishaps

Active == {p \in Pollers : poll[p].step # "idle"}

Budget == IsFiniteSet(Active) /\ \A e \in Events : BudgetOf(e)

\* A set of active pollers is finite, and so is what it gains and loses.
LEMMA FewerTellers ==
  ASSUME NEW S, IsFiniteSet(S), NEW T \in SUBSET S
  PROVE  /\ IsFiniteSet(T) /\ Cardinality(S) \in Nat /\ Cardinality(T) \in Nat
         /\ Cardinality(T) <= Cardinality(S)
         /\ \A x \in S \ T : Cardinality(T) + 1 <= Cardinality(S)
<1>1. IsFiniteSet(T) /\ Cardinality(T) <= Cardinality(S)
  BY FS_Subset
<1>2. Cardinality(S) \in Nat /\ Cardinality(T) \in Nat
  BY <1>1, FS_CardinalityType
<1>3. Cardinality(T) # Cardinality(S) \/ S = T
  BY FS_Subset
<1> QED
  BY <1>1, <1>2, <1>3

LEMMA TellersAreFinite ==
  ASSUME TypeOK, HandsOK, IsFiniteSet(Active), NEW e \in Events
  PROVE  IsFiniteSet(Tellers(e)) /\ Cardinality(Tellers(e)) \in Nat
<1>1. Tellers(e) \in SUBSET Active
  BY DEF Tellers, MayTell, Listed, Active, BeforeList, HandsOK, HandsOf
<1> QED
  BY <1>1, FewerTellers

\* While a poll may tell of an event, it and every other poll under way are paid for.
LEMMA ListedIsPaid ==
  ASSUME TypeOK, HandsOK, Budget, NEW e \in Events, NEW p \in Pollers, Listed(p, e)
  PROVE  told[e] <= mishaps
<1>1. p \in Tellers(e)
  BY DEF Tellers, MayTell
<1>2. IsFiniteSet(Tellers(e)) /\ Cardinality(Tellers(e)) \in Nat
  BY TellersAreFinite DEF Budget
<1>3. Cardinality(Tellers(e)) >= 1
  BY <1>1, <1>2, FS_EmptySet
<1>4. told[e] + Cardinality(Tellers(e)) <= 1 + mishaps
  BY DEF Budget, BudgetOf
<1> QED
  BY <1>2, <1>3, <1>4 DEF TypeOK

\* A step in which one poll tells nothing of e and is not to tell more of it than
\* before keeps the budget of e.
LEMMA BudgetKept ==
  ASSUME TypeOK, TypeOK', HandsOK, Budget, NEW e \in Events, NEW p \in Pollers,
         \A q \in Pollers : q # p => poll'[q] = poll[q],
         MayTell(p, e)' => MayTell(p, e),
         Listed(p, e)' => Open(e) \/ Listed(p, e),
         Open(e)' => Open(e) \/ Listed(p, e),
         Delivered(p, e) /\ Open(e)' => Delivered(p, e)' \/ mishaps' >= mishaps + 1,
         told'[e] = told[e], mishaps' >= mishaps
  PROVE  BudgetOf(e)'
<1>1. \A q \in Pollers : q # p =>
         /\ MayTell(q, e)' = MayTell(q, e) /\ Listed(q, e)' = Listed(q, e)
         /\ Delivered(q, e)' = Delivered(q, e)
  BY DEF MayTell, Listed, Delivered
<1>2. Tellers(e)' \in SUBSET Tellers(e)
  BY <1>1 DEF Tellers
<1>3. /\ Cardinality(Tellers(e)) \in Nat /\ Cardinality(Tellers(e)') \in Nat
      /\ Cardinality(Tellers(e)') <= Cardinality(Tellers(e))
  BY <1>2, TellersAreFinite, FewerTellers DEF Budget
<1>4. told[e] \in Nat /\ mishaps \in Nat /\ mishaps' \in Nat
  BY OutboxAssumption DEF TypeOK
<1>5. told[e] <= 1 + mishaps
  BY DEF Budget, BudgetOf
<1>6. ASSUME Open(e)' \/ \E q \in Pollers : Listed(q, e)'
      PROVE  told[e] + Cardinality(Tellers(e)) <= 1 + mishaps
  <2>1. Open(e) \/ \E q \in Pollers : Listed(q, e)
    BY <1>1, <1>6
  <2> QED
    BY <2>1 DEF Budget, BudgetOf
<1>7. ASSUME Open(e)', \A q \in Pollers : ~ Delivered(q, e)'
      PROVE  told[e] <= mishaps'
  <2>1. CASE \E q \in Pollers : Listed(q, e)
    BY <1>4, <2>1, ListedIsPaid
  <2>2. CASE Delivered(p, e)
    BY <1>4, <1>5, <1>7, <2>2
  <2>3. CASE ~ Delivered(p, e) /\ ~ \E q \in Pollers : Listed(q, e)
    <3>1. Open(e) /\ \A q \in Pollers : ~ Delivered(q, e)
      BY <1>1, <1>7, <2>3
    <3>2. told[e] <= mishaps
      BY <3>1 DEF Budget, BudgetOf
    <3> QED
      BY <1>4, <3>2
  <2> QED
    BY <2>1, <2>2, <2>3
<1> HIDE DEF Budget
<1>8. told'[e] <= 1 + mishaps'
  BY <1>4, <1>5
<1>9. Open(e)' \/ (\E q \in Pollers : Listed(q, e)') =>
        told'[e] + Cardinality(Tellers(e)') <= 1 + mishaps'
  BY <1>3, <1>4, <1>6
<1>10. Open(e)' /\ (\A q \in Pollers : ~ Delivered(q, e)') => told'[e] <= mishaps'
  BY <1>7
<1> QED
  BY <1>8, <1>9, <1>10 DEF BudgetOf

\* A poll that starts alone is the first that may tell of an event again, a poll that
\* starts beside another is paid for.
LEMMA StartIsPaid ==
  ASSUME TypeOK, TypeOK', HandsOK, Budget, NEW p \in Pollers, StartPoll(p), NEW e \in Events
  PROVE  BudgetOf(e)'
<1>1. \A q \in Pollers : q # p => poll'[q] = poll[q]
  BY OwnRecord
<1>2. /\ UNCHANGED <<box, told>> /\ poll[p].step = "idle"
      /\ poll'[p].batches = {} /\ poll'[p].batch = {}
      /\ poll[p].batches = {} /\ poll[p].batch = {}
  BY OwnRecord DEF StartPoll, HandsOK, HandsOf
<1>3. \A q \in Pollers : Listed(q, e)' = Listed(q, e) /\ Delivered(q, e)' = Delivered(q, e)
  BY <1>1, <1>2 DEF Listed, Delivered
<1>4. told[e] \in Nat /\ mishaps \in Nat /\ mishaps' \in Nat /\ told'[e] = told[e]
      /\ Open(e)' = Open(e)
  BY <1>2, OutboxAssumption DEF TypeOK, Open
<1>5. BudgetOf(e)
  BY DEF Budget
<1>6. CASE \A q \in Pollers : poll[q].step = "idle"
  <2>1. UNCHANGED mishaps
    BY <1>6 DEF StartPoll
  <2>2. \A q \in Pollers : poll[q].batches = {} /\ poll[q].batch = {}
    BY <1>6 DEF HandsOK, HandsOf
  <2>3. \A q \in Pollers : ~ Listed(q, e) /\ ~ Delivered(q, e)
    BY <2>2 DEF Listed, Delivered
  <2>4. \A q \in Pollers : q # p => ~ MayTell(q, e)'
    BY <1>1, <1>3, <1>6, <2>3 DEF MayTell, BeforeList
  <2>5. Tellers(e)' \in SUBSET {p}
    BY <2>4 DEF Tellers
  <2>6. Cardinality(Tellers(e)') \in Nat /\ Cardinality(Tellers(e)') <= 1
    <3>1. IsFiniteSet({p}) /\ Cardinality({p}) = 1
      BY FS_Singleton
    <3> QED
      BY <2>5, <3>1, FewerTellers
  <2>7. Open(e)' => told[e] <= mishaps
    BY <1>4, <1>5, <2>3 DEF BudgetOf
  <2>8. told'[e] <= 1 + mishaps'
    BY <1>4, <1>5, <2>1 DEF BudgetOf
  <2>9. ASSUME Open(e)' \/ \E q \in Pollers : Listed(q, e)'
        PROVE  told'[e] + Cardinality(Tellers(e)') <= 1 + mishaps'
    BY <1>3, <1>4, <2>1, <2>3, <2>6, <2>7, <2>9
  <2>10. Open(e)' => told'[e] <= mishaps'
    BY <1>4, <2>1, <2>7
  <2> QED
    BY <2>8, <2>9, <2>10 DEF BudgetOf
<1>7. CASE \E q \in Pollers : poll[q].step # "idle"
  <2>1. mishaps' = mishaps + 1
    BY <1>7 DEF StartPoll
  <2>2. Tellers(e)' \in SUBSET (Tellers(e) \cup {p})
    BY <1>1 DEF Tellers, MayTell, Listed
  <2>3. IsFiniteSet(Tellers(e)) /\ Cardinality(Tellers(e)) \in Nat
    BY TellersAreFinite DEF Budget
  <2>4. /\ IsFiniteSet(Tellers(e) \cup {p})
        /\ Cardinality(Tellers(e) \cup {p}) <= Cardinality(Tellers(e)) + 1
    <3>1. /\ IsFiniteSet(Tellers(e) \cup {p})
          /\ Cardinality(Tellers(e) \cup {p}) =
               IF p \in Tellers(e) THEN Cardinality(Tellers(e)) ELSE Cardinality(Tellers(e)) + 1
      BY <2>3, FS_AddElement
    <3> QED
      BY <2>3, <3>1
  <2>5. /\ Cardinality(Tellers(e)') \in Nat
        /\ Cardinality(Tellers(e)') <= Cardinality(Tellers(e)) + 1
    BY <2>2, <2>3, <2>4, FewerTellers
  <2>6. told'[e] <= 1 + mishaps'
    BY <1>4, <1>5, <2>1 DEF BudgetOf
  <2>7. ASSUME Open(e)' \/ \E q \in Pollers : Listed(q, e)'
        PROVE  told'[e] + Cardinality(Tellers(e)') <= 1 + mishaps'
    <3>1. told[e] + Cardinality(Tellers(e)) <= 1 + mishaps
      BY <1>3, <1>4, <1>5, <2>7 DEF BudgetOf
    <3> QED
      BY <1>4, <2>1, <2>3, <2>5, <3>1
  <2>8. told'[e] <= mishaps'
    BY <1>4, <1>5, <2>1 DEF BudgetOf
  <2> QED
    BY <2>6, <2>7, <2>8 DEF BudgetOf
<1> QED
  BY <1>6, <1>7

\* A message that arrives uses up what its poll had left to tell, or a mishap.
LEMMA SendIsPaid ==
  ASSUME TypeOK, TypeOK', HandsOK, Budget, NEW p \in Pollers, Send(p), NEW e \in Events
  PROVE  BudgetOf(e)'
<1>1. PICK batch \in poll[p].batches, arrives \in BOOLEAN, answered \in BOOLEAN :
        SendsBatch(p, batch, arrives, answered)
  BY SentBatch
<1>2. \A q \in Pollers : q # p => poll'[q] = poll[q]
  BY OwnRecord DEF PollStep
<1>3. UNCHANGED box /\ Open(e)' = Open(e)
  BY DEF Send, Open
<1>4. told[e] \in Nat /\ mishaps \in Nat /\ mishaps' \in Nat
  BY OutboxAssumption DEF TypeOK
<1>5. ~ MayTell(p, e) => ~ MayTell(p, e)'
  BY <1>1 DEF MayTell, Listed, SendsBatch, BeforeList
<1>6. ~ Listed(p, e) => ~ Listed(p, e)'
  BY <1>1 DEF Listed, SendsBatch
<1>7. ~ Delivered(p, e)
  BY <1>1 DEF Delivered, SendsBatch, HandsOK, HandsOf
<1>8. CASE ~ (arrives /\ e \in batch)
  <2>1. told'[e] = told[e] /\ mishaps' >= mishaps
    BY <1>1, <1>4, <1>8 DEF SendsBatch
  <2> QED
    BY <1>2, <1>3, <1>5, <1>6, <1>7, <2>1, BudgetKept
<1>9. CASE arrives /\ e \in batch
  <2>1. told'[e] = told[e] + 1 /\ Listed(p, e)
    BY <1>1, <1>9 DEF SendsBatch, Listed
  <2>2. told[e] <= mishaps
    BY <2>1, ListedIsPaid
  <2>3. told[e] + Cardinality(Tellers(e)) <= 1 + mishaps
    BY <2>1 DEF Budget, BudgetOf
  <2>4. IsFiniteSet(Tellers(e)) /\ Cardinality(Tellers(e)) \in Nat
    BY TellersAreFinite DEF Budget
  <2>5. Tellers(e)' \in SUBSET Tellers(e)
    BY <1>2, <1>5 DEF Tellers, MayTell, Listed
  <2>6. Cardinality(Tellers(e)') \in Nat /\ Cardinality(Tellers(e)') <= Cardinality(Tellers(e))
    BY <2>4, <2>5, FewerTellers
  <2>7. CASE answered
    <3>1. mishaps' = mishaps /\ Delivered(p, e)'
      BY <1>1, <1>9, <2>7 DEF SendsBatch, Delivered
    <3>2. \A b \in poll[p].batches : b # batch => e \notin b
      BY <1>9 DEF HandsOK, HandsOf
    <3>3. ~ MayTell(p, e)'
      BY <1>1, <1>9, <2>7, <3>2 DEF SendsBatch, MayTell, Listed, BeforeList
    <3>4. p \in Tellers(e) \ Tellers(e)'
      BY <2>1, <3>3 DEF Tellers, MayTell
    <3>5. Cardinality(Tellers(e)') + 1 <= Cardinality(Tellers(e))
      BY <2>4, <2>5, <3>4, FewerTellers
    <3>6. told'[e] <= 1 + mishaps' /\ told'[e] + Cardinality(Tellers(e)') <= 1 + mishaps'
      BY <1>4, <2>1, <2>2, <2>3, <2>4, <2>6, <3>1, <3>5
    <3> QED
      BY <3>1, <3>6 DEF BudgetOf
  <2>8. CASE ~ answered
    <3>1. mishaps' = mishaps + 1
      BY <1>1, <1>9, <2>8 DEF SendsBatch
    <3>2. /\ told'[e] <= mishaps' /\ told'[e] <= 1 + mishaps'
          /\ told'[e] + Cardinality(Tellers(e)') <= 1 + mishaps'
      BY <1>4, <2>1, <2>2, <2>3, <2>4, <2>6, <3>1
    <3> QED
      BY <3>2 DEF BudgetOf
  <2> QED
    BY <2>7, <2>8
<1> QED
  BY <1>8, <1>9

LEMMA BudgetStep ==
  ASSUME TypeOK, HandsOK, Budget, [Next]_vars
  PROVE  Budget'
<1>1. TypeOK'
  BY TypeStep
<1>2. CASE UNCHANGED <<poll, box, told, mishaps>>
  BY <1>2 DEF Budget, BudgetOf, Active, Open, Listed, Delivered, Tellers, MayTell
<1>3. ASSUME NEW p \in Pollers, StartPoll(p) \/ PollStep(p) \/ Crash(p)
      PROVE  Budget'
  <2>1. \A q \in Pollers : q # p => poll'[q] = poll[q]
    BY <1>3, OwnRecord
  <2>2. IsFiniteSet(Active')
    <3>1. Active' \in SUBSET (Active \cup {p})
      BY <2>1 DEF Active
    <3>2. IsFiniteSet(Active \cup {p})
      BY FS_AddElement DEF Budget
    <3> QED
      BY <3>1, <3>2, FS_Subset
  <2>3. ASSUME NEW e \in Events PROVE BudgetOf(e)'
    <3>1. mishaps \in Nat /\ mishaps' \in Nat
      BY <1>1, OutboxAssumption DEF TypeOK
    <3>2. HandsOf(p)
      BY DEF HandsOK
    <3>3. ASSUME StartPoll(p) PROVE BudgetOf(e)'
      BY <1>1, <3>3, StartIsPaid
    <3>4. ASSUME ReadMark(p) \/ ReadEvents(p) \/ SaveOutbox(p) \/ SetMark(p)
          PROVE  BudgetOf(e)'
      <4>1. /\ poll[p].step \in BeforeList /\ ~ Delivered(p, e)
            /\ Listed(p, e)' => Listed(p, e)
        BY <3>2, <3>4, OwnRecord DEF Listed, Delivered, HandsOf, BeforeList
      <4>2. UNCHANGED <<told, mishaps>>
        BY <3>4 DEF ReadMark, ReadEvents, SaveOutbox, SetMark
      <4>3. Open(e)' => Open(e)
        BY <3>4 DEF ReadMark, ReadEvents, SaveOutbox, SetMark, Open
      <4> QED
        BY <1>1, <2>1, <3>1, <4>1, <4>2, <4>3, BudgetKept DEF MayTell
    <3>5. ASSUME ListPending(p) PROVE BudgetOf(e)'
      <4>1. UNCHANGED <<box, told, mishaps>> /\ Open(e)' = Open(e)
        BY <3>5 DEF ListPending, Open
      <4>2. ~ Delivered(p, e) /\ MayTell(p, e)
        BY <3>2, <3>5, ListedRows DEF HandsOf, Delivered, MayTell, BeforeList
      <4>3. Listed(p, e)' => Open(e)
        BY <3>2, <3>5, ListedRows DEF HandsOf, Listed, Open, Pending
      <4> QED
        BY <1>1, <2>1, <3>1, <4>1, <4>2, <4>3, BudgetKept
    <3>6. ASSUME Send(p) PROVE BudgetOf(e)'
      BY <1>1, <3>6, SendIsPaid
    <3>7. ASSUME Settle(p) PROVE BudgetOf(e)'
      <4>1. PICK f \in poll[p].batch : SettlesRow(p, f)
        BY <3>7, SettledRow
      <4>2. UNCHANGED <<told, mishaps>>
        BY <3>7 DEF Settle
      <4>3. Listed(p, e)' => Listed(p, e)
        BY <4>1 DEF SettlesRow, Listed
      <4>4. MayTell(p, e)' => MayTell(p, e)
        BY <4>1, <4>3 DEF SettlesRow, MayTell, BeforeList
      <4>5. Open(e)' => Open(e) \/ Listed(p, e)
        BY <4>1 DEF SettlesRow, Open, Listed, MarkSent
      <4>6. Delivered(p, e) /\ Open(e)' => Delivered(p, e)'
        BY <4>1 DEF SettlesRow, Open, Delivered, MarkSent
      <4> QED
        BY <1>1, <2>1, <3>1, <4>2, <4>3, <4>4, <4>5, <4>6, BudgetKept
    <3>8. ASSUME FinishPoll(p) \/ Crash(p) PROVE BudgetOf(e)'
      <4>1. UNCHANGED <<box, told>> /\ Open(e)' = Open(e)
        BY <3>8 DEF FinishPoll, Crash, Open
      <4>2. ~ MayTell(p, e)' /\ ~ Listed(p, e)'
        BY <3>8, OwnRecord DEF MayTell, Listed, BeforeList
      <4>3. mishaps' >= mishaps /\ (Delivered(p, e) => mishaps' >= mishaps + 1)
        <5>1. CASE FinishPoll(p)
          BY <3>1, <3>2, <5>1 DEF FinishPoll, HandsOf, Delivered
        <5>2. CASE Crash(p)
          BY <3>1, <5>2 DEF Crash
        <5> QED
          BY <3>8, <5>1, <5>2
      <4> QED
        BY <1>1, <2>1, <4>1, <4>2, <4>3, BudgetKept
    <3> QED
      BY <1>3, <3>3, <3>4, <3>5, <3>6, <3>7, <3>8 DEF PollStep
  <2> QED
    BY <2>2, <2>3 DEF Budget
<1> QED
  BY <1>2, <1>3 DEF Next, Tick, Stamp, Store, vars

\* For any number of events, pollers, crashes, lost answers and overlapping polls:
\* an event is told of once, and once more at most for each of these mishaps.
THEOREM RepeatsCorrect == Spec => []RepeatsArePaid
<1>1. Init => Budget
  <2> SUFFICES ASSUME Init PROVE Budget
    OBVIOUS
  <2>1. \A p \in Pollers : poll[p].step = "idle" /\ poll[p].batches = {} /\ poll[p].batch = {}
    BY DEF Init, NoPoll
  <2>2. Active = {}
    BY <2>1 DEF Active
  <2>3. \A e \in Events : Tellers(e) = {}
    BY <2>1 DEF Tellers, MayTell, Listed, BeforeList
  <2>4. \A e \in Events : BudgetOf(e)
    BY <2>3, FS_EmptySet DEF Init, BudgetOf
  <2> QED
    BY <2>2, <2>4, FS_EmptySet DEF Budget
<1>2. Budget => RepeatsArePaid
  BY DEF Budget, BudgetOf, RepeatsArePaid
<1> QED
  BY <1>1, <1>2, BudgetStep, TypeCorrect, HandsCorrect, PTL DEF Spec
=============================================================================
