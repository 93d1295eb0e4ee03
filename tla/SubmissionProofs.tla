-------------------------- MODULE SubmissionProofs ---------------------------
(*************************************************************************)
(* What holds of the automation switch for any callers and any number of *)
(* days, and of order submission for any processes, orders, plans and    *)
(* faults.                                                               *)
(*************************************************************************)
EXTENDS Submission, Automation, TLAPS

-----------------------------------------------------------------------------
(* The automation switch.                                                *)

\* Begin asks for a state of the automation, whatever the kind of the caller.
LEMMA RequestsAreStates ==
  ASSUME NEW kind \in Kinds, NEW requested \in Requests(kind)
  PROVE  requested \in AutomationState
  BY DEF Kinds, Requests, AutomationState

\* Every step of transition_automation and of its callers keeps the types.
LEMMA AutoTypeStep ==
  ASSUME AutoTypeOK, [AutoNext]_autoVars
  PROVE  AutoTypeOK'
<1> USE DEF AutoTypeOK
<1>1. ASSUME NEW c \in Callers, NEW kind \in Kinds, Begin(c, kind) PROVE AutoTypeOK'
  <2>1. PICK requested \in Requests(kind) :
          call' = [call EXCEPT ![c] =
                     [phase |-> IF kind \in Prechecked THEN "check" ELSE "open",
                      kind |-> kind, requested |-> requested,
                      day |-> TradingDate, seen |-> Unwritten]]
    BY <1>1 DEF Begin
  <2>2. requested \in AutomationState
    BY RequestsAreStates
  <2>3. Unwritten \in Record
    BY DEF Unwritten, Record, AutomationState
  <2> QED
    BY <1>1, <2>1, <2>2, <2>3 DEF Begin, Call, Phases, TradingDate
<1>2. ASSUME NEW c \in Callers, Check(c) PROVE AutoTypeOK'
  BY <1>2 DEF Check, Call, Phases
<1>3. ASSUME NEW c \in Callers, SelectRow(c) PROVE AutoTypeOK'
  BY <1>3 DEF SelectRow, Call, Phases
<1>4. ASSUME NEW c \in Callers, WriteRow(c) PROVE AutoTypeOK'
  BY <1>4, SMTT(20) DEF WriteRow, Call, Phases, Record
<1>5. ASSUME NEW c \in Callers, Return(c) PROVE AutoTypeOK'
  BY <1>5, AutomationAssumption
  DEF Return, Call, NoCall, Phases, Kinds, Record, Unwritten, AutomationState, Days
<1>6. CASE NextDay
  BY <1>6, AutomationAssumption DEF NextDay, Days
<1>7. CASE UNCHANGED autoVars
  BY <1>7 DEF autoVars
<1> QED
  BY <1>1, <1>2, <1>3, <1>4, <1>5, <1>6, <1>7 DEF AutoNext, CallStep

\* The types of the switch, the callers and the history hold in every state.
THEOREM AutoTypeCorrect == AutoSpec => []AutoTypeOK
<1>1. AutoInit => AutoTypeOK
  BY AutomationAssumption
  DEF AutoInit, AutoTypeOK, Record, Unwritten, Days, NoDay, AutomationState,
      Call, NoCall, Phases, Kinds
<1>2. AutoTypeOK /\ [AutoNext]_autoVars => AutoTypeOK'
  BY AutoTypeStep
<1> QED
  BY <1>1, <1>2, PTL DEF AutoSpec

-----------------------------------------------------------------------------
\* A RUNNING row carries the day on which a person ordered it.
RunningRowIsOrdered == row.state = "running" => row.day \in Days /\ orderedOn = row.day

\* Whenever the switch counts as RUNNING for today, a person ordered it today,
\* also when the SELECT and the UPDATE of two callers interleave.
THEOREM OrderedTodayCorrect == AutoSpec => []RunningWasOrderedToday
<1>1. AutoInit => RunningRowIsOrdered
  BY DEF AutoInit, RunningRowIsOrdered, Unwritten
<1>2. AutoTypeOK /\ RunningRowIsOrdered /\ [AutoNext]_autoVars => RunningRowIsOrdered'
  <2> SUFFICES ASSUME AutoTypeOK, RunningRowIsOrdered, [AutoNext]_autoVars
               PROVE  RunningRowIsOrdered'
    OBVIOUS
  <2>1. CASE UNCHANGED <<row, orderedOn>>
    BY <2>1 DEF RunningRowIsOrdered
  <2>2. ASSUME NEW c \in Callers, WriteRow(c) PROVE RunningRowIsOrdered'
    <3>1. call[c].day \in Days
      BY DEF AutoTypeOK, Call
    <3> QED
      BY <2>2, <3>1 DEF WriteRow, RunningRowIsOrdered
  <2> QED
    BY <2>1, <2>2
    DEF AutoNext, CallStep, Begin, Check, SelectRow, Return, NextDay, autoVars
<1>3. AutoTypeOK /\ RunningRowIsOrdered => RunningWasOrderedToday
  BY DEF RunningRowIsOrdered, RunningWasOrderedToday, EffectiveState,
         IsStaleTradingDay, Days, NoDay
<1> QED
  BY <1>1, <1>2, <1>3, AutoTypeCorrect, PTL DEF AutoSpec

-----------------------------------------------------------------------------
\* What a call that is under way asks for is what its kind of caller asks for.
AskedByKind ==
  \A c \in Callers :
    call[c].phase # "idle" => call[c].requested \in Requests(call[c].kind)

\* What a caller has selected, the graph allowed; where callers do not overlap, it
\* is also what the row still says, and nobody else has selected anything.
SelectedIsAllowed ==
  \A c \in Callers : call[c].phase = "read" =>
    /\ AutomationMayBecome(call[c].seen.state, call[c].requested)
    /\ Interleaved \/ /\ call[c].seen = row
                      /\ \A d \in Callers : call[d].phase = "read" => d = c

\* Only a person asks for a state in which orders go out.
LEMMA OnlyPersonsStart ==
  ASSUME NEW kind \in Kinds, NEW requested \in Requests(kind),
         requested \in {"armed", "running"}
  PROVE  kind = "manual"
  BY DEF Kinds, Requests

\* A step of a caller, or of the day, keeps what the calls ask for.
LEMMA AskedByKindStep ==
  ASSUME AutoTypeOK, AskedByKind, [AutoNext]_autoVars
  PROVE  AskedByKind'
<1> USE DEF AutoTypeOK, AskedByKind
<1>1. ASSUME NEW c \in Callers, NEW kind \in Kinds, Begin(c, kind) PROVE AskedByKind'
  <2>1. PICK requested \in Requests(kind) :
          call' = [call EXCEPT ![c] =
                     [phase |-> IF kind \in Prechecked THEN "check" ELSE "open",
                      kind |-> kind, requested |-> requested,
                      day |-> TradingDate, seen |-> Unwritten]]
    BY <1>1 DEF Begin
  <2>2. call'[c].kind = kind /\ call'[c].requested = requested
    BY <2>1
  <2>3. \A d \in Callers : d # c => call'[d] = call[d]
    BY <2>1
  <2> QED
    BY <2>2, <2>3
<1>2. ASSUME NEW c \in Callers, Check(c) \/ SelectRow(c) \/ WriteRow(c) PROVE AskedByKind'
  <2>1. /\ call[c].phase # "idle"
        /\ call'[c].kind = call[c].kind /\ call'[c].requested = call[c].requested
    BY <1>2 DEF Check, SelectRow, WriteRow, Call
  <2>2. \A d \in Callers : d # c => call'[d] = call[d]
    BY <1>2 DEF Check, SelectRow, WriteRow
  <2> QED
    BY <2>1, <2>2
<1>3. ASSUME NEW c \in Callers, Return(c) PROVE AskedByKind'
  BY <1>3 DEF Return, NoCall
<1>4. CASE NextDay
  BY <1>4 DEF NextDay
<1>5. CASE UNCHANGED autoVars
  BY <1>5 DEF autoVars
<1> QED
  BY <1>1, <1>2, <1>3, <1>4, <1>5 DEF AutoNext, CallStep

\* A step of a caller, or of the day, keeps what the selections say.
LEMMA SelectedIsAllowedStep ==
  ASSUME AutoTypeOK, SelectedIsAllowed, [AutoNext]_autoVars
  PROVE  SelectedIsAllowed'
<1> USE DEF AutoTypeOK, SelectedIsAllowed
<1>1. ASSUME NEW c \in Callers, NEW kind \in Kinds, Begin(c, kind)
      PROVE  SelectedIsAllowed'
  BY <1>1 DEF Begin
<1>2. ASSUME NEW c \in Callers, Check(c) PROVE SelectedIsAllowed'
  BY <1>2 DEF Check
<1>3. ASSUME NEW c \in Callers, SelectRow(c) PROVE SelectedIsAllowed'
  BY <1>3 DEF SelectRow
<1>4. ASSUME NEW c \in Callers, WriteRow(c) PROVE SelectedIsAllowed'
  <2>1. \A d \in Callers : d # c => call'[d] = call[d]
    BY <1>4 DEF WriteRow
  <2>2. call[c].phase = "read" /\ call'[c].phase \in {"done", "raised"}
    BY <1>4 DEF WriteRow, Call
  <2>3. ASSUME NEW d \in Callers, call'[d].phase = "read"
        PROVE  /\ AutomationMayBecome(call'[d].seen.state, call'[d].requested)
               /\ Interleaved
    <3>1. d # c /\ call[d].phase = "read" /\ call'[d] = call[d]
      BY <2>1, <2>2, <2>3
    <3> QED
      BY <2>2, <3>1
  <2> QED
    BY <2>3
<1>5. ASSUME NEW c \in Callers, Return(c) PROVE SelectedIsAllowed'
  BY <1>5 DEF Return, NoCall
<1>6. CASE NextDay
  BY <1>6 DEF NextDay
<1>7. CASE UNCHANGED autoVars
  BY <1>7 DEF autoVars
<1> QED
  BY <1>1, <1>2, <1>3, <1>4, <1>5, <1>6, <1>7 DEF AutoNext, CallStep

\* Whether or not the callers overlap between SELECT and UPDATE, every committed
\* change is one the graph allows from the record its caller selected, bears the
\* day of its command and begins trading for a person only.
THEOREM CommitsCorrect == AutoSpec => CommitsFollowSight
<1>1. AutoInit => AskedByKind /\ SelectedIsAllowed
  BY DEF AutoInit, AskedByKind, SelectedIsAllowed, NoCall
<1>2. AutoTypeOK /\ AskedByKind /\ SelectedIsAllowed /\ [AutoNext]_autoVars
        => AskedByKind' /\ SelectedIsAllowed'
  BY AskedByKindStep, SelectedIsAllowedStep
<1>3. AutoTypeOK /\ AskedByKind /\ SelectedIsAllowed /\ [AutoNext]_autoVars =>
        [\E c \in Callers :
           /\ call[c].phase = "read"
           /\ AutomationMayBecome(call[c].seen.state, row'.state)
           /\ row'.state \in {"armed", "running"} => call[c].kind = "manual"
           /\ row'.day = call[c].day
           /\ Interleaved \/ call[c].seen = row]_row
  <2> SUFFICES ASSUME AutoTypeOK, AskedByKind, SelectedIsAllowed, [AutoNext]_autoVars,
                      row' # row
               PROVE  \E c \in Callers :
                        /\ call[c].phase = "read"
                        /\ AutomationMayBecome(call[c].seen.state, row'.state)
                        /\ row'.state \in {"armed", "running"} => call[c].kind = "manual"
                        /\ row'.day = call[c].day
                        /\ Interleaved \/ call[c].seen = row
    OBVIOUS
  <2>1. PICK c \in Callers : WriteRow(c)
    BY DEF AutoNext, CallStep, Begin, Check, SelectRow, Return, NextDay, autoVars
  <2>2. /\ call[c].phase = "read"
        /\ row' = [state |-> call[c].requested, day |-> call[c].day]
    BY <2>1 DEF WriteRow
  <2>3. row'.state = call[c].requested /\ row'.day = call[c].day
    BY <2>2
  <2>4. /\ AutomationMayBecome(call[c].seen.state, row'.state)
        /\ Interleaved \/ call[c].seen = row
    BY <2>2, <2>3 DEF SelectedIsAllowed
  <2>5. call[c].kind \in Kinds /\ row'.state \in Requests(call[c].kind)
    BY <2>2, <2>3 DEF AutoTypeOK, Call, AskedByKind
  <2>6. row'.state \in {"armed", "running"} => call[c].kind = "manual"
    BY <2>5, OnlyPersonsStart
  <2> QED
    BY <2>2, <2>3, <2>4, <2>6
<1> QED
  BY <1>1, <1>2, <1>3, AutoTypeCorrect, PTL DEF AutoSpec, CommitsFollowSight
-----------------------------------------------------------------------------
(* Order submission.                                                     *)

\* The bookkeeping of broker order numbers: a process that holds one is about to
\* record it and placed the order it stands for; a planned row has none; the
\* emergency stop sweeps rows that have one.
HeldNumbers ==
  \A c \in Callers :
    /\ job[c].bid # NoBid =>
         /\ job[c].bid \in Bids /\ placed[job[c].bid] = job[c].at
         /\ job[c].cmd = "submit" /\ job[c].step = "record"
    /\ job[c].step = "record" => job[c].bid # NoBid
    /\ job[c].step \in {"record", "reject"} => job[c].at \in Orders

StoredNumbers ==
  \A o \in Orders :
    /\ orders[o].bid # NoBid => orders[o].bid \in Bids
    /\ orders[o].state = "planned" => orders[o].bid = NoBid

SweptNumbers ==
  \A c \in Callers :
    job[c].step = "sweep" => \A o \in job[c].todo : orders[o].bid # NoBid

Inv == TypeOK /\ HeldNumbers /\ StoredNumbers /\ SweptNumbers /\ Accounted

-----------------------------------------------------------------------------
\* Only PLANNED leads to SUBMITTED and to the rejection of an unnumbered row, and
\* nothing leads to PLANNED.
LEMMA GraphFacts ==
  ASSUME NEW s \in OrderState, NEW t \in OrderState, OrderMayBecome(s, t)
  PROVE  (t = "submitted" => s = "planned") /\ t # "planned" /\ t \in OrderState
  BY DEF OrderMayBecome, OrderTransitions, OrderState

\* The switch keeps its types in every step of submission too.
LEMMA AutoPart ==
  ASSUME TypeOK, [Next]_vars
  PROVE  AutoTypeOK'
<1>1. AutoTypeOK
  BY DEF TypeOK
<1>2. CASE [AutoNext]_autoVars
  BY <1>1, <1>2, AutoTypeStep
<1>3. CASE \E c \in Callers : Crash(c)
  BY <1>1, <1>3, AutomationAssumption
  DEF Crash, AutoTypeOK, Call, NoCall, Phases, Kinds, Record, Unwritten, AutomationState, Days
<1>4. ASSUME NEW c \in Callers, StartSwitch(c) \/ StartSubmit(c) \/ StartStop(c)
      PROVE  AutoNext
  <2>1. SwitchKinds \subseteq Kinds /\ "day_changed" \in Kinds /\ "emergency" \in Kinds
    BY SubmissionAssumption DEF Kinds
  <2> QED
    BY <1>4, <2>1 DEF StartSwitch, StartSubmit, StartStop, AutoNext
<1>5. ASSUME NEW c \in Callers, SwitchStep(c) \/ Answered(c) PROVE AutoNext
  BY <1>5 DEF SwitchStep, Answered, AutoNext, CallStep
<1>6. ASSUME NEW c \in Callers,
             \/ StartWithdraw(c) \/ PassGate(c) \/ ListPending(c) \/ Send(c)
             \/ RecordSubmission(c) \/ RecordRejection(c)
             \/ ListOpen(c) \/ Cancel(c) \/ ListDone(c) \/ ListPlanned(c) \/ Withdraw(c)
             \/ SendFails(c) \/ CancelFails(c)
      PROVE  UNCHANGED autoVars
  BY <1>6 DEF StartWithdraw, PassGate, ListPending, Send, RecordSubmission, RecordRejection,
              ListOpen, Cancel, ListDone, ListPlanned, Withdraw, SendFails, CancelFails
<1>7. ASSUME NEW o \in Orders, Observe(o) PROVE UNCHANGED autoVars
  BY <1>7 DEF Observe
<1>8. CASE DayChanges
  BY <1>2, <1>8 DEF DayChanges, AutoNext
<1>9. CASE UNCHANGED vars
  BY <1>2, <1>9 DEF vars
<1> QED
  BY <1>2, <1>3, <1>4, <1>5, <1>6, <1>7, <1>8, <1>9 DEF Next, Proceed

-----------------------------------------------------------------------------
\* A step after which one process holds no number and has no answer to record: the
\* one it held, if any, is lost; the orders keep their numbers.
LEMMA OwnStep ==
  ASSUME Inv, AutoTypeOK', NEW c \in Callers, NEW j \in Job,
         job' = [job EXCEPT ![c] = j],
         j.bid = NoBid, j.step \notin {"record", "reject"},
         j.step = "sweep" => \A o \in j.todo : orders[o].bid # NoBid,
         orders' \in [Orders -> OrderRow],
         \A o \in Orders : /\ orders'[o].bid = orders[o].bid
                           /\ orders'[o].state = "planned" => orders[o].state = "planned",
         placed' = placed, working' \subseteq Bids, tried' \subseteq Bids,
         lost \subseteq lost', lost' \subseteq Bids,
         job[c].bid # NoBid => job[c].bid \in lost',
         faults' \in 0..MaxFaults
  PROVE  Inv'
<1> USE DEF Inv
<1>1. TypeOK'
  BY DEF TypeOK, Bids
<1>2. \A d \in Callers : job'[d] = IF d = c THEN j ELSE job[d]
  BY DEF TypeOK
<1>3. HeldNumbers'
  BY <1>2 DEF HeldNumbers, Bids
<1>4. StoredNumbers'
  BY DEF StoredNumbers, Bids
<1>5. SweptNumbers'
  <2>1. \A d \in Callers : job[d].todo \subseteq Orders /\ j.todo \subseteq Orders
    BY DEF TypeOK, Job
  <2> QED
    BY <1>2, <2>1 DEF SweptNumbers
<1>6. Accounted'
  <2> SUFFICES ASSUME NEW b \in Bids
               PROVE  \/ orders'[placed[b]].bid = b
                      \/ \E d \in Callers : job'[d].bid = b /\ job'[d].at = placed[b]
                      \/ b \in lost'
    BY DEF Accounted, Bids
  <2>1. b # NoBid /\ placed[b] \in Orders
    BY DEF Bids, NoBid, TypeOK
  <2> QED
    BY <1>2, <2>1 DEF Accounted
<1> QED
  BY <1>1, <1>3, <1>4, <1>5, <1>6

\* A step in which one process, holding no number, changes its own record and
\* nothing else, and takes up neither a number nor an answer to record.
LEMMA QuietJob ==
  ASSUME Inv, AutoTypeOK', NEW c \in Callers, NEW j \in Job,
         job' = [job EXCEPT ![c] = j],
         job[c].bid = NoBid, j.bid = NoBid, j.step \notin {"record", "reject"},
         j.step = "sweep" => \A o \in j.todo : orders[o].bid # NoBid,
         UNCHANGED <<orders, brokerVars, lost>>, faults' \in 0..MaxFaults
  PROVE  Inv'
<1>1. orders' \in [Orders -> OrderRow] /\ working' \subseteq Bids /\ tried' \subseteq Bids
      /\ lost' \subseteq Bids
  BY DEF Inv, TypeOK, brokerVars
<1> QED
  BY <1>1, OwnStep DEF brokerVars

\* The record of a process that has finished is one of these quiet records.
LEMMA NoJobIsQuiet ==
  NoJob \in Job /\ NoJob.bid = NoBid /\ NoJob.step = "none"
  BY AutomationAssumption DEF NoJob, Job, Commands, Steps, Days, NoBid

\* What the broker's acceptance does to its book.
LEMMA Acceptance ==
  ASSUME Inv, NEW o \in Orders, AcceptAtBroker(o)
  PROVE  /\ placed' \in Seq(Orders) /\ Len(placed) \in Nat /\ Len(placed') = Len(placed) + 1
         /\ placed'[Len(placed) + 1] = o
         /\ \A b \in Bids : placed'[b] = placed[b]
         /\ Bids' = Bids \cup {Len(placed) + 1} /\ Len(placed) + 1 \notin Bids
         /\ working' \subseteq Bids' /\ tried' \subseteq Bids' /\ lost \subseteq Bids'
<1>1. placed \in Seq(Orders) /\ placed' = Append(placed, o)
  BY DEF Inv, TypeOK, AcceptAtBroker
<1>2. placed' \in Seq(Orders) /\ Len(placed) \in Nat /\ Len(placed') = Len(placed) + 1
  BY <1>1
<1>3. placed'[Len(placed) + 1] = o /\ \A b \in Bids : placed'[b] = placed[b]
  BY <1>1 DEF Bids
<1>4. Bids' = Bids \cup {Len(placed) + 1} /\ Len(placed) + 1 \notin Bids
  BY <1>2 DEF Bids
<1> QED
  BY <1>2, <1>3, <1>4 DEF Inv, TypeOK, AcceptAtBroker

\* The invariant holds initially.
LEMMA InvInit == Init => Inv
<1> SUFFICES ASSUME Init PROVE Inv
  OBVIOUS
<1>1. AutoTypeOK
  BY AutomationAssumption
  DEF Init, AutoInit, AutoTypeOK, Record, Unwritten, Days, NoDay, AutomationState,
      Call, NoCall, Phases, Kinds
<1>2. orders \in [Orders -> OrderRow] /\ \A o \in Orders : orders[o].bid = NoBid
  BY DEF Init, OrderRow, Planned, OrderState, NoBid
<1>3. placed = <<>> /\ placed \in Seq(Orders) /\ faults \in 0..MaxFaults
  BY SubmissionAssumption DEF Init
<1>4. TypeOK
  BY <1>1, <1>2, <1>3, NoJobIsQuiet DEF TypeOK, Init
<1>5. HeldNumbers /\ SweptNumbers
  BY NoJobIsQuiet DEF HeldNumbers, SweptNumbers, Init
<1>6. Bids = {}
  BY <1>3 DEF Bids
<1> QED
  BY <1>2, <1>4, <1>5, <1>6 DEF Inv, StoredNumbers, Accounted

\* The commands that start, answer, pass the gate, list or end.
LEMMA QuietStep ==
  ASSUME Inv, AutoTypeOK', NEW c \in Callers,
         \/ StartSwitch(c) \/ StartSubmit(c) \/ StartStop(c) \/ StartWithdraw(c)
         \/ Answered(c) \/ PassGate(c) \/ ListPending(c) \/ ListOpen(c)
         \/ ListDone(c) \/ ListPlanned(c) \/ CancelFails(c)
  PROVE  Inv'
<1> USE NoJobIsQuiet
<1>1. /\ faults \in 0..MaxFaults /\ MaxFaults \in Nat
      /\ job \in [Callers -> Job] /\ job[c] \in Job /\ today \in Days
  BY SubmissionAssumption DEF Inv, TypeOK, AutoTypeOK
<1>2. ASSUME NEW cmd \in Commands, NEW step \in {"switch", "list"},
             NEW scope \in SUBSET Orders, Starts(c, cmd, step, scope)
      PROVE  Inv'
  <2>3. job[c].bid = NoBid
    BY <1>2 DEF Starts, Inv, HeldNumbers
  <2> DEFINE j == [NoJob EXCEPT !.cmd = cmd, !.step = step, !.day = today, !.scope = scope]
  <2>1. j \in Job /\ j.bid = NoBid /\ j.step = step
    BY <1>1 DEF Job, Steps, NoJob
  <2>2. job' = [job EXCEPT ![c] = j]
    BY <1>2 DEF Starts
  <2> HIDE DEF j
  <2> QED
    BY <1>1, <1>2, <2>1, <2>2, <2>3, QuietJob DEF Starts
<1>3. CASE StartSwitch(c) \/ StartSubmit(c) \/ StartStop(c) \/ StartWithdraw(c)
  <2>1. \A scope \in Plans \cup {Orders, {}} : scope \in SUBSET Orders
    BY SubmissionAssumption
  <2> QED
    BY <1>2, <1>3, <2>1 DEF StartSwitch, StartSubmit, StartStop, StartWithdraw, Commands
<1>4. ASSUME Finish(c), job[c].bid = NoBid,
             UNCHANGED <<orders, brokerVars, lost>>, faults' \in 0..MaxFaults
      PROVE  Inv'
  BY <1>4, QuietJob DEF Finish
<1>5. ASSUME NEW step \in {"gate", "list"}, job' = [job EXCEPT ![c].step = step],
             job[c].bid = NoBid, UNCHANGED <<orders, brokerVars, lost, faults>>
      PROVE  Inv'
  <2>1. [job[c] EXCEPT !.step = step] \in Job
    BY <1>1 DEF Job, Steps
  <2>2. job' = [job EXCEPT ![c] = [job[c] EXCEPT !.step = step]]
    BY <1>1, <1>5
  <2>3. [job[c] EXCEPT !.step = step].bid = NoBid /\ [job[c] EXCEPT !.step = step].step = step
    BY <1>1, <1>5 DEF Job
  <2> QED
    BY <1>1, <1>5, <2>1, <2>2, <2>3, QuietJob
<1>6. ASSUME NEW step \in {"send", "sweep", "withdraw"}, NEW todo \in SUBSET Orders,
             job' = [job EXCEPT ![c].step = step, ![c].todo = todo], job[c].bid = NoBid,
             step = "sweep" => \A o \in todo : orders[o].bid # NoBid,
             UNCHANGED <<orders, brokerVars, lost, faults>>
      PROVE  Inv'
  <2> DEFINE j == [job[c] EXCEPT !.step = step, !.todo = todo]
  <2>1. j \in Job /\ j.bid = NoBid /\ j.step = step /\ j.todo = todo
    BY <1>1, <1>6 DEF Job, Steps
  <2>2. job' = [job EXCEPT ![c] = j]
    BY <1>1, <1>6
  <2> HIDE DEF j
  <2> QED
    BY <1>1, <1>6, <2>1, <2>2, QuietJob
<1>7. job[c].step # "record" => job[c].bid = NoBid
  BY DEF Inv, HeldNumbers
<1>8. CASE Answered(c)
  <2>1. CASE Finish(c)
    BY <1>1, <1>4, <1>7, <1>8, <2>1 DEF Answered
  <2>2. CASE ~ Finish(c)
    <3>1. PICK step \in {"gate", "list"} : job' = [job EXCEPT ![c].step = step]
      BY <1>8, <2>2 DEF Answered
    <3>2. job[c].step # "record"
      BY <1>8 DEF Answered
    <3> QED
      BY <1>5, <1>7, <1>8, <3>1, <3>2 DEF Answered
  <2> QED
    BY <2>1, <2>2
<1>9. CASE PassGate(c)
  BY <1>1, <1>4, <1>5, <1>7, <1>9 DEF PassGate, Running
<1>10. CASE ListPending(c)
  <2> DEFINE todo == {o \in job[c].scope : Pending(orders[o], job[c].day)}
  <2>1. todo \in SUBSET Orders
    BY <1>1 DEF Job
  <2>2. /\ job' = [job EXCEPT ![c].step = "send", ![c].todo = todo]
        /\ job[c].step = "list" /\ UNCHANGED <<orders, brokerVars, lost, faults>>
    BY <1>10 DEF ListPending, Running
  <2> HIDE DEF todo
  <2> QED
    BY <1>6, <1>7, <2>1, <2>2
<1>11. CASE ListOpen(c)
  <2> DEFINE todo == {o \in Orders : Cancelable(orders[o], job[c].day)}
  <2>1. todo \in SUBSET Orders /\ \A o \in todo : orders[o].bid # NoBid
    BY DEF Cancelable
  <2>2. /\ job' = [job EXCEPT ![c].step = "sweep", ![c].todo = todo]
        /\ job[c].step = "list" /\ UNCHANGED <<orders, brokerVars, lost, faults>>
    BY <1>11 DEF ListOpen, Running
  <2> HIDE DEF todo
  <2> QED
    BY <1>6, <1>7, <2>1, <2>2
<1>12. CASE ListPlanned(c)
  <2> DEFINE todo == {o \in job[c].scope : orders[o].state = "planned"}
  <2>1. todo \in SUBSET Orders
    BY <1>1 DEF Job
  <2>2. /\ job' = [job EXCEPT ![c].step = "withdraw", ![c].todo = todo]
        /\ job[c].step = "list" /\ UNCHANGED <<orders, brokerVars, lost, faults>>
    BY <1>12 DEF ListPlanned, Running
  <2> HIDE DEF todo
  <2> QED
    BY <1>6, <1>7, <2>1, <2>2
<1>13. CASE ListDone(c)
  BY <1>1, <1>4, <1>7, <1>13 DEF ListDone, Running
<1>14. CASE CancelFails(c)
  BY <1>1, <1>4, <1>7, <1>14 DEF CancelFails, Running
<1> QED
  BY <1>3, <1>8, <1>9, <1>10, <1>11, <1>12, <1>13, <1>14

\* Steps that leave the orders, the broker and the commands alone.
LEMMA Undisturbed ==
  ASSUME Inv, AutoTypeOK', UNCHANGED <<orders, brokerVars, lost, job, faults>>
  PROVE  Inv'
  BY DEF Inv, TypeOK, HeldNumbers, StoredNumbers, SweptNumbers, Accounted, brokerVars, Bids

\* An order is sent: the broker's acceptance is held by the sender, its rejection
\* leaves the books as they are.
LEMMA SendStep ==
  ASSUME Inv, AutoTypeOK', NEW c \in Callers, Send(c)
  PROVE  Inv'
<1>1. PICK o \in job[c].todo :
        \/ /\ AcceptAtBroker(o)
           /\ job' = [job EXCEPT ![c].step = "record", ![c].at = o, ![c].bid = Len(placed) + 1]
        \/ /\ job' = [job EXCEPT ![c].step = "reject", ![c].at = o]
           /\ UNCHANGED brokerVars
  BY DEF Send
<1>2. /\ job \in [Callers -> Job] /\ job[c] \in Job /\ o \in Orders
      /\ job[c].cmd = "submit" /\ job[c].step = "send" /\ job[c].bid = NoBid
      /\ UNCHANGED <<orders, lost, faults>>
  BY DEF Send, Running, Inv, TypeOK, Job, HeldNumbers
<1>3. CASE /\ AcceptAtBroker(o)
           /\ job' = [job EXCEPT ![c].step = "record", ![c].at = o, ![c].bid = Len(placed) + 1]
  <2> DEFINE n == Len(placed) + 1
             j == [job[c] EXCEPT !.step = "record", !.at = o, !.bid = n]
  <2>1. n \in Nat /\ n # NoBid
    BY <1>2, <1>3, Acceptance DEF NoBid
  <2>2. /\ j \in Job /\ j.step = "record" /\ j.at = o /\ j.bid = n
        /\ j.cmd = "submit"
    BY <1>2, <2>1 DEF Job, Steps
  <2>3. job' = [job EXCEPT ![c] = j] /\ job' \in [Callers -> Job]
    BY <1>2, <1>3, <2>2
  <2> HIDE DEF j
  <2>4. \A d \in Callers : job'[d] = IF d = c THEN j ELSE job[d]
    BY <1>2, <2>3
  <2>5. TypeOK'
    BY <1>2, <1>3, <2>3, Acceptance DEF Inv, TypeOK
  <2>6. HeldNumbers'
    BY <1>2, <1>3, <2>1, <2>2, <2>4, Acceptance DEF Inv, HeldNumbers
  <2>7. StoredNumbers' /\ SweptNumbers'
    BY <1>2, <1>3, <2>2, <2>4, Acceptance DEF Inv, StoredNumbers, SweptNumbers
  <2>8. Accounted'
    <3> SUFFICES ASSUME NEW b \in Bids'
                 PROVE  \/ orders[placed'[b]].bid = b
                        \/ \E d \in Callers : job'[d].bid = b /\ job'[d].at = placed'[b]
                        \/ b \in lost
      BY <1>2 DEF Accounted
    <3>1. CASE b = n
      BY <1>2, <1>3, <2>2, <2>4, <3>1, Acceptance
    <3>2. CASE b \in Bids
      <4>1. b # NoBid /\ placed'[b] = placed[b]
        BY <1>2, <1>3, <3>2, Acceptance DEF Bids, NoBid
      <4> QED
        BY <1>2, <2>4, <3>2, <4>1 DEF Inv, Accounted
    <3> QED
      BY <1>2, <1>3, <3>1, <3>2, Acceptance
  <2> QED
    BY <2>5, <2>6, <2>7, <2>8 DEF Inv
<1>4. CASE /\ job' = [job EXCEPT ![c].step = "reject", ![c].at = o]
           /\ UNCHANGED brokerVars
  <2> DEFINE j == [job[c] EXCEPT !.step = "reject", !.at = o]
  <2>1. j \in Job /\ j.step = "reject" /\ j.at = o /\ j.bid = NoBid
    BY <1>2 DEF Job, Steps
  <2>2. job' = [job EXCEPT ![c] = j] /\ job' \in [Callers -> Job]
    BY <1>2, <1>4, <2>1
  <2> HIDE DEF j
  <2>3. \A d \in Callers : job'[d] = IF d = c THEN j ELSE job[d]
    BY <1>2, <2>2
  <2>4. TypeOK'
    BY <1>2, <1>4, <2>2 DEF Inv, TypeOK, brokerVars, Bids
  <2>5. HeldNumbers' /\ StoredNumbers' /\ SweptNumbers'
    BY <1>2, <1>4, <2>1, <2>3
    DEF Inv, HeldNumbers, StoredNumbers, SweptNumbers, brokerVars, Bids
  <2>6. Accounted'
    <3> SUFFICES ASSUME NEW b \in Bids
                 PROVE  \/ orders[placed[b]].bid = b
                        \/ \E d \in Callers : job'[d].bid = b /\ job'[d].at = placed[b]
                        \/ b \in lost
      BY <1>2, <1>4 DEF Accounted, brokerVars, Bids
    <3>1. b # NoBid
      BY DEF Bids, NoBid
    <3> QED
      BY <1>2, <2>3, <3>1 DEF Inv, Accounted
  <2> QED
    BY <2>4, <2>5, <2>6 DEF Inv
<1> QED
  BY <1>1, <1>3, <1>4

\* The process finishes: the number it held is lost, the orders keep theirs.
LEMMA Finishing ==
  ASSUME Inv, AutoTypeOK', NEW c \in Callers, Finish(c),
         orders' \in [Orders -> OrderRow],
         \A o \in Orders : /\ orders'[o].bid = orders[o].bid
                           /\ orders'[o].state = "planned" => orders[o].state = "planned",
         UNCHANGED brokerVars,
         lost' = IF job[c].bid = NoBid THEN lost ELSE lost \cup {job[c].bid},
         faults' \in 0..MaxFaults
  PROVE  Inv'
<1>1. job[c].bid # NoBid => job[c].bid \in Bids
  BY DEF Inv, HeldNumbers
<1>2. /\ lost \subseteq lost' /\ lost' \subseteq Bids
      /\ job[c].bid # NoBid => job[c].bid \in lost'
  BY <1>1 DEF Inv, TypeOK
<1>3. placed' = placed /\ working' \subseteq Bids /\ tried' \subseteq Bids
  BY DEF Inv, TypeOK, brokerVars
<1> QED
  BY <1>2, <1>3, NoJobIsQuiet, OwnStep DEF Finish

\* A broker call fails: when the broker had taken the order, its number is lost.
LEMMA SendFailsStep ==
  ASSUME Inv, AutoTypeOK', NEW c \in Callers, SendFails(c)
  PROVE  Inv'
<1>1. PICK o \in job[c].todo :
        \/ AcceptAtBroker(o) /\ lost' = lost \cup {Len(placed) + 1}
        \/ UNCHANGED <<brokerVars, lost>>
  BY DEF SendFails
<1>2. /\ job \in [Callers -> Job] /\ job[c] \in Job /\ o \in Orders /\ job[c].bid = NoBid
      /\ orders' = orders /\ faults' \in 0..MaxFaults /\ orders \in [Orders -> OrderRow]
      /\ Finish(c)
  BY SubmissionAssumption DEF SendFails, Running, Inv, TypeOK, Job, HeldNumbers
<1>3. CASE UNCHANGED <<brokerVars, lost>>
  BY <1>2, <1>3, NoJobIsQuiet, QuietJob DEF Finish
<1>4. CASE AcceptAtBroker(o) /\ lost' = lost \cup {Len(placed) + 1}
  <2>1. \A d \in Callers : job'[d] = IF d = c THEN NoJob ELSE job[d]
    BY <1>2 DEF Finish
  <2>2. TypeOK'
    BY <1>2, <1>4, NoJobIsQuiet, Acceptance DEF Inv, TypeOK, Finish
  <2>3. HeldNumbers'
    BY <1>2, <1>4, <2>1, NoJobIsQuiet, Acceptance DEF Inv, HeldNumbers
  <2>4. StoredNumbers' /\ SweptNumbers'
    BY <1>2, <1>4, <2>1, NoJobIsQuiet, Acceptance DEF Inv, StoredNumbers, SweptNumbers
  <2>5. Accounted'
    <3> SUFFICES ASSUME NEW b \in Bids, b # NoBid
                 PROVE  \/ orders[placed[b]].bid = b
                        \/ \E d \in Callers : job'[d].bid = b /\ job'[d].at = placed[b]
                        \/ b \in lost'
      BY <1>2, <1>4, Acceptance DEF Accounted, Bids, NoBid
    <3> QED
      BY <1>2, <1>4, <2>1 DEF Inv, Accounted
  <2> QED
    BY <2>2, <2>3, <2>4, <2>5 DEF Inv
<1> QED
  BY <1>1, <1>3, <1>4

\* The answer is recorded: an acceptance puts the number into a row that had none,
\* or loses it with a row that has moved on.
LEMMA RecordSubmissionStep ==
  ASSUME Inv, AutoTypeOK', NEW c \in Callers, RecordSubmission(c)
  PROVE  Inv'
<1> DEFINE o == job[c].at
           n == job[c].bid
<1>1. /\ job \in [Callers -> Job] /\ job[c] \in Job /\ o \in Orders
      /\ n # NoBid /\ n \in Bids /\ n \in Nat /\ placed[n] = o
      /\ orders \in [Orders -> OrderRow] /\ orders[o] \in OrderRow
      /\ UNCHANGED <<brokerVars, faults>> /\ faults \in 0..MaxFaults
  BY DEF RecordSubmission, Running, Inv, TypeOK, Job, HeldNumbers
<1>2. CASE /\ OrderMayBecome(orders[o].state, "submitted")
           /\ orders' = [orders EXCEPT ![o] = Submitted(@, n)]
           /\ NextOrder(c)
           /\ UNCHANGED lost
  <2> DEFINE j == [job[c] EXCEPT !.step = "send", !.todo = @ \ {o}, !.at = NoBid, !.bid = NoBid]
             r == [orders[o] EXCEPT !.state = "submitted", !.bid = n]
  <2>1. j \in Job /\ j.bid = NoBid /\ j.step = "send"
    BY <1>1 DEF Job, Steps, NoBid
  <2>2. r \in OrderRow /\ r.bid = n /\ r.state = "submitted"
    BY <1>1 DEF OrderRow, OrderState
  <2>3. orders' = [orders EXCEPT ![o] = r]
    BY <1>2, <1>1 DEF Submitted
  <2>4. job' = [job EXCEPT ![c] = j]
    BY <1>2, <1>1 DEF NextOrder
  <2>5. orders[o].state = "planned" /\ orders[o].bid = NoBid
    BY <1>1, <1>2, GraphFacts DEF OrderRow, OrderState, Inv, StoredNumbers, OrderMayBecome
  <2> HIDE DEF j, r
  <2>6. /\ orders' \in [Orders -> OrderRow] /\ job' \in [Callers -> Job]
        /\ \A p \in Orders : orders'[p] = IF p = o THEN r ELSE orders[p]
        /\ \A d \in Callers : job'[d] = IF d = c THEN j ELSE job[d]
    BY <1>1, <2>1, <2>2, <2>3, <2>4
  <2>7. TypeOK'
    BY <1>1, <1>2, <2>6 DEF Inv, TypeOK, brokerVars, Bids
  <2>8. HeldNumbers'
    BY <1>1, <2>1, <2>6 DEF Inv, HeldNumbers, brokerVars, Bids
  <2>9. StoredNumbers'
    BY <1>1, <2>2, <2>6 DEF Inv, StoredNumbers, brokerVars, Bids
  <2>10. SweptNumbers'
    <3>1. \A d \in Callers : job[d].todo \subseteq Orders
      BY <1>1 DEF Job
    <3> QED
      BY <1>1, <2>1, <2>2, <2>6, <3>1 DEF Inv, SweptNumbers
  <2>11. Accounted'
    <3> SUFFICES ASSUME NEW b \in Bids, b # NoBid
                 PROVE  \/ orders'[placed[b]].bid = b
                        \/ \E d \in Callers : job'[d].bid = b /\ job'[d].at = placed[b]
                        \/ b \in lost
      BY <1>1, <1>2 DEF Accounted, brokerVars, Bids, NoBid
    <3>1. placed[b] \in Orders
      BY DEF Inv, TypeOK, Bids
    <3> QED
      BY <1>1, <2>2, <2>5, <2>6, <3>1 DEF Inv, Accounted
  <2> QED
    BY <2>7, <2>8, <2>9, <2>10, <2>11 DEF Inv
<1>3. CASE /\ ~ OrderMayBecome(orders[o].state, "submitted")
           /\ lost' = lost \cup {n}
           /\ Finish(c)
           /\ UNCHANGED orders
  BY <1>1, <1>3, Finishing
<1> QED
  BY <1>2, <1>3 DEF RecordSubmission

\* A rejection ends a row that had no number, or meets a row that has moved on.
LEMMA RecordRejectionStep ==
  ASSUME Inv, AutoTypeOK', NEW c \in Callers, RecordRejection(c)
  PROVE  Inv'
<1> DEFINE o == job[c].at
<1>1. /\ job \in [Callers -> Job] /\ job[c] \in Job /\ o \in Orders /\ job[c].bid = NoBid
      /\ orders \in [Orders -> OrderRow] /\ orders[o] \in OrderRow
      /\ UNCHANGED <<brokerVars, lost, faults>> /\ faults \in 0..MaxFaults
  BY DEF RecordRejection, Running, Inv, TypeOK, Job, HeldNumbers
<1>2. CASE orders' = [orders EXCEPT ![o].state = "rejected"] /\ NextOrder(c)
  <2> DEFINE j == [job[c] EXCEPT !.step = "send", !.todo = @ \ {o}, !.at = NoBid, !.bid = NoBid]
             r == [orders[o] EXCEPT !.state = "rejected"]
  <2>1. j \in Job /\ j.bid = NoBid /\ j.step = "send"
    BY <1>1 DEF Job, Steps, NoBid
  <2>2. r \in OrderRow /\ r.bid = orders[o].bid /\ r.state = "rejected"
    BY <1>1 DEF OrderRow, OrderState
  <2>3. orders' = [orders EXCEPT ![o] = r] /\ job' = [job EXCEPT ![c] = j]
    BY <1>1, <1>2 DEF NextOrder
  <2> HIDE DEF j, r
  <2>4. /\ orders' \in [Orders -> OrderRow]
        /\ \A p \in Orders : orders'[p] = IF p = o THEN r ELSE orders[p]
    BY <1>1, <2>2, <2>3
  <2>5. \A p \in Orders : /\ orders'[p].bid = orders[p].bid
                          /\ orders'[p].state = "planned" => orders[p].state = "planned"
    BY <2>2, <2>4
  <2>6. /\ placed' = placed /\ working' \subseteq Bids /\ tried' \subseteq Bids
        /\ lost \subseteq lost' /\ lost' \subseteq Bids
    BY <1>1 DEF Inv, TypeOK, brokerVars
  <2> QED
    BY <1>1, <2>1, <2>3, <2>4, <2>5, <2>6, OwnStep
<1>3. CASE Finish(c) /\ UNCHANGED orders
  BY <1>1, <1>3, NoJobIsQuiet, QuietJob DEF Finish
<1> QED
  BY <1>2, <1>3 DEF RecordRejection

\* A cancel request names the number of a row that was listed with one.
LEMMA CancelStep ==
  ASSUME Inv, AutoTypeOK', NEW c \in Callers, Cancel(c)
  PROVE  Inv'
<1>1. PICK o \in job[c].todo :
        /\ tried' = tried \cup {orders[o].bid}
        /\ job' = [job EXCEPT ![c].todo = @ \ {o}]
  BY DEF Cancel
<1>2. /\ job \in [Callers -> Job] /\ job[c] \in Job /\ o \in Orders
      /\ job[c].step = "sweep" /\ job[c].bid = NoBid
      /\ orders \in [Orders -> OrderRow] /\ orders' = orders /\ faults' \in 0..MaxFaults
      /\ placed' = placed /\ working' \subseteq Bids /\ lost' = lost /\ lost \subseteq Bids
  BY DEF Cancel, Running, Inv, TypeOK, Job, HeldNumbers
<1>3. tried' \subseteq Bids
  BY <1>1, <1>2 DEF Inv, TypeOK, StoredNumbers, SweptNumbers
<1> DEFINE j == [job[c] EXCEPT !.todo = @ \ {o}]
<1>4. j \in Job /\ j.bid = NoBid /\ j.step = "sweep" /\ j.todo \subseteq job[c].todo
  BY <1>2 DEF Job
<1>5. job' = [job EXCEPT ![c] = j]
  BY <1>1, <1>2
<1>6. \A p \in j.todo : orders[p].bid # NoBid
  BY <1>2, <1>4 DEF Inv, SweptNumbers
<1> HIDE DEF j
<1> QED
  BY <1>2, <1>3, <1>4, <1>5, <1>6, OwnStep

\* A withdrawal ends rows and leaves their numbers alone.
LEMMA WithdrawStep ==
  ASSUME Inv, AutoTypeOK', NEW c \in Callers, Withdraw(c)
  PROVE  Inv'
<1>1. /\ job[c].bid = NoBid /\ UNCHANGED <<brokerVars, lost, faults>> /\ Finish(c)
      /\ orders \in [Orders -> OrderRow] /\ faults' \in 0..MaxFaults
  BY DEF Withdraw, Running, Inv, TypeOK, HeldNumbers
<1>2. CASE orders' = [o \in Orders |-> IF o \in job[c].todo
                                       THEN [orders[o] EXCEPT !.state = CanceledState]
                                       ELSE orders[o]]
  <2>1. \A o \in Orders : [orders[o] EXCEPT !.state = CanceledState] \in OrderRow
    BY <1>1 DEF OrderRow, OrderState, CanceledState
  <2>2. orders' \in [Orders -> OrderRow]
    BY <1>1, <1>2, <2>1
  <2>3. \A o \in Orders : /\ orders'[o].bid = orders[o].bid
                          /\ orders'[o].state = "planned" => orders[o].state = "planned"
    BY <1>1, <1>2 DEF OrderRow, CanceledState
  <2> QED
    BY <1>1, <2>2, <2>3, Finishing
<1>3. CASE UNCHANGED orders
  BY <1>1, <1>3, NoJobIsQuiet, QuietJob DEF Finish
<1> QED
  BY <1>2, <1>3 DEF Withdraw

\* A process that dies loses the number it held.
LEMMA CrashStep ==
  ASSUME Inv, AutoTypeOK', NEW c \in Callers, Crash(c)
  PROVE  Inv'
<1>1. /\ Finish(c) /\ UNCHANGED <<orders, brokerVars>> /\ orders \in [Orders -> OrderRow]
      /\ faults' \in 0..MaxFaults
  BY SubmissionAssumption DEF Crash, Inv, TypeOK
<1>2. CASE job[c].bid = NoBid
  BY <1>1, <1>2, NoJobIsQuiet, QuietJob DEF Finish, Crash
<1>3. CASE job[c].bid # NoBid
  BY <1>1, <1>3, Finishing DEF Crash
<1> QED
  BY <1>2, <1>3

\* The listener or the synchronisation moves an open row along the graph.
LEMMA ObserveStep ==
  ASSUME Inv, AutoTypeOK', NEW o \in Orders, Observe(o)
  PROVE  Inv'
<1>1. /\ orders \in [Orders -> OrderRow] /\ orders[o] \in OrderRow
      /\ UNCHANGED <<placed, tried, lost, job, faults>>
      /\ working' \subseteq working
  BY DEF Observe, Inv, TypeOK
<1>2. PICK s \in OrderTransitions[orders[o].state] : orders' = [orders EXCEPT ![o].state = s]
  BY DEF Observe
<1> DEFINE r == [orders[o] EXCEPT !.state = s]
<1>3. s \in OrderState /\ s # "planned"
  BY <1>1, <1>2 DEF OrderTransitions, OrderState, OrderRow
<1>4. r \in OrderRow /\ r.bid = orders[o].bid /\ r.state # "planned"
  BY <1>1, <1>3 DEF OrderRow
<1>5. orders' = [orders EXCEPT ![o] = r]
  BY <1>1, <1>2
<1> HIDE DEF r
<1>6. /\ orders' \in [Orders -> OrderRow]
      /\ \A p \in Orders : /\ orders'[p].bid = orders[p].bid
                           /\ orders'[p].state = "planned" => orders[p].state = "planned"
  BY <1>1, <1>4, <1>5
<1>7. TypeOK'
  BY <1>1, <1>6 DEF Inv, TypeOK, Bids
<1>8. HeldNumbers' /\ StoredNumbers'
  BY <1>1, <1>6 DEF Inv, HeldNumbers, StoredNumbers, Bids
<1>9. SweptNumbers'
  <2>1. \A d \in Callers : job[d].todo \subseteq Orders
    BY DEF Inv, TypeOK, Job
  <2> QED
    BY <1>1, <1>6, <2>1 DEF Inv, SweptNumbers
<1>10. Accounted'
  <2>1. \A b \in Bids : placed[b] \in Orders
    BY DEF Inv, TypeOK, Bids
  <2> QED
    BY <1>1, <1>6, <2>1 DEF Inv, Accounted, Bids
<1> QED
  BY <1>7, <1>8, <1>9, <1>10 DEF Inv

-----------------------------------------------------------------------------
\* Every step of submission keeps the invariant.
LEMMA InvStep == Inv /\ [Next]_vars => Inv'
<1> SUFFICES ASSUME Inv, [Next]_vars PROVE Inv'
  OBVIOUS
<1>1. AutoTypeOK'
  BY AutoPart DEF Inv
<1>2. ASSUME NEW c \in Callers,
             \/ StartSwitch(c) \/ StartSubmit(c) \/ StartStop(c) \/ StartWithdraw(c)
             \/ Proceed(c) \/ SendFails(c) \/ CancelFails(c) \/ Crash(c)
      PROVE  Inv'
  <2>1. CASE SwitchStep(c)
    BY <1>1, <2>1, Undisturbed DEF SwitchStep
  <2>2. CASE \/ StartSwitch(c) \/ StartSubmit(c) \/ StartStop(c) \/ StartWithdraw(c)
             \/ Answered(c) \/ PassGate(c) \/ ListPending(c) \/ ListOpen(c)
             \/ ListDone(c) \/ ListPlanned(c) \/ CancelFails(c)
    BY <1>1, <2>2, QuietStep
  <2>3. CASE Send(c) \/ SendFails(c)
    BY <1>1, <2>3, SendStep, SendFailsStep
  <2>4. CASE RecordSubmission(c) \/ RecordRejection(c)
    BY <1>1, <2>4, RecordSubmissionStep, RecordRejectionStep
  <2>5. CASE Cancel(c) \/ Withdraw(c) \/ Crash(c)
    BY <1>1, <2>5, CancelStep, WithdrawStep, CrashStep
  <2> QED
    BY <1>2, <2>1, <2>2, <2>3, <2>4, <2>5 DEF Proceed
<1>3. CASE \E o \in Orders : Observe(o)
  BY <1>1, <1>3, ObserveStep
<1>4. CASE DayChanges
  BY <1>1, <1>4, Undisturbed DEF DayChanges
<1>5. CASE UNCHANGED vars
  BY <1>1, <1>5, Undisturbed DEF vars
<1> QED
  BY <1>2, <1>3, <1>4, <1>5 DEF Next

\* The types of the order rows, the broker's book and the commands, and the
\* bookkeeping of numbers, in every reachable state.
THEOREM SubmissionTypeCorrect == Spec => []TypeOK
<1>1. Inv => TypeOK
  BY DEF Inv
<1> QED
  BY <1>1, InvInit, InvStep, PTL DEF Spec

\* No broker order slips out of the books: the number of each is in its row, in the
\* hands of the command that placed it, or lost by a fault or a row that moved on.
THEOREM AccountedCorrect == Spec => []Accounted
<1>1. Inv => Accounted
  BY DEF Inv
<1> QED
  BY <1>1, InvInit, InvStep, PTL DEF Spec

\* A step keeps the numbers that are stored: only an acceptance writes one, and
\* only into a row that is PLANNED, which has none.
LEMMA NumbersKeptStep ==
  ASSUME Inv, [Next]_vars, NEW o \in Orders, orders[o].bid # NoBid
  PROVE  orders'[o].bid = orders[o].bid
<1>1. orders \in [Orders -> OrderRow]
  BY DEF Inv, TypeOK
<1>2. ASSUME NEW c \in Callers, RecordSubmission(c) PROVE orders'[o].bid = orders[o].bid
  <2> DEFINE q == job[c].at
  <2>1. CASE OrderMayBecome(orders[q].state, "submitted")
    <3>1. q \in Orders /\ orders[q] \in OrderRow
      BY <1>1, <1>2 DEF RecordSubmission, Running, Inv, HeldNumbers
    <3>2. orders[q].bid = NoBid
      BY <2>1, <3>1, GraphFacts DEF OrderRow, OrderState, OrderMayBecome, Inv, StoredNumbers
    <3>3. orders' = [orders EXCEPT ![q] = [orders[q] EXCEPT !.state = "submitted", !.bid = job[c].bid]]
      BY <1>1, <1>2, <2>1, <3>1 DEF RecordSubmission, Submitted
    <3> QED
      BY <1>1, <3>2, <3>3
  <2>2. CASE UNCHANGED orders
    BY <2>2
  <2> QED
    BY <1>2, <2>1, <2>2 DEF RecordSubmission
<1>3. ASSUME NEW c \in Callers, RecordRejection(c) PROVE orders'[o].bid = orders[o].bid
  BY <1>1, <1>3 DEF RecordRejection, OrderRow
<1>4. ASSUME NEW c \in Callers, Withdraw(c) PROVE orders'[o].bid = orders[o].bid
  BY <1>1, <1>4 DEF Withdraw, OrderRow
<1>5. ASSUME NEW q \in Orders, Observe(q) PROVE orders'[o].bid = orders[o].bid
  BY <1>1, <1>5 DEF Observe, OrderRow
<1>6. ASSUME NEW c \in Callers,
             \/ StartSwitch(c) \/ StartSubmit(c) \/ StartStop(c) \/ StartWithdraw(c)
             \/ SwitchStep(c) \/ Answered(c) \/ PassGate(c) \/ ListPending(c) \/ Send(c)
             \/ ListOpen(c) \/ Cancel(c) \/ ListDone(c) \/ ListPlanned(c)
             \/ SendFails(c) \/ CancelFails(c) \/ Crash(c)
      PROVE  UNCHANGED orders
  BY <1>6 DEF StartSwitch, StartSubmit, StartStop, StartWithdraw, Starts, SwitchStep, Answered,
              PassGate, ListPending, Send, ListOpen, Cancel, ListDone, ListPlanned,
              SendFails, CancelFails, Crash
<1>7. CASE DayChanges \/ UNCHANGED vars
  BY <1>7 DEF DayChanges, vars
<1> QED
  BY <1>2, <1>3, <1>4, <1>5, <1>6, <1>7 DEF Next, Proceed

\* A broker order number, once stored, stays with its order whatever submits,
\* withdrawals, stops, faults and reports come after it.
THEOREM NumbersKeptCorrect == Spec => NumberIsKept
<1>1. Inv /\ [Next]_vars =>
        [\A o \in Orders : orders[o].bid # NoBid => orders'[o].bid = orders[o].bid]_orders
  BY NumbersKeptStep
<1> QED
  BY <1>1, InvInit, InvStep, PTL DEF Spec, NumberIsKept

-----------------------------------------------------------------------------
\* One broker order per order.  The list a submitter works on was read once; what
\* makes the old list harmless is that an order leaves PLANNED for good once it
\* was placed, and that the one submitter is then recording exactly that order.
Submitting(c) == job[c].step \in {"send", "record", "reject"}

OnlySubmitters ==
  \A c \in Callers : job[c].cmd = "submit" \/ Submitting(c) =>
                       job[c].cmd = "submit" /\ c \in Submitters

PlacedMovedOn ==
  \A b \in Bids : \/ orders[placed[b]].state # "planned"
                  \/ \E c \in Callers : job[c].step = "record" /\ job[c].at = placed[b]

FreshList ==
  \A c \in Callers : Submitting(c) =>
    \A o \in job[c].todo : \/ job[c].step = "record" /\ o = job[c].at
                           \/ \A b \in Bids : placed[b] # o

OnceInv == Inv /\ NoDuplicate /\ OnlySubmitters /\ PlacedMovedOn /\ FreshList

\* The strengthened invariant holds initially.
LEMMA OnceInit == Init => OnceInv
<1> SUFFICES ASSUME Init PROVE OnceInv
  OBVIOUS
<1>1. Bids = {}
  BY DEF Init, Bids
<1>2. \A c \in Callers : job[c].step = "none" /\ job[c].cmd = "none"
  BY DEF Init, NoJob
<1> QED
  BY <1>1, <1>2, InvInit
  DEF OnceInv, NoDuplicate, OnlySubmitters, PlacedMovedOn, FreshList, Submitting

\* A process that is not recording changes its own record, and takes up no list.
LEMMA OnceQuiet ==
  ASSUME OnceInv, Inv', NEW c \in Callers, NEW j \in Job, job' = [job EXCEPT ![c] = j],
         job[c].step # "record", j.step \notin {"send", "record"},
         j.cmd = "submit" => c \in Submitters,
         j.step = "reject" => /\ job[c].step = "send" /\ j.todo = job[c].todo
                              /\ j.cmd = job[c].cmd,
         UNCHANGED <<orders, placed>>
  PROVE  OnceInv'
<1>1. \A d \in Callers : job'[d] = IF d = c THEN j ELSE job[d]
  BY DEF OnceInv, Inv, TypeOK
<1>2. NoDuplicate'
  BY DEF OnceInv, NoDuplicate, Bids
<1>3. OnlySubmitters'
  BY <1>1 DEF OnceInv, OnlySubmitters, Submitting
<1>4. PlacedMovedOn'
  BY <1>1 DEF OnceInv, PlacedMovedOn, Bids
<1>5. FreshList'
  BY <1>1 DEF OnceInv, FreshList, Submitting, Bids
<1> QED
  BY <1>2, <1>3, <1>4, <1>5 DEF OnceInv

\* Rows only move on, and no command changes: nothing is placed by that.
LEMMA OnceRows ==
  ASSUME OnceInv, Inv', UNCHANGED <<placed, job>>,
         \A o \in Orders : orders'[o].state = "planned" => orders[o].state = "planned"
  PROVE  OnceInv'
<1>1. \A b \in Bids : placed[b] \in Orders
  BY DEF OnceInv, Inv, TypeOK, Bids
<1>2. PlacedMovedOn'
  BY <1>1 DEF OnceInv, PlacedMovedOn, Bids
<1> QED
  BY <1>2 DEF OnceInv, NoDuplicate, OnlySubmitters, FreshList, Submitting, Bids

\* The one submitter reads its list while nobody records: what is PLANNED then has
\* never been placed.
LEMMA OnceList ==
  ASSUME OnceInv, Inv', NEW s, Submitters = {s}, NEW c \in Callers, ListPending(c)
  PROVE  OnceInv'
<1> DEFINE todo == {o \in job[c].scope : Pending(orders[o], job[c].day)}
           j == [job[c] EXCEPT !.step = "send", !.todo = todo]
<1>1. /\ job \in [Callers -> Job] /\ job[c] \in Job /\ UNCHANGED <<orders, placed>>
      /\ job[c].cmd = "submit" /\ job[c].step = "list" /\ job' = [job EXCEPT ![c] = j]
  BY DEF ListPending, Running, OnceInv, Inv, TypeOK, brokerVars
<1>2. j.cmd = "submit" /\ j.step = "send" /\ j.todo = todo
  BY <1>1 DEF Job
<1>3. \A o \in todo : orders[o].state = "planned"
  BY DEF Pending
<1> HIDE DEF j, todo
<1>4. \A d \in Callers : job'[d] = IF d = c THEN j ELSE job[d]
  BY <1>1
<1>5. \A d \in Callers : job[d].step # "record"
  BY <1>1 DEF OnceInv, OnlySubmitters, Submitting
<1>6. \A o \in todo : \A b \in Bids : placed[b] # o
  BY <1>3, <1>5 DEF OnceInv, PlacedMovedOn
<1>7. NoDuplicate' /\ PlacedMovedOn'
  BY <1>1, <1>5 DEF OnceInv, NoDuplicate, PlacedMovedOn, Bids
<1>8. OnlySubmitters'
  BY <1>1, <1>2, <1>4 DEF OnceInv, OnlySubmitters, Submitting
<1>9. FreshList'
  BY <1>1, <1>2, <1>4, <1>6 DEF OnceInv, FreshList, Submitting, Bids
<1> QED
  BY <1>7, <1>8, <1>9 DEF OnceInv

\* What is sent was never placed before, and is being recorded from then on.
LEMMA OnceSend ==
  ASSUME OnceInv, Inv', NEW s, Submitters = {s}, NEW c \in Callers, Send(c)
  PROVE  OnceInv'
<1>1. PICK o \in job[c].todo :
        \/ /\ AcceptAtBroker(o)
           /\ job' = [job EXCEPT ![c].step = "record", ![c].at = o, ![c].bid = Len(placed) + 1]
        \/ /\ job' = [job EXCEPT ![c].step = "reject", ![c].at = o]
           /\ UNCHANGED brokerVars
  BY DEF Send
<1>2. /\ job \in [Callers -> Job] /\ job[c] \in Job /\ o \in Orders /\ orders' = orders
      /\ job[c].cmd = "submit" /\ job[c].step = "send" /\ Inv
  BY DEF Send, Running, OnceInv, Inv, TypeOK, Job
<1>3. CASE /\ AcceptAtBroker(o)
           /\ job' = [job EXCEPT ![c].step = "record", ![c].at = o, ![c].bid = Len(placed) + 1]
  <2> DEFINE n == Len(placed) + 1
             j == [job[c] EXCEPT !.step = "record", !.at = o, !.bid = n]
  <2>1. /\ j.cmd = "submit" /\ j.step = "record" /\ j.at = o /\ j.todo = job[c].todo
        /\ job' = [job EXCEPT ![c] = j]
    BY <1>2, <1>3 DEF Job
  <2> HIDE DEF j
  <2>2. \A d \in Callers : job'[d] = IF d = c THEN j ELSE job[d]
    BY <1>2, <2>1
  <2>3. /\ Bids' = Bids \cup {n} /\ n \notin Bids /\ placed'[n] = o
        /\ \A b \in Bids : placed'[b] = placed[b]
    BY <1>2, <1>3, Acceptance
  <2>4. \A b \in Bids : placed[b] # o
    BY <1>2 DEF OnceInv, FreshList, Submitting
  <2>5. NoDuplicate'
    BY <2>3, <2>4 DEF OnceInv, NoDuplicate
  <2>6. OnlySubmitters'
    BY <1>2, <2>1, <2>2 DEF OnceInv, OnlySubmitters, Submitting
  <2>7. PlacedMovedOn'
    BY <1>2, <2>1, <2>2, <2>3 DEF OnceInv, PlacedMovedOn
  <2>8. FreshList'
    <3> SUFFICES ASSUME NEW d \in Callers, Submitting(d)', NEW q \in job'[d].todo,
                        ~ (job'[d].step = "record" /\ q = job'[d].at)
                 PROVE  \A b \in Bids' : placed'[b] # q
      BY DEF FreshList
    <3>1. CASE d = c
      BY <1>2, <2>1, <2>2, <2>3, <3>1 DEF OnceInv, FreshList, Submitting
    <3>2. CASE d # c
      <4>1. job'[d] = job[d] /\ \A b \in Bids : placed[b] # q
        BY <2>2, <3>2 DEF OnceInv, FreshList, Submitting
      <4>2. d = c
        BY <1>2, <4>1 DEF OnceInv, OnlySubmitters, Submitting
      <4> QED
        BY <3>2, <4>2
    <3> QED
      BY <3>1, <3>2
  <2> QED
    BY <2>5, <2>6, <2>7, <2>8 DEF OnceInv
<1>4. CASE /\ job' = [job EXCEPT ![c].step = "reject", ![c].at = o]
           /\ UNCHANGED brokerVars
  <2> DEFINE j == [job[c] EXCEPT !.step = "reject", !.at = o]
  <2>1. /\ j \in Job /\ j.step = "reject" /\ j.todo = job[c].todo /\ j.cmd = job[c].cmd
        /\ job' = [job EXCEPT ![c] = j]
    BY <1>2, <1>4 DEF Job, Steps
  <2>2. c \in Submitters
    BY <1>2 DEF OnceInv, OnlySubmitters
  <2> HIDE DEF j
  <2> QED
    BY <1>2, <1>4, <2>1, <2>2, OnceQuiet DEF brokerVars
<1> QED
  BY <1>1, <1>3, <1>4

\* After the answer the order has left PLANNED and the list, whether the row took the
\* answer or had moved on before.
LEMMA OnceRecord ==
  ASSUME OnceInv, Inv', NEW s, Submitters = {s}, NEW c \in Callers,
         RecordSubmission(c) \/ RecordRejection(c)
  PROVE  OnceInv'
<1> DEFINE o == job[c].at
<1>1. /\ job \in [Callers -> Job] /\ job[c] \in Job /\ o \in Orders
      /\ orders \in [Orders -> OrderRow] /\ orders[o] \in OrderRow /\ placed' = placed
      /\ Submitting(c) /\ job[c].cmd = "submit" /\ c \in Submitters
      /\ \A b \in Bids : placed[b] \in Orders
  BY DEF RecordSubmission, RecordRejection, Running, OnceInv, OnlySubmitters, Submitting,
         Inv, TypeOK, HeldNumbers, Bids, brokerVars
<1>2. \A d \in Callers : d # c => ~ Submitting(d)
  BY <1>1 DEF OnceInv, OnlySubmitters
<1>3. \A p \in Orders : /\ orders'[p].state = "planned" => orders[p].state = "planned" /\ p # o
  <2>1. OrderMayBecome(orders[o].state, "submitted") => orders[o].state = "planned"
    BY <1>1, GraphFacts DEF OrderRow, OrderState, OrderMayBecome
  <2>2. OrderMayBecome("planned", "submitted") /\ OrderMayBecome("planned", "rejected")
    BY DEF OrderMayBecome, OrderTransitions
  <2>3. CASE orders' = [orders EXCEPT ![o] = Submitted(@, job[c].bid)]
    BY <1>1, <2>3 DEF Submitted, OrderRow
  <2>4. CASE orders' = [orders EXCEPT ![o].state = "rejected"]
    BY <1>1, <2>4 DEF OrderRow
  <2>5. CASE orders[o].state # "planned" /\ UNCHANGED orders
    BY <2>5
  <2> QED
    BY <2>2, <2>3, <2>4, <2>5 DEF RecordSubmission, RecordRejection
<1> DEFINE j == [job[c] EXCEPT !.step = "send", !.todo = @ \ {o}, !.at = NoBid, !.bid = NoBid]
<1>4. /\ j.cmd = "submit" /\ j.step = "send" /\ j.todo = job[c].todo \ {o}
      /\ NoJob.cmd = "none" /\ NoJob.step = "none"
  BY <1>1 DEF Job, NoJob
<1>5. job' = [job EXCEPT ![c] = j] \/ job' = [job EXCEPT ![c] = NoJob]
  BY <1>1 DEF RecordSubmission, RecordRejection, NextOrder, Finish
<1>6. PICK k \in {j, NoJob} : job' = [job EXCEPT ![c] = k]
  BY <1>5
<1>7. \A d \in Callers : job'[d] = IF d = c THEN k ELSE job[d]
  BY <1>1, <1>6
<1>8. NoDuplicate'
  BY <1>1 DEF OnceInv, NoDuplicate, Bids
<1>9. OnlySubmitters'
  BY <1>1, <1>4, <1>6, <1>7 DEF OnceInv, OnlySubmitters, Submitting
<1>10. PlacedMovedOn'
  <2> SUFFICES ASSUME NEW b \in Bids PROVE orders'[placed[b]].state # "planned"
    BY <1>1 DEF PlacedMovedOn, Bids
  <2>1. CASE placed[b] = o
    BY <1>1, <1>3, <2>1
  <2>2. CASE placed[b] # o
    BY <1>1, <1>2, <1>3, <2>2 DEF OnceInv, PlacedMovedOn, Submitting
  <2> QED
    BY <2>1, <2>2
<1>11. FreshList'
  <2> SUFFICES ASSUME NEW d \in Callers, Submitting(d)', NEW q \in job'[d].todo
               PROVE  \A b \in Bids : placed[b] # q
    BY <1>1 DEF FreshList, Bids
  <2>1. d = c /\ k = j
    BY <1>2, <1>4, <1>6, <1>7 DEF Submitting
  <2>2. q \in job[c].todo /\ q # o
    BY <1>4, <1>7, <2>1
  <2> QED
    BY <1>1, <2>2 DEF OnceInv, FreshList
<1> QED
  BY <1>8, <1>9, <1>10, <1>11 DEF OnceInv

\* A withdrawal ends rows and its own command.
LEMMA OnceWithdraw ==
  ASSUME OnceInv, Inv', NEW c \in Callers, Withdraw(c)
  PROVE  OnceInv'
<1>1. /\ job \in [Callers -> Job] /\ Finish(c) /\ placed' = placed
      /\ ~ Submitting(c) /\ orders \in [Orders -> OrderRow]
      /\ \A b \in Bids : placed[b] \in Orders
  BY DEF Withdraw, Running, Submitting, OnceInv, Inv, TypeOK, Bids, brokerVars
<1>2. \A o \in Orders : orders'[o].state = "planned" => orders[o].state = "planned"
  BY <1>1 DEF Withdraw, OrderRow, CanceledState
<1>3. \A d \in Callers : job'[d] = IF d = c THEN NoJob ELSE job[d]
  BY <1>1 DEF Finish
<1>4. NoJob.cmd = "none" /\ NoJob.step = "none"
  BY DEF NoJob
<1>5. NoDuplicate' /\ OnlySubmitters'
  BY <1>1, <1>3, <1>4 DEF OnceInv, NoDuplicate, OnlySubmitters, Submitting, Bids
<1>6. PlacedMovedOn'
  BY <1>1, <1>2, <1>3, <1>4 DEF OnceInv, PlacedMovedOn, Submitting, Bids
<1>7. FreshList'
  BY <1>1, <1>3, <1>4 DEF OnceInv, FreshList, Submitting, Bids
<1> QED
  BY <1>5, <1>6, <1>7 DEF OnceInv

\* The commands that start, answer, list or end leave what is placed alone.
LEMMA OnceBeside ==
  ASSUME OnceInv, Inv', NEW c \in Callers,
         \/ StartSwitch(c) \/ StartSubmit(c) \/ StartStop(c) \/ StartWithdraw(c)
         \/ Answered(c) \/ PassGate(c) \/ ListOpen(c) \/ Cancel(c)
         \/ ListDone(c) \/ ListPlanned(c) \/ CancelFails(c)
  PROVE  OnceInv'
<1>1. /\ job \in [Callers -> Job] /\ job' \in [Callers -> Job] /\ job[c] \in Job
      /\ UNCHANGED <<orders, placed>>
  BY DEF OnceInv, Inv, TypeOK, brokerVars, StartSwitch, StartSubmit, StartStop, StartWithdraw,
         Starts, Answered, PassGate, ListOpen, Cancel, ListDone, ListPlanned, CancelFails
<1>2. job' = [job EXCEPT ![c] = job'[c]]
  BY <1>1 DEF StartSwitch, StartSubmit, StartStop, StartWithdraw, Starts, Answered, Finish,
         PassGate, ListOpen, Cancel, ListDone, ListPlanned, CancelFails
<1>3. /\ job[c].step # "record" /\ job'[c].step \notin {"send", "record", "reject"}
      /\ job'[c].cmd = "submit" => c \in Submitters
  <2>1. job[c].cmd = "submit" => c \in Submitters
    BY DEF OnceInv, OnlySubmitters
  <2>2. job[c].step = "record" => job[c].cmd = "submit"
    BY DEF OnceInv, OnlySubmitters, Submitting
  <2>3. CASE StartSwitch(c) \/ StartSubmit(c) \/ StartStop(c) \/ StartWithdraw(c)
    BY <1>1, <2>2, <2>3, ZenonT(60) DEF StartSwitch, StartSubmit, StartStop, StartWithdraw, Starts, NoJob
  <2>4. CASE Answered(c)
    <3>1. Finish(c) \/ \E step \in {"gate", "list"} : job' = [job EXCEPT ![c].step = step]
      BY <2>4 DEF Answered
    <3> QED
      BY <1>1, <2>1, <2>4, <3>1 DEF Answered, Finish, NoJob, Job
  <2>5. CASE PassGate(c) \/ ListOpen(c) \/ Cancel(c) \/ ListPlanned(c)
    BY <1>1, <2>1, <2>5 DEF PassGate, ListOpen, Cancel, ListPlanned, Running, Finish, NoJob, Job
  <2>6. CASE ListDone(c) \/ CancelFails(c)
    BY <1>1, <2>6 DEF ListDone, CancelFails, Running, Finish, NoJob
  <2> QED
    BY <2>3, <2>4, <2>5, <2>6
<1> QED
  BY <1>1, <1>2, <1>3, OnceQuiet

\* With one submitter and no faults at most one broker order is placed for an order,
\* for any orders, plans and other processes that withdraw, stop and switch.
THEOREM NoDuplicateCorrect ==
  ASSUME MaxFaults = 0, NEW s, Submitters = {s}
  PROVE  Spec => []NoDuplicate
<1>1. OnceInv /\ [Next]_vars => OnceInv'
  <2> SUFFICES ASSUME OnceInv, [Next]_vars PROVE OnceInv'
    OBVIOUS
  <2>1. Inv'
    BY InvStep DEF OnceInv
  <2>2. faults = 0
    BY MaxFaults = 0 DEF OnceInv, Inv, TypeOK
  <2>3. ASSUME NEW c \in Callers PROVE ~ SendFails(c) /\ ~ Crash(c)
    BY <2>2, MaxFaults = 0 DEF SendFails, Crash
  <2>4. ASSUME NEW c \in Callers, SwitchStep(c) PROVE OnceInv'
    BY <2>1, <2>4, OnceRows DEF SwitchStep, brokerVars
  <2>5. ASSUME NEW c \in Callers,
               \/ StartSwitch(c) \/ StartSubmit(c) \/ StartStop(c) \/ StartWithdraw(c)
               \/ Answered(c) \/ PassGate(c) \/ ListOpen(c) \/ Cancel(c)
               \/ ListDone(c) \/ ListPlanned(c) \/ CancelFails(c)
        PROVE  OnceInv'
    BY <2>1, <2>5, OnceBeside
  <2>6. ASSUME NEW c \in Callers, ListPending(c) \/ Send(c) PROVE OnceInv'
    BY <2>1, <2>6, Submitters = {s}, OnceList, OnceSend
  <2>7. ASSUME NEW c \in Callers, RecordSubmission(c) \/ RecordRejection(c) PROVE OnceInv'
    BY <2>1, <2>7, Submitters = {s}, OnceRecord
  <2>8. ASSUME NEW c \in Callers, Withdraw(c) PROVE OnceInv'
    BY <2>1, <2>8, OnceWithdraw
  <2>9. ASSUME NEW o \in Orders, Observe(o) PROVE OnceInv'
    <3>1. orders \in [Orders -> OrderRow] /\ UNCHANGED <<placed, job>>
      BY <2>9 DEF Observe, OnceInv, Inv, TypeOK
    <3>2. \A p \in Orders : orders'[p].state = "planned" => orders[p].state = "planned"
      BY <2>9, <3>1 DEF Observe, OrderRow, OrderTransitions, OpenStates
    <3> QED
      BY <2>1, <3>1, <3>2, OnceRows
  <2>10. CASE DayChanges \/ UNCHANGED vars
    BY <2>1, <2>10, OnceRows DEF DayChanges, vars, brokerVars
  <2> QED
    BY <2>3, <2>4, <2>5, <2>6, <2>7, <2>8, <2>9, <2>10 DEF Next, Proceed
<1>2. OnceInv => NoDuplicate
  BY DEF OnceInv
<1> QED
  BY <1>1, <1>2, OnceInit, PTL DEF Spec
-----------------------------------------------------------------------------
\* An order goes out on a day on which a person turned trading on.  A command
\* takes the date once and ends on that day; a submitter goes on from its answer
\* only with a RUNNING row of this very day, and since then the order of a person
\* is at most given again.
CallsAreOfToday ==
  \A c \in Callers : call[c].phase # "idle" =>
    call[c].day = today /\ job[c].cmd # "none" /\ job[c].step = "switch"

SubmitAsksForDisabled ==
  \A c \in Callers : Running(c, "submit", "switch") =>
    /\ call[c].kind = "day_changed" /\ call[c].requested = "disabled"
    /\ call[c].phase = "done" /\ call[c].seen.state = "running" => orderedOn = today

PastTheGateOrdered ==
  \A c \in Callers : job[c].cmd = "submit" /\ job[c].step # "switch" => orderedOn = today

DayInv == /\ TypeOK /\ RunningRowIsOrdered
          /\ CallsAreOfToday /\ SubmitAsksForDisabled /\ PastTheGateOrdered

\* The strengthened invariant holds initially.
LEMMA DayInit == Init => DayInv
<1> SUFFICES ASSUME Init PROVE DayInv
  OBVIOUS
<1>1. TypeOK
  BY InvInit DEF Inv
<1>2. RunningRowIsOrdered
  BY DEF Init, AutoInit, RunningRowIsOrdered, Unwritten
<1>3. \A c \in Callers : call[c].phase = "idle" /\ job[c].cmd = "none"
  BY DEF Init, AutoInit, NoCall, NoJob
<1> QED
  BY <1>1, <1>2, <1>3 DEF DayInv, CallsAreOfToday, SubmitAsksForDisabled, PastTheGateOrdered, Running

\* A command that starts fills its own record and no other.
LEMMA StartedJob ==
  ASSUME TypeOK, NEW c \in Callers, NEW cmd, NEW step, NEW scope, Starts(c, cmd, step, scope)
  PROVE  /\ job[c].cmd = "none" /\ job'[c].cmd = cmd /\ job'[c].step = step
         /\ \A d \in Callers \ {c} : job'[d] = job[d]
<1> DEFINE j == [NoJob EXCEPT !.cmd = cmd, !.step = step, !.day = today, !.scope = scope]
<1>1. j.cmd = cmd /\ j.step = step
  BY DEF NoJob
<1>2. job' = [job EXCEPT ![c] = j] /\ job \in [Callers -> Job] /\ job[c].cmd = "none"
  BY DEF Starts, TypeOK
<1> HIDE DEF j
<1> QED
  BY <1>1, <1>2

\* A command begins, and takes the date of the day with it.
LEMMA DayBegins ==
  ASSUME DayInv, TypeOK', NEW c \in Callers,
         StartSwitch(c) \/ StartSubmit(c) \/ StartStop(c) \/ StartWithdraw(c)
  PROVE  DayInv'
<1>1. /\ call \in [Callers -> Call] /\ UNCHANGED <<row, today, orderedOn>>
      /\ \A d \in Callers \ {c} : call'[d] = call[d]
  BY DEF DayInv, TypeOK, AutoTypeOK, StartSwitch, StartSubmit, StartStop, StartWithdraw,
         Begin, autoVars
<1>2. PICK cmd, step, scope : Starts(c, cmd, step, scope)
  BY DEF StartSwitch, StartSubmit, StartStop, StartWithdraw
<1>3. /\ job[c].cmd = "none" /\ call[c].phase = "idle"
      /\ \A d \in Callers \ {c} : call'[d] = call[d] /\ job'[d] = job[d]
  BY <1>1, <1>2, StartedJob DEF DayInv, CallsAreOfToday
<1>4. CASE StartWithdraw(c)
  <2>1. job'[c].cmd = "withdraw" /\ call'[c].phase = "idle"
    BY <1>3, <1>4, StartedJob DEF StartWithdraw, DayInv, autoVars
  <2> QED
    BY <1>1, <1>3, <2>1
    DEF DayInv, RunningRowIsOrdered, CallsAreOfToday, SubmitAsksForDisabled, PastTheGateOrdered, Running
<1>5. CASE StartSubmit(c)
  <2>1. job'[c].cmd = "submit" /\ job'[c].step = "switch"
    BY <1>5, StartedJob DEF StartSubmit, DayInv
  <2>2. /\ call'[c].phase = "check" /\ call'[c].day = today
        /\ call'[c].kind = "day_changed" /\ call'[c].requested = "disabled"
    BY <1>1, <1>5 DEF StartSubmit, Begin, TradingDate, Requests, Prechecked
  <2> QED
    BY <1>1, <1>3, <2>1, <2>2
    DEF DayInv, RunningRowIsOrdered, CallsAreOfToday, SubmitAsksForDisabled, PastTheGateOrdered, Running
<1>6. CASE StartSwitch(c) \/ StartStop(c)
  <2>1. job'[c].cmd \in {"switch", "stop"} /\ job'[c].step = "switch"
    BY <1>6, StartedJob DEF StartSwitch, StartStop, DayInv
  <2>2. call'[c].day = today
    BY <1>1, <1>6 DEF StartSwitch, StartStop, Begin, TradingDate
  <2> QED
    BY <1>1, <1>3, <2>1, <2>2
    DEF DayInv, RunningRowIsOrdered, CallsAreOfToday, SubmitAsksForDisabled, PastTheGateOrdered, Running
<1> QED
  BY <1>4, <1>5, <1>6

\* The switch is looked at, read and written.
LEMMA DaySwitch ==
  ASSUME DayInv, TypeOK', NEW c \in Callers, SwitchStep(c)
  PROVE  DayInv'
<1>1. /\ call \in [Callers -> Call] /\ row \in Record /\ today \in Days
      /\ UNCHANGED <<job, today>>
  BY DEF DayInv, TypeOK, AutoTypeOK, SwitchStep, Check, SelectRow, WriteRow
<1>2. /\ call[c].day = today /\ job[c].step = "switch" /\ job[c].cmd # "none"
      /\ call[c].phase # "idle"
  BY DEF DayInv, CallsAreOfToday, SwitchStep, Check, SelectRow, WriteRow
<1>3. /\ \A d \in Callers \ {c} : call'[d] = call[d]
      /\ call'[c].day = call[c].day /\ call'[c].kind = call[c].kind
      /\ call'[c].requested = call[c].requested
  BY <1>1 DEF SwitchStep, Check, SelectRow, WriteRow, Call
<1>4. CallsAreOfToday'
  BY <1>1, <1>2, <1>3 DEF DayInv, CallsAreOfToday
<1>5. CASE Check(c)
  <2>1. UNCHANGED <<row, orderedOn>>
    BY <1>5 DEF Check
  <2>2. ASSUME Running(c, "submit", "switch"), call'[c].phase = "done",
               call'[c].seen.state = "running"
        PROVE  orderedOn = today
    <3>1. call[c].kind = "day_changed"
      BY <2>2 DEF DayInv, SubmitAsksForDisabled
    <3>2. call'[c].seen = row /\ ~ IsStaleTradingDay(row, today)
      BY <1>1, <1>2, <1>5, <2>2, <3>1 DEF Check, GoesOn, Call
    <3>3. row.state = "running" /\ row.day \in Days /\ orderedOn = row.day
      BY <2>2, <3>2 DEF DayInv, RunningRowIsOrdered
    <3> QED
      BY <3>2, <3>3 DEF IsStaleTradingDay, Days, NoDay
  <2>3. SubmitAsksForDisabled'
    BY <1>1, <1>3, <2>1, <2>2 DEF DayInv, SubmitAsksForDisabled, Running
  <2> QED
    BY <1>1, <1>4, <2>1, <2>3 DEF DayInv, RunningRowIsOrdered, PastTheGateOrdered
<1>6. CASE SelectRow(c)
  <2>1. UNCHANGED <<row, orderedOn>> /\ call'[c].phase # "done"
    BY <1>1, <1>6 DEF SelectRow, Call
  <2> QED
    BY <1>1, <1>3, <1>4, <2>1
    DEF DayInv, RunningRowIsOrdered, SubmitAsksForDisabled, PastTheGateOrdered, Running
<1>7. CASE WriteRow(c)
  <2>1. \/ UNCHANGED <<row, orderedOn>> /\ call'[c].phase = "raised"
        \/ /\ row' = [state |-> call[c].requested, day |-> today] /\ call'[c].seen = row'
           /\ orderedOn' = IF call[c].requested = "running" THEN today ELSE orderedOn
    BY <1>1, <1>2, <1>7 DEF WriteRow, Call
  <2>2. orderedOn = today => orderedOn' = today
    BY <2>1
  <2>3. RunningRowIsOrdered'
    BY <1>1, <2>1 DEF DayInv, RunningRowIsOrdered
  <2>4. SubmitAsksForDisabled'
    BY <1>1, <1>3, <2>1, <2>2 DEF DayInv, SubmitAsksForDisabled, Running
  <2> QED
    BY <1>1, <1>4, <2>2, <2>3, <2>4 DEF DayInv, PastTheGateOrdered
<1> QED
  BY <1>5, <1>6, <1>7 DEF SwitchStep

\* A submitter leaves its call with a RUNNING record, or it ends.
LEMMA DayAnswered ==
  ASSUME DayInv, TypeOK', NEW c \in Callers, Answered(c)
  PROVE  DayInv'
<1>1. /\ call \in [Callers -> Call] /\ job \in [Callers -> Job]
      /\ UNCHANGED <<row, today, orderedOn>> /\ job[c].step = "switch"
  BY DEF DayInv, TypeOK, AutoTypeOK, Answered, Return
<1>2. call' = [call EXCEPT ![c] = NoCall]
  BY DEF Answered, Return
<1>3. /\ \A d \in Callers \ {c} : call'[d] = call[d] /\ job'[d] = job[d]
      /\ call'[c].phase = "idle"
  BY <1>1, <1>2 DEF Answered, Finish, NoCall
<1>4. job'[c].cmd = "submit" => orderedOn = today /\ job'[c].step # "switch"
  <2>1. CASE /\ job[c].cmd = "submit" /\ call[c].phase = "done" /\ SaysRunning(call[c].seen)
    <3>1. orderedOn = today
      BY <1>1, <2>1 DEF DayInv, SubmitAsksForDisabled, Running, SaysRunning
    <3>2. job' = [job EXCEPT ![c].step = "gate"]
      BY <2>1 DEF Answered
    <3> QED
      BY <1>1, <3>1, <3>2 DEF Job
  <2>2. CASE ~ (job[c].cmd = "submit" /\ call[c].phase = "done" /\ SaysRunning(call[c].seen))
    <3>1. \/ Finish(c)
          \/ job[c].cmd = "stop" /\ job' = [job EXCEPT ![c].step = "list"]
      BY <2>2 DEF Answered
    <3> QED
      BY <1>1, <3>1 DEF Finish, NoJob, Job
  <2> QED
    BY <2>1, <2>2
<1> QED
  BY <1>1, <1>3, <1>4
  DEF DayInv, RunningRowIsOrdered, CallsAreOfToday, SubmitAsksForDisabled, PastTheGateOrdered, Running

\* What a command does after its call changes neither the switch nor the day.
LEMMA DayWorks ==
  ASSUME DayInv, TypeOK', NEW c \in Callers, UNCHANGED autoVars,
         \/ PassGate(c) \/ ListPending(c) \/ Send(c) \/ SendFails(c)
         \/ RecordSubmission(c) \/ RecordRejection(c)
         \/ ListOpen(c) \/ Cancel(c) \/ CancelFails(c) \/ ListDone(c)
         \/ ListPlanned(c) \/ Withdraw(c)
  PROVE  DayInv'
<1>1. job \in [Callers -> Job] /\ UNCHANGED <<row, today, orderedOn, call>>
  BY DEF DayInv, TypeOK, autoVars
<1>2. /\ job' = [job EXCEPT ![c] = job'[c]] /\ job[c].step # "switch" /\ job'[c].step # "switch"
      /\ job'[c].cmd = job[c].cmd \/ job'[c].cmd = "none"
  <2>1. ASSUME Finish(c), job[c].step # "switch"
        PROVE  /\ job' = [job EXCEPT ![c] = job'[c]] /\ job'[c].step # "switch"
               /\ job'[c].cmd = "none"
    BY <1>1, <2>1 DEF Finish, NoJob
  <2>2. CASE PassGate(c) \/ ListDone(c) \/ Withdraw(c)
    BY <1>1, <2>1, <2>2 DEF PassGate, ListDone, Withdraw, Running, Job
  <2>3. CASE ListPending(c) \/ ListOpen(c) \/ ListPlanned(c)
    BY <1>1, <2>3 DEF ListPending, ListOpen, ListPlanned, Running, Job
  <2>4. CASE SendFails(c) \/ CancelFails(c)
    <3>1. Finish(c) /\ (Running(c, "submit", "send") \/ Running(c, "stop", "sweep"))
      BY <2>4 DEF SendFails, CancelFails
    <3> QED
      BY <2>1, <3>1 DEF Running
  <2>5. CASE Cancel(c)
    BY <1>1, <2>5 DEF Cancel, Running, Job
  <2>6. CASE Send(c)
    <3>1. Running(c, "submit", "send")
      BY <2>6 DEF Send
    <3>2. PICK o \in job[c].todo :
            \/ job' = [job EXCEPT ![c].step = "record", ![c].at = o, ![c].bid = Len(placed) + 1]
            \/ job' = [job EXCEPT ![c].step = "reject", ![c].at = o]
      BY <2>6, Zenon DEF Send
    <3>3. job[c].step = "send" /\ job[c] \in Job
      BY <1>1, <3>1 DEF Running
    <3>4. CASE job' = [job EXCEPT ![c].step = "record", ![c].at = o, ![c].bid = Len(placed) + 1]
      BY <1>1, <3>3, <3>4 DEF Job
    <3>5. CASE job' = [job EXCEPT ![c].step = "reject", ![c].at = o]
      BY <1>1, <3>3, <3>5 DEF Job
    <3> QED
      BY <3>2, <3>3, <3>4, <3>5
  <2>7. CASE RecordSubmission(c) \/ RecordRejection(c)
    <3>1. /\ Running(c, "submit", "record") \/ Running(c, "submit", "reject")
          /\ Finish(c) \/ NextOrder(c)
      BY <2>7 DEF RecordSubmission, RecordRejection
    <3> QED
      BY <1>1, <2>1, <3>1 DEF Running, NextOrder, Job
  <2> QED
    BY <2>2, <2>3, <2>4, <2>5, <2>6, <2>7
<1>3. /\ call[c].phase = "idle"
      /\ \A d \in Callers \ {c} : job'[d] = job[d]
  BY <1>1, <1>2 DEF DayInv, CallsAreOfToday
<1> QED
  BY <1>1, <1>2, <1>3
  DEF DayInv, RunningRowIsOrdered, CallsAreOfToday, SubmitAsksForDisabled, PastTheGateOrdered, Running

\* Each step keeps the strengthened invariant.
LEMMA DayStep ==
  ASSUME DayInv, TypeOK', [Next]_vars
  PROVE  DayInv'
<1>1. ASSUME NEW c \in Callers, Crash(c) PROVE DayInv'
  <2>1. /\ call \in [Callers -> Call] /\ job \in [Callers -> Job]
        /\ UNCHANGED <<row, today, orderedOn>>
    BY <1>1 DEF Crash, DayInv, TypeOK, AutoTypeOK
  <2>2. /\ \A d \in Callers \ {c} : call'[d] = call[d] /\ job'[d] = job[d]
        /\ call'[c].phase = "idle" /\ job'[c].cmd = "none"
    BY <1>1, <2>1 DEF Crash, Finish, NoCall, NoJob
  <2> QED
    BY <2>1, <2>2
    DEF DayInv, RunningRowIsOrdered, CallsAreOfToday, SubmitAsksForDisabled, PastTheGateOrdered, Running
<1>2. CASE DayChanges
  <2>1. /\ UNCHANGED <<row, orderedOn, call, job>>
        /\ \A c \in Callers : job[c].cmd = "none"
    BY <1>2 DEF DayChanges, NextDay
  <2> QED
    BY <2>1
    DEF DayInv, RunningRowIsOrdered, CallsAreOfToday, SubmitAsksForDisabled, PastTheGateOrdered, Running
<1>3. CASE UNCHANGED vars \/ \E o \in Orders : Observe(o)
  <2>1. UNCHANGED <<row, orderedOn, today, call, job>>
    BY <1>3 DEF vars, autoVars, Observe
  <2> QED
    BY <2>1
    DEF DayInv, RunningRowIsOrdered, CallsAreOfToday, SubmitAsksForDisabled, PastTheGateOrdered, Running
<1>4. ASSUME NEW c \in Callers,
             \/ PassGate(c) \/ ListPending(c) \/ Send(c) \/ SendFails(c)
             \/ RecordSubmission(c) \/ RecordRejection(c)
             \/ ListOpen(c) \/ Cancel(c) \/ CancelFails(c) \/ ListDone(c)
             \/ ListPlanned(c) \/ Withdraw(c)
      PROVE  DayInv'
  <2>1. UNCHANGED autoVars
    <3>1. Send(c) => UNCHANGED autoVars
      BY DEF Send
    <3>2. SendFails(c) => UNCHANGED autoVars
      BY DEF SendFails
    <3>3. RecordSubmission(c) \/ RecordRejection(c) => UNCHANGED autoVars
      BY DEF RecordSubmission, RecordRejection
    <3> QED
      BY <1>4, <3>1, <3>2, <3>3 DEF PassGate, ListPending, ListOpen, Cancel, CancelFails, ListDone,
                              ListPlanned, Withdraw
  <2> QED
    BY <1>4, <2>1, DayWorks
<1> QED
  BY <1>1, <1>2, <1>3, <1>4, DayBegins, DaySwitch, DayAnswered DEF Next, Proceed

\* Every order goes out on a day on which a person turned trading on, for any
\* processes, overlapping or not, any plans, days, crashes and failed calls.
THEOREM SentOnOrderCorrect == Spec => SentOnlyOnOrder
<1>1. DayInv /\ [Next]_vars => [placed' # placed => orderedOn = today]_placed
  <2> SUFFICES ASSUME DayInv, [Next]_vars, placed' # placed PROVE orderedOn = today
    OBVIOUS
  <2>1. PICK c \in Callers : Send(c) \/ SendFails(c)
    <3>1. ASSUME NEW c \in Callers,
                 \/ StartSwitch(c) \/ StartSubmit(c) \/ StartStop(c) \/ StartWithdraw(c)
                 \/ SwitchStep(c) \/ Answered(c) \/ Crash(c)
          PROVE  FALSE
      <4>1. SwitchStep(c) \/ Answered(c) \/ Crash(c) => placed' = placed
        BY DEF SwitchStep, Answered, Crash, brokerVars
      <4>2. ASSUME NEW cmd, NEW step, NEW scope, Starts(c, cmd, step, scope)
            PROVE  placed' = placed
        BY <4>2 DEF Starts, brokerVars
      <4> QED
        BY <3>1, <4>1, <4>2 DEF StartSwitch, StartSubmit, StartStop, StartWithdraw
    <3>2. ASSUME NEW c \in Callers,
                 \/ PassGate(c) \/ ListPending(c) \/ RecordSubmission(c) \/ RecordRejection(c)
                 \/ ListOpen(c) \/ Cancel(c) \/ CancelFails(c) \/ ListDone(c)
                 \/ ListPlanned(c) \/ Withdraw(c)
          PROVE  FALSE
      BY <3>2 DEF PassGate, ListPending, RecordSubmission, RecordRejection, ListOpen, Cancel,
                  CancelFails, ListDone, ListPlanned, Withdraw, brokerVars
    <3>3. ~ DayChanges /\ ~ UNCHANGED vars /\ ~ \E o \in Orders : Observe(o)
      BY DEF DayChanges, Observe, vars, brokerVars
    <3> QED
      BY <3>1, <3>2, <3>3 DEF Next, Proceed
  <2>2. Send(c) => Running(c, "submit", "send")
    BY DEF Send
  <2>3. SendFails(c) => Running(c, "submit", "send")
    BY DEF SendFails
  <2> QED
    BY <2>1, <2>2, <2>3 DEF Running, DayInv, PastTheGateOrdered
<1> QED
  BY <1>1, DayInit, DayStep, SubmissionTypeCorrect, PTL DEF Spec, SentOnlyOnOrder
=============================================================================
