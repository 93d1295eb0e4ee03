--------------------------- MODULE MarketCalendar ----------------------------
(*************************************************************************)
(* The market calendar of one trading day: collectors store what the     *)
(* exchange KRX publishes as versions of the day's record, and on the    *)
(* day itself confirmers hold the current version against what the       *)
(* broker KIS says.  Only a confirmed record lets anything run.          *)
(*                                                                       *)
(* A collector fetches and saves in different steps, a confirmer reads   *)
(* the record, asks and saves in different steps, and each reports to    *)
(* its job last, so that all of them overlap.  A save locks the current  *)
(* row.  Two saves that meet at the lock let the second fail; Fail       *)
(* covers that.                                                          *)
(*                                                                       *)
(* The clock counts ticks longer than a lease.  The first version is     *)
(* KRX's always, since a confirmation needs a record: the source of a    *)
(* row is not kept.  The rows of api_sync_status, which only report, are *)
(* left out.                                                             *)
(*************************************************************************)
EXTENDS Naturals, Sequences, SequencesExt

CONSTANTS
  CalCollectors,   \* workers that run the KRX job
  CalConfirmers,   \* workers that run the KIS job
  TicksPerDay,
  TradingDay,      \* the day the record is about
  LastTick,        \* bound: the clock stops here
  MaxNews,         \* bound: changes of what KRX publishes and of what KIS says
  MaxCalFaults     \* bound: failing calls and crashes

ASSUME CalAssumption ==
  /\ TicksPerDay \in Nat \ {0} /\ TradingDay \in Nat
  /\ LastTick \in Nat /\ MaxNews \in Nat /\ MaxCalFaults \in Nat

VARIABLES
  calClock,
  published,   \* KRX: the annual schedule and a trading-hours notice of the day
  brokerSays,  \* KIS: is the market open that day, or closed?
  news,        \* how often the two have changed
  versions,    \* the rows of market_calendar for the day, oldest first
  krxJob,      \* krxJob[d]: the claim of date d
  kisJob,      \* kisJob[v]: the claim for version v
  collector,   \* collector[c]: what collector c is doing
  confirmer,   \* confirmer[p]: what confirmer p is doing
  calFaults

worldVars == <<calClock, published, brokerSays, news>>
calVars == <<worldVars, versions, krxJob, kisJob, collector, confirmer, calFaults>>

Ticks == 0..LastTick
DateOf(t) == t \div TicksPerDay
LocalDate == DateOf(calClock)
Dates == {DateOf(t) : t \in Ticks}
NoTick == LastTick + 1
NoDate == DateOf(LastTick) + 1

\* What a row may say of the day.  A closed day carries its reason, and the
\* broker's reason is not KRX's.
KrxFacts == {"open", "shortened", "closed"}

\* word is history: the broker's answer that the verification was written from.
Version ==
  [facts : KrxFacts, state : {"pending", "confirmed", "conflict"}, confirmed : Dates \cup {NoDate},
   from : Ticks, superseded : Ticks \cup {NoTick}, word : {"open", "closed", "none"}]

Claim(owners) == [state : {"none", "running", "succeeded", "conflict", "failed"}, owner : owners \cup {"nobody"},
                  since : Ticks]
Unclaimed == [state |-> "none", owner |-> "nobody", since |-> 0]

AtEase == [step |-> "idle"]

CalInit ==
  /\ calClock = 0
  /\ published = [annual |-> "open", notice |-> FALSE] /\ brokerSays = "open" /\ news = 0
  /\ versions = <<>>
  /\ krxJob = [d \in Dates |-> Unclaimed]
  /\ kisJob = <<>>
  /\ collector = [c \in CalCollectors |-> AtEase]
  /\ confirmer = [p \in CalConfirmers |-> AtEase]
  /\ calFaults = 0

-----------------------------------------------------------------------------
(* The world.                                                            *)

Tick ==
  /\ calClock < LastTick /\ calClock' = calClock + 1
  /\ UNCHANGED <<published, brokerSays, news, versions, krxJob, kisJob, collector, confirmer, calFaults>>

Other(word) == IF word = "open" THEN "closed" ELSE "open"

News ==
  /\ news < MaxNews /\ news' = news + 1
  /\ \/ \E a \in {"open", "closed"}, n \in BOOLEAN :
          /\ published' = [annual |-> a, notice |-> n] /\ published' # published
          /\ UNCHANGED brokerSays
     \/ brokerSays' = Other(brokerSays) /\ UNCHANGED published
  /\ UNCHANGED <<calClock, versions, krxJob, kisJob, collector, confirmer, calFaults>>

-----------------------------------------------------------------------------
(* The claim of a job: a failed one, or one whose lease has run out.     *)

Free(job) == job.state \in {"none", "failed"} \/ (job.state = "running" /\ job.since < calClock)

Held(w) == [state |-> "running", owner |-> w, since |-> calClock]

\* A report counts only while its worker holds the claim.
Ended(job, w, result) == IF job.state = "running" /\ job.owner = w THEN [job EXCEPT !.state = result] ELSE job

-----------------------------------------------------------------------------
(* The rows.                                                             *)

Newest == Last(versions)

SameFacts(row, facts) == row.facts = facts

NewVersion(facts, received) ==
  [facts |-> facts, state |-> "pending", confirmed |-> NoDate, from |-> received,
   superseded |-> NoTick, word |-> "none"]

\* A collected observation is pending: it renews a row's evidence only.
Renewed(row) == row

TooOld(row, received) == received <= row.from

Replaced(facts, received) ==
  Append([versions EXCEPT ![Len(versions)].superseded = received], NewVersion(facts, received))

Verified(row, facts, word, day) ==
  IF SameFacts(row, facts)
  THEN [row EXCEPT !.state = "confirmed", !.confirmed = day, !.word = word]
  ELSE [row EXCEPT !.state = "conflict", !.confirmed = NoDate, !.word = word]

-----------------------------------------------------------------------------
(* The collection.                                                       *)

ClaimKrx(c) ==
  /\ collector[c].step = "idle" /\ Free(krxJob[LocalDate])
  /\ krxJob' = [krxJob EXCEPT ![LocalDate] = Held(c)]
  /\ collector' = [collector EXCEPT ![c] = [step |-> "fetch", day |-> LocalDate]]
  /\ UNCHANGED <<worldVars, versions, kisJob, confirmer, calFaults>>

\* The annual schedule lists the closed days; a notice tells of other hours.
Annual == published.annual
Noticed == "shortened"

\* A notice about the day overrides the schedule.
Composite == IF published.notice THEN Noticed ELSE Annual

Fetch(c) ==
  /\ collector[c].step = "fetch"
  /\ collector' = [collector EXCEPT ![c] = [step |-> "save", day |-> @.day, facts |-> Composite, at |-> calClock]]
  /\ UNCHANGED <<worldVars, versions, krxJob, kisJob, confirmer, calFaults>>

\* Other facts that were received before the current row's: VALIDITY.
NotTaken(k) == versions # <<>> /\ ~ SameFacts(Newest, k.facts) /\ TooOld(Newest, k.at)

SaveKrx(c) ==
  LET k == collector[c] IN
  /\ k.step = "save" /\ ~ NotTaken(k)
  /\ versions' = IF versions = <<>> THEN <<NewVersion(k.facts, k.at)>>
                 ELSE IF SameFacts(Newest, k.facts) THEN [versions EXCEPT ![Len(versions)] = Renewed(@)]
                 ELSE Replaced(k.facts, k.at)
  /\ kisJob' = [v \in DOMAIN versions' |-> IF v \in DOMAIN kisJob THEN kisJob[v] ELSE Unclaimed]
  /\ collector' = [collector EXCEPT ![c].step = "report"]
  /\ UNCHANGED <<worldVars, krxJob, confirmer, calFaults>>

SaveKrxRefused(c) ==
  LET k == collector[c] IN
  /\ k.step = "save" /\ NotTaken(k)
  /\ krxJob' = [krxJob EXCEPT ![k.day] = Ended(@, c, "failed")]
  /\ collector' = [collector EXCEPT ![c] = AtEase]
  /\ UNCHANGED <<worldVars, versions, kisJob, confirmer, calFaults>>

ReportKrx(c) ==
  /\ collector[c].step = "report"
  /\ krxJob' = [krxJob EXCEPT ![collector[c].day] = Ended(@, c, "succeeded")]
  /\ collector' = [collector EXCEPT ![c] = AtEase]
  /\ UNCHANGED <<worldVars, versions, kisJob, confirmer, calFaults>>

\* A call fails and the job is reported as failed, or the worker dies.
FailKrx(c) ==
  /\ collector[c].step # "idle" /\ calFaults < MaxCalFaults
  /\ calFaults' = calFaults + 1
  /\ krxJob' \in {krxJob, [krxJob EXCEPT ![collector[c].day] = Ended(@, c, "failed")]}
  /\ collector' = [collector EXCEPT ![c] = AtEase]
  /\ UNCHANGED <<worldVars, versions, kisJob, confirmer>>

-----------------------------------------------------------------------------
(* The confirmation.                                                     *)

JobKey == Len(versions)

\* Nothing to do unless today's collection succeeded and the row is pending.
ClaimKis(p) ==
  /\ confirmer[p].step = "idle" /\ LocalDate = TradingDay
  /\ krxJob[LocalDate].state = "succeeded"
  /\ versions # <<>> /\ Newest.state = "pending"
  /\ Free(kisJob[JobKey])
  /\ kisJob' = [kisJob EXCEPT ![JobKey] = Held(p)]
  /\ confirmer' = [confirmer EXCEPT ![p] = [step |-> "look", key |-> JobKey]]
  /\ UNCHANGED <<worldVars, versions, krxJob, collector, calFaults>>

\* The operation takes the date anew: after midnight it confirms another day's
\* row, and the report looks at this one.
LookUp(p) ==
  /\ confirmer[p].step = "look"
  /\ confirmer' = [confirmer EXCEPT ![p] =
                     IF LocalDate = TradingDay
                     THEN [step |-> "ask", key |-> @.key, facts |-> Newest.facts]
                     ELSE [step |-> "report", key |-> @.key]]
  /\ UNCHANGED <<worldVars, versions, krxJob, kisJob, collector, calFaults>>

\* The broker says open or closed.  Where that agrees with the row that was
\* read, the answer carries that row's session; else it has one of its own.
\* Mutation: the answer carries the row's session anyhow.
AnswerEchoed(facts, word) == facts

Answer(facts, word) ==
  IF word = "open" THEN (IF facts = "closed" THEN "open" ELSE facts)
  ELSE IF facts = "closed" THEN "closed" ELSE "closed_by_kis"

Ask(p) ==
  /\ confirmer[p].step = "ask"
  /\ confirmer' = [confirmer EXCEPT ![p] =
                     [step |-> "save", key |-> @.key, facts |-> Answer(@.facts, brokerSays),
                      word |-> brokerSays, day |-> LocalDate]]
  /\ UNCHANGED <<worldVars, versions, krxJob, kisJob, collector, calFaults>>

SaveKis(p) ==
  LET k == confirmer[p] IN
  /\ k.step = "save"
  /\ versions' = [versions EXCEPT ![Len(versions)] = Verified(@, k.facts, k.word, k.day)]
  /\ confirmer' = [confirmer EXCEPT ![p] = [step |-> "report", key |-> k.key]]
  /\ UNCHANGED <<worldVars, krxJob, kisJob, collector, calFaults>>

\* The record is read again, and its verification is the result.
Outcome == CASE Newest.state = "confirmed" -> "succeeded" [] Newest.state = "conflict" -> "conflict" [] OTHER -> "failed"

ReportKis(p) ==
  /\ confirmer[p].step = "report"
  /\ kisJob' = [kisJob EXCEPT ![confirmer[p].key] = Ended(@, p, Outcome)]
  /\ confirmer' = [confirmer EXCEPT ![p] = AtEase]
  /\ UNCHANGED <<worldVars, versions, krxJob, collector, calFaults>>

FailKis(p) ==
  /\ confirmer[p].step # "idle" /\ calFaults < MaxCalFaults
  /\ calFaults' = calFaults + 1
  /\ kisJob' \in {kisJob, [kisJob EXCEPT ![confirmer[p].key] = Ended(@, p, "failed")]}
  /\ confirmer' = [confirmer EXCEPT ![p] = AtEase]
  /\ UNCHANGED <<worldVars, versions, krxJob, collector>>

CollectorStep(c) ==
  ClaimKrx(c) \/ Fetch(c) \/ SaveKrx(c) \/ SaveKrxRefused(c) \/ ReportKrx(c) \/ FailKrx(c)

ConfirmerStep(p) == ClaimKis(p) \/ LookUp(p) \/ Ask(p) \/ SaveKis(p) \/ ReportKis(p) \/ FailKis(p)

CalNext ==
  \/ Tick \/ News
  \/ \E c \in CalCollectors : CollectorStep(c)
  \/ \E p \in CalConfirmers : ConfirmerStep(p)

CalSpec == CalInit /\ [][CalNext]_calVars

-----------------------------------------------------------------------------
\* What the verification alone decides.
VerificationDecision(row) ==
  IF row.state \in {"pending", "conflict"} THEN row.state
  ELSE IF row.confirmed # TradingDay THEN "stale" ELSE "none"

\* calendar_schedule_decision within the regular hours of the trading day.
ScheduleDecision ==
  IF versions = <<>> THEN "missing"
  ELSE IF VerificationDecision(Newest) # "none" THEN VerificationDecision(Newest)
  ELSE IF Newest.facts = "closed" THEN "closed"
  ELSE "allowed"

CalTypeOK ==
  /\ calClock \in Ticks /\ brokerSays \in {"open", "closed"} /\ news \in 0..MaxNews /\ calFaults \in 0..MaxCalFaults
  /\ published \in [annual : {"open", "closed"}, notice : BOOLEAN]
  /\ versions \in Seq(Version)
  /\ krxJob \in [Dates -> Claim(CalCollectors)]
  /\ kisJob \in Seq(Claim(CalConfirmers)) /\ Len(kisJob) = Len(versions)

\* docs/data/market-calendar-data-contract.md, versions: each version begins
\* where the one before was superseded, later than that one began, and says
\* something else; the last one alone is current.  So it is although an older
\* observation may be saved after a newer one.
HistoryIsChained ==
  \A v \in DOMAIN versions :
    IF v = Len(versions) THEN versions[v].superseded = NoTick
    ELSE /\ versions[v].superseded = versions[v + 1].from
         /\ versions[v].from < versions[v + 1].from
         /\ versions[v].facts # versions[v + 1].facts

\* What lets things run is borne out by both sources: the current row was
\* verified on the trading day with an answer of the broker that says the same
\* of the day as its facts, although the row may be another than the one the
\* broker was asked about.
AllowedIsBorneOut ==
  /\ ScheduleDecision = "allowed" => Newest.word = "open" /\ Newest.facts # "closed"
  /\ ScheduleDecision = "closed" => Newest.word = "closed"

\* docs/data/market-calendar-data-contract.md:107: no later collection lowers a
\* confirmation or a conflict to pending, however saves and confirmations cross.
VerdictsStay ==
  \A v \in DOMAIN versions :
    versions[v].state # "pending" => /\ versions'[v].state # "pending"
                                     /\ versions'[v].facts = versions[v].facts

\* docs/decisions/0006: a correction during the day is confirmed anew.  While
\* the current version is pending its job is not finished, so that the next
\* message can take it up.
PendingCanBeAsked ==
  versions # <<>> /\ Newest.state = "pending" => kisJob[JobKey].state \notin {"succeeded", "conflict"}

\* What the versions of a trading day promise, together.
CalendarContract ==
  [][/\ HistoryIsChained' /\ AllowedIsBorneOut' /\ PendingCanBeAsked'
     /\ VerdictsStay]_calVars
=============================================================================
