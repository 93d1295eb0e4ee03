-------------------------------- MODULE Training --------------------------------
(*************************************************************************)
(* Training of a model on the collected bars and a backtest that applies *)
(* it (application/ml/training.py, application/backtests/ml_signals.py): *)
(* walk-forward folds with an embargo, labels that look a horizon ahead, *)
(* bars read symbol by symbol while the collection may correct them, and *)
(* the hash that says which versions were used.                          *)
(* The fitted coefficients are left out: a model is what it was trained  *)
(* on.                                                                   *)
(*************************************************************************)
EXTENDS Integers, Sequences, FiniteSetsExt, SequencesExt

CONSTANTS
  Learnt,           \* the universe, a sequence of symbols
  Benchmark,
  CalendarDays,     \* trading days are 1 .. CalendarDays
  Gaps,             \* sets of [symbol, day] without a confirmed bar
  Warmup,           \* bars before a day that its features need
  MinTrainDays, ValidDays, MinSamples,
  Horizons, Embargoes,
  Windows,          \* windows of a backtest: [first, last, signals]
  CorrectedDays, MaxBarCorrections  \* bounds

\* walk_forward_folds refuses a training, a validation and a horizon without a day.
ASSUME TrainingAssumption ==
  /\ Learnt \in Seq(ToSet(Learnt)) /\ Learnt # <<>>
  /\ {CalendarDays, Warmup, MinSamples, MaxBarCorrections} \subseteq Nat
  /\ {MinTrainDays, ValidDays} \subseteq Nat \ {0}
  /\ Horizons \subseteq Nat \ {0} /\ Embargoes \subseteq Nat
  /\ CorrectedDays \subseteq 1 .. CalendarDays
  /\ Windows \subseteq [first : Nat \ {0}, last : 0 .. CalendarDays, signals : SUBSET (1 .. CalendarDays)]

VARIABLES
  version,          \* [symbol -> [day -> version of its confirmed bar, 0 without]]
  asked,            \* the request: [horizon, embargo]
  step,             \* what the trainer does next
  turn,             \* the symbol it works on
  dates,            \* its calendar: the days with a benchmark bar
  features, labels, \* per symbol, the days that have a row
  hashed,           \* what bar_version_hash will cover: {<<symbol, day, version>>}
  used,             \* history: the same of what features and labels were made from
  model,            \* the stored row with its evaluations
  applied,          \* the backtest: [stage, window, hash, used, outcome]
  revisedBars

trVars == <<version, asked, step, turn, dates, features, labels, hashed, used, model, applied, revisedBars>>

TradingDays == 1 .. CalendarDays
LearntSymbols == ToSet(Learnt)
Priced == LearntSymbols \cup {Benchmark}
NoModel == [present |-> FALSE]
NotApplied == [stage |-> "idle", window |-> [first |-> 1, last |-> 1, signals |-> {}],
               hash |-> {}, used |-> {}, known |-> {}, outcome |-> "none"]

TrInit ==
  /\ \E gaps \in Gaps : version = [s \in Priced |-> [d \in TradingDays |-> IF [symbol |-> s, day |-> d] \in gaps THEN 0 ELSE 1]]
  /\ asked \in [horizon : Horizons, embargo : Embargoes]
  /\ step = "calendar" /\ turn = 1 /\ dates = <<>>
  /\ features = [s \in LearntSymbols |-> {}] /\ labels = [s \in LearntSymbols |-> {}]
  /\ hashed = {} /\ used = {} /\ model = NoModel /\ applied = NotApplied /\ revisedBars = 0

\* The collection supersedes a confirmed bar by a corrected one, between any two reads.
CorrectPrice(s, d) ==
  /\ revisedBars < MaxBarCorrections /\ version[s][d] > 0
  /\ step # "done" \/ applied.stage # "over"
  /\ version' = [version EXCEPT ![s][d] = @ + 1]
  /\ revisedBars' = revisedBars + 1
  /\ UNCHANGED <<asked, step, turn, dates, features, labels, hashed, used, model, applied>>

BarsOf(s, days) == {<<s, d, version[s][d]>> : d \in {x \in days : version[s][x] > 0}}
DaysOf(bars) == {bar[2] : bar \in bars}

-----------------------------------------------------------------------------
\* splits.py: the training begins with the first day and its end advances by the length
\* of a validation.

\* Mutation: the embargo is measured by the default horizon whatever is asked for.
EmbargoOfDefault(embargo, horizon) == embargo >= 1
EmbargoCovers(embargo, horizon) == embargo >= horizon

Fold(calendar, k, embargo) ==
  LET trainEnd == MinTrainDays + (k - 1) * ValidDays
  IN  [trainEnd |-> trainEnd, validStart |-> trainEnd + embargo + 1, validEnd |-> trainEnd + embargo + ValidDays]
FoldsFit(calendar, embargo) == {k \in 1 .. CalendarDays : Fold(calendar, k, embargo).validEnd <= Len(calendar)}

\* ORDER BY of the benchmark's bars.
DaysInOrder(days) ==
  LET upTo[d \in 0 .. CalendarDays] ==
        IF d = 0 THEN <<>> ELSE IF d \in days THEN Append(upTo[d - 1], d) ELSE upTo[d - 1]
  IN  upTo[CalendarDays]

\* The trading days of the training are those with a benchmark bar.
LoadCalendar ==
  /\ step = "calendar"
  /\ dates' = DaysInOrder({d \in TradingDays : version[Benchmark][d] > 0})
  /\ hashed' = BarsOf(Benchmark, TradingDays)
  /\ used' = hashed'
  /\ step' = IF EmbargoCovers(asked.embargo, asked.horizon) THEN "features" ELSE "refused"
  /\ UNCHANGED <<version, asked, turn, features, labels, model, applied, revisedBars>>

-----------------------------------------------------------------------------
\* ml_dataset_reader.py, symbol by symbol.

\* Days with a bar of the symbol and enough bars before; nothing later than the day counts.
FeatureDays(days) == {d \in days : Cardinality({x \in days : x < d}) >= Warmup}

ReadFeatures ==
  /\ step = "features"
  /\ LET s == Learnt[turn]
         bars == BarsOf(s, TradingDays)
         shared == {bar \in bars : bar[2] \in ToSet(dates)}
     IN  /\ features' = [features EXCEPT ![s] = FeatureDays(DaysOf(shared))]
         /\ hashed' = hashed \cup bars
         /\ used' = used \cup shared
  /\ step' = "targets"
  /\ UNCHANGED <<version, asked, turn, dates, labels, model, applied, revisedBars>>

\* The day a label looks at, by the days of the benchmark.
HasLabel(i, days) == i + asked.horizon <= Len(dates) /\ {dates[i], dates[i + asked.horizon]} \subseteq days
PositionOf(d) == CHOOSE i \in DOMAIN dates : dates[i] = d

\* The bars are read again, and this reading is not noted for the hash.
ReadTargets ==
  /\ step = "targets"
  /\ LET s == Learnt[turn]
         bars == BarsOf(s, TradingDays)
         signals == {dates[i] : i \in {j \in DOMAIN dates : HasLabel(j, DaysOf(bars))}}
         looked == signals \cup {dates[PositionOf(d) + asked.horizon] : d \in signals}
     IN  /\ labels' = [labels EXCEPT ![s] = signals]
         /\ used' = used \cup {bar \in bars : bar[2] \in looked}
  /\ IF turn < Len(Learnt) THEN turn' = turn + 1 /\ step' = "features" ELSE turn' = 1 /\ step' = "fit"
  /\ UNCHANGED <<version, asked, dates, features, hashed, model, applied, revisedBars>>

-----------------------------------------------------------------------------
\* training.py

\* A day on which less than two symbols have a label has no ranks.
Samples ==
  {sample \in LearntSymbols \X ToSet(dates) :
     /\ sample[2] \in labels[sample[1]] \cap features[sample[1]]
     /\ Cardinality({s \in LearntSymbols : sample[2] \in labels[s]}) >= 2}
SamplesUpTo(i) == {sample \in Samples : PositionOf(sample[2]) <= i}
LastLookedAt(samples) == Max({0} \cup {dates[PositionOf(sample[2]) + asked.horizon] : sample \in samples})

Validated(fold) ==
  /\ Cardinality(SamplesUpTo(fold.trainEnd)) >= MinSamples
  /\ \E sample \in Samples : PositionOf(sample[2]) \in fold.validStart .. fold.validEnd
Evaluations ==
  {[labelsReach |-> LastLookedAt(SamplesUpTo(fold.trainEnd)), validStart |-> dates[fold.validStart]] :
     fold \in {f \in {Fold(dates, k, asked.embargo) : k \in FoldsFit(dates, asked.embargo)} : Validated(f)}}

\* The first day after the embargo, by the days of the training.
OutOfSampleStart(trainEnd) ==
  IF trainEnd + asked.embargo + 1 <= Len(dates) THEN dates[trainEnd + asked.embargo + 1] ELSE 0

\* Everything or nothing is stored; rows of models trained before the column existed have
\* no start.
FitAndSave ==
  /\ step = "fit"
  /\ LET fits == FoldsFit(dates, asked.embargo)
         final == Fold(dates, Max(fits), asked.embargo)
         training == SamplesUpTo(final.trainEnd)
     IN  IF fits = {} \/ Cardinality(training) < MinSamples
         THEN step' = "refused" /\ UNCHANGED model
         ELSE /\ step' = "done"
              /\ \E start \in {OutOfSampleStart(final.trainEnd), 0} :
                   model' = [present |-> TRUE, trainEnd |-> dates[final.trainEnd], embargo |-> asked.embargo,
                             start |-> start, hash |-> hashed, evaluations |-> Evaluations,
                             labelsReach |-> LastLookedAt(training), used |-> used]
  /\ UNCHANGED <<version, asked, turn, dates, features, labels, hashed, used, applied, revisedBars>>

-----------------------------------------------------------------------------
\* worker/backtests.py run_ml_rank_backtest: the features are made before the runner reads
\* the bars that its hash covers.

ReadModel(window) ==
  /\ step = "done" /\ applied.stage = "idle"
  /\ applied' = [applied EXCEPT !.stage = "features", !.window = window]
  /\ UNCHANGED <<version, asked, step, turn, dates, features, labels, hashed, used, model, revisedBars>>

ApplyFeatures ==
  /\ applied.stage = "features"
  /\ LET days == 1 .. applied.window.last
         dated == DaysOf(BarsOf(Benchmark, days))
         shared(s) == {bar \in BarsOf(s, days) : bar[2] \in dated}
     IN  applied' = [applied EXCEPT
           !.stage = "load",
           !.used = BarsOf(Benchmark, days) \cup UNION {shared(s) : s \in LearntSymbols},
           !.known = {row \in LearntSymbols \X days : row[2] \in FeatureDays(DaysOf(shared(row[1])))}]
  /\ UNCHANGED <<version, asked, step, turn, dates, features, labels, hashed, used, model, revisedBars>>

\* ml_signals.py _boundary: the stored start, or counted in the window's own calendar, in
\* which no trading day is missing.
WindowDays == applied.window.first .. applied.window.last
Boundary ==
  IF model.start # 0 THEN model.start
  ELSE IF model.trainEnd \in WindowDays /\ model.trainEnd + model.embargo + 1 \in WindowDays
  THEN model.trainEnd + model.embargo + 1
  ELSE 0
Overlaps == Boundary = 0 \/ Min(applied.window.signals) < Boundary

Predicted == {d \in applied.window.signals : \E s \in LearntSymbols : version[s][d] > 0 /\ <<s, d>> \in applied.known}

RunBacktest ==
  /\ applied.stage = "load"
  /\ applied' = [applied EXCEPT
       !.stage = "over",
       !.hash = UNION {BarsOf(s, WindowDays) : s \in LearntSymbols},
       !.outcome = IF Overlaps THEN "train_window_overlap"
                   ELSE IF Predicted = {} THEN "no_signal_candidate" ELSE "completed"]
  /\ UNCHANGED <<version, asked, step, turn, dates, features, labels, hashed, used, model, revisedBars>>

TrNext ==
  \/ \E s \in Priced, d \in CorrectedDays : CorrectPrice(s, d)
  \/ LoadCalendar \/ ReadFeatures \/ ReadTargets \/ FitAndSave
  \/ \E window \in Windows : ReadModel(window)
  \/ ApplyFeatures \/ RunBacktest

TrSpec == TrInit /\ [][TrNext]_trVars

-----------------------------------------------------------------------------
\* Every variable has the type of what it stands for.
TrTypeOK ==
  /\ \A s \in Priced : version[s] \in [TradingDays -> 0 .. 1 + MaxBarCorrections]
  /\ step \in {"calendar", "features", "targets", "fit", "done", "refused"}
  /\ turn \in DOMAIN Learnt /\ ToSet(dates) \subseteq TradingDays
  /\ \A s \in LearntSymbols : features[s] \cup labels[s] \subseteq ToSet(dates)
  /\ hashed \cup used \subseteq Priced \X TradingDays \X (1 .. 1 + MaxBarCorrections)
  /\ applied.stage \in {"idle", "features", "load", "over"}
  /\ revisedBars \in 0 .. MaxBarCorrections

\* No label that a fold was trained with looks at a day of its validation
\* (ml-signal-contract.md, walk-forward).
NoLabelReachesValidation ==
  model.present => \A e \in model.evaluations : e.labelsReach < e.validStart

BenchmarkIsWhole == Len(dates) = CalendarDays

\* A backtest that is accepted gives no signal on a day that a label of the training has
\* seen - unless the row has no start and the benchmark lacked a bar, because the labels
\* then reach further than the embargo counted in the calendar of the window.
NoSignalWasLearnt ==
  applied.outcome = "completed" /\ (model.start # 0 \/ BenchmarkIsWhole) =>
    \A d \in applied.window.signals : d > model.labelsReach

\* The hash of the model covers every bar it was made from, in the version used or in one
\* that a correction superseded between the two readings of the symbol; the hash of the
\* run, which is read later, covers the window's bars behind the predictions in the
\* version used or in a later one.
HashesNameTheirInputs ==
  LET covered(bar, hash, earlier, later) ==
        \E h \in hash : h[1] = bar[1] /\ h[2] = bar[2] /\ h[3] >= bar[3] - earlier /\ h[3] <= bar[3] + later
  IN  /\ model.present => \A bar \in model.used : covered(bar, model.hash, revisedBars, 0)
      /\ applied.outcome = "completed" =>
           \A bar \in applied.used : bar[1] # Benchmark /\ bar[2] \in WindowDays => covered(bar, applied.hash, 0, revisedBars)

\* The parts above, in every state reached.
TrainingContract ==
  [][NoLabelReachesValidation' /\ NoSignalWasLearnt' /\ HashesNameTheirInputs']_trVars
===============================================================================
