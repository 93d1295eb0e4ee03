---------------------------- MODULE AdjustedPrices ----------------------------
(*************************************************************************)
(* The adjusted prices of one instrument for one request (method, range  *)
(* and cutoffs): builds read the confirmed bars, then the actions known  *)
(* at the cutoff, plan the factors and publish a dataset, while bars and *)
(* actions are corrected and other builds run                            *)
(* (src/docs/data/corporate-action-adjusted-price-data-contract.md).     *)
(* Prices and factors are exact fractions: the rounding at 8 and 16      *)
(* digits, opening, high and low prices and the volume are left out.     *)
(*************************************************************************)
EXTENDS Integers, Sequences, FiniteSetsExt, SequencesExt

CONSTANTS
  Builders,         \* processes that reading
  Cutoff,           \* the range is 1 .. Cutoff, and every day is open
  Closes,           \* closing prices that a bar may have
  KnownActions,     \* versions of each action: [type, state, ex, record, num, den]
  MaxCorrections,   \* bound: corrections of bars and actions
  MaxBuilds         \* bound: builds

VARIABLES
  method,
  bars,             \* the current version of each day's bar
  actions,          \* the facts of each action known at the cutoff, and their version
  reading,            \* what each process has read
  datasets,         \* market.adjustment_dataset in the order of insertion
  corrections, builds,
  upToDate          \* history: nothing has changed since the last reading began, alone

priceVars == <<method, bars, actions, reading, datasets, corrections, builds, upToDate>>

PriceRange == 1 .. Cutoff
DateUnknown == 0
NotAnnounced == [type |-> "none", state |-> "cancelled", ex |-> DateUnknown, record |-> DateUnknown, num |-> 1, den |-> 1]
NoBuild == [at |-> "idle", bars |-> <<>>, actions |-> <<>>, replaces |-> {}]

\* The bars of a share worth the highest price, confirmed but for the last one.
PricesInit ==
  /\ method \in {"split_adjusted", "total_return"}
  /\ bars = [d \in PriceRange |-> [close |-> Max(Closes), version |-> 1, confirmed |-> d < Cutoff]]
  /\ actions = [k \in DOMAIN KnownActions |-> [fact |-> NotAnnounced, version |-> 0]]
  /\ reading = [p \in Builders |-> NoBuild]
  /\ datasets = <<>> /\ corrections = 0 /\ builds = 0 /\ upToDate = FALSE

-----------------------------------------------------------------------------
\* The store's other writers: FactVersions and CorporateActions tell how.

Corrected ==
  /\ corrections < MaxCorrections /\ corrections' = corrections + 1
  /\ upToDate' = FALSE
  /\ UNCHANGED <<method, reading, datasets, builds>>

CorrectBar(d) ==
  /\ \E close \in Closes \ {bars[d].close} :
       bars' = [bars EXCEPT ![d] = [close |-> close, version |-> @.version + 1, confirmed |-> FALSE]]
  /\ Corrected /\ UNCHANGED actions

ConfirmBars ==
  /\ \E d \in PriceRange : ~ bars[d].confirmed
  /\ bars' = [d \in PriceRange |-> [bars[d] EXCEPT !.confirmed = TRUE]]
  /\ upToDate' = FALSE
  /\ UNCHANGED <<method, actions, reading, datasets, corrections, builds>>

LearnAction(k) ==
  /\ \E a \in KnownActions[k] \ {actions[k].fact} :
       actions' = [actions EXCEPT ![k] = [fact |-> a, version |-> @.version + 1]]
  /\ Corrected /\ UNCHANGED bars

-----------------------------------------------------------------------------
\* build_adjustment_plan.

BestKnown(a) == IF a.ex # DateUnknown THEN a.ex ELSE a.record
\* What happens on the first day of the range is in its price already.
InRange(day) == 1 < day /\ day <= Cutoff

JudgedActions(known) == {k \in DOMAIN known : known[k].state # "cancelled" /\ InRange(BestKnown(known[k]))}

HasConditions(a) ==
  /\ a.state = "ok" /\ a.type \in {"cash", "split", "reverse"} /\ a.ex # DateUnknown
  /\ a.type = "cash" => a.num > 0
  /\ a.type = "split" => a.num > a.den
  /\ a.type = "reverse" => 0 < a.num /\ a.num < a.den

IsCash(a) == a.type = "cash"
AppliedActions(known) == {k \in JudgedActions(known) : IsCash(known[k]) => method = "total_return"}

\* The close before the event that its cash is measured by.
PriorClose(prices, event) == prices[event - 1].close
CashFits(prices, a) == PriorClose(prices, a.ex) * a.den > a.num

\* All that makes the plan refuse: bars and actions that lack something, then cash that
\* is no less than the price it is paid out of or is paid on the day of a split.
Lacking(prices, known) ==
  \/ \E d \in PriceRange : ~ prices[d].confirmed
  \/ \E k \in JudgedActions(known) : ~ HasConditions(known[k])

PlanRefused(prices, known) ==
  IF Lacking(prices, known) THEN TRUE
  ELSE \E k \in {j \in AppliedActions(known) : IsCash(known[j])} :
         \/ ~ CashFits(prices, known[k])
         \/ \E j \in JudgedActions(known) : ~ IsCash(known[j]) /\ known[j].ex = known[k].ex

\* Fractions.
Times(x, y) == [n |-> x.n * y.n, d |-> x.d * y.d]
Equal(x, y) == x.n * y.d = y.n * x.d

\* The factor of an event for the prices before it.
PriceFactor(prices, a) ==
  IF IsCash(a)
  THEN LET p == PriorClose(prices, a.ex) IN [n |-> p * a.den - a.num, d |-> p * a.den]
  ELSE [n |-> a.den, d |-> a.num]

\* Mutation: the price of the event's own day is taken for one from before it.
AdjustsItsDay(a, day) == a.ex >= day
Adjusts(a, day) == a.ex > day

AdjustedClose(prices, known, day) ==
  LET events == {k \in AppliedActions(known) : Adjusts(known[k], day)}
  IN  FoldSet(LAMBDA k, x : Times(x, PriceFactor(prices, known[k])), [n |-> prices[day].close, d |-> 1], events)

AdjustedBars(prices, known) == [d \in PriceRange |-> AdjustedClose(prices, known, d)]

-----------------------------------------------------------------------------
\* build_dataset.

BuildBecomes(p, b) == reading' = [reading EXCEPT ![p] = b]

ReadBars(p) ==
  /\ reading[p].at = "idle" /\ builds < MaxBuilds
  /\ builds' = builds + 1
  /\ BuildBecomes(p, [NoBuild EXCEPT !.at = "actions", !.bars = bars])
  /\ upToDate' = \A q \in Builders \ {p} : reading[q].at = "idle"
  /\ UNCHANGED <<method, bars, actions, datasets, corrections>>

ReadActions(p) ==
  /\ reading[p].at = "actions"
  /\ BuildBecomes(p, [reading[p] EXCEPT !.at = "plan", !.actions = actions])
  /\ UNCHANGED <<method, bars, actions, datasets, corrections, builds, upToDate>>

FactsOf(known) == [k \in DOMAIN known |-> known[k].fact]

\* What the two hashes of the inputs tell apart.
InputsOf(b) ==
  [bars |-> [d \in PriceRange |-> b.bars[d].version],
   actions |-> {<<k, b.actions[k].version>> : k \in AppliedActions(FactsOf(b.actions))}]

PlanRefusedFor(b) == PlanRefused(b.bars, FactsOf(b.actions))

\* A plan that refuses leaves a row of its own and what is published.
RecordFailure(p) ==
  /\ reading[p].at = "plan" /\ PlanRefusedFor(reading[p])
  /\ datasets' = Append(datasets, [status |-> "failed", inputs |-> InputsOf(reading[p]),
                                   bars |-> reading[p].bars, facts |-> FactsOf(reading[p].actions), closes |-> <<>>])
  /\ BuildBecomes(p, NoBuild)
  /\ upToDate' = FALSE
  /\ UNCHANGED <<method, bars, actions, corrections, builds>>

Published == {i \in DOMAIN datasets : datasets[i].status = "published"}
OfInputs(inputs) == {i \in Published : datasets[i].inputs = inputs}

\* The same inputs again: the dataset that is published is returned.
ReturnExisting(p) ==
  /\ reading[p].at = "plan" /\ ~ PlanRefusedFor(reading[p])
  /\ OfInputs(InputsOf(reading[p])) # {}
  /\ BuildBecomes(p, NoBuild)
  /\ UNCHANGED <<method, bars, actions, datasets, corrections, builds, upToDate>>

\* The transaction supersedes what it finds published and inserts; another one that
\* has not committed yet is not seen.
Supersede(p) ==
  /\ reading[p].at = "plan" /\ ~ PlanRefusedFor(reading[p])
  /\ OfInputs(InputsOf(reading[p])) = {}
  /\ BuildBecomes(p, [reading[p] EXCEPT !.at = "publish", !.replaces = Published])
  /\ UNCHANGED <<method, bars, actions, datasets, corrections, builds, upToDate>>

SupersedeRows(rows) ==
  [i \in DOMAIN datasets |-> IF i \in rows THEN [datasets[i] EXCEPT !.status = "superseded"] ELSE datasets[i]]

\* Two builds of the same inputs meet at the unique index, and the later one fails.
PublishDataset(p) ==
  /\ reading[p].at = "publish"
  /\ LET b == reading[p]
         inputs == InputsOf(b)
     IN  datasets' =
           IF OfInputs(inputs) # {} THEN datasets
           ELSE Append(SupersedeRows(b.replaces),
                       [status |-> "published", inputs |-> inputs, bars |-> b.bars,
                        facts |-> FactsOf(b.actions), closes |-> AdjustedBars(b.bars, FactsOf(b.actions))])
  /\ BuildBecomes(p, NoBuild)
  /\ UNCHANGED <<method, bars, actions, corrections, builds, upToDate>>

PricesNext ==
  \/ \E d \in PriceRange : CorrectBar(d)
  \/ ConfirmBars
  \/ \E k \in DOMAIN actions : LearnAction(k)
  \/ \E p \in Builders :
       ReadBars(p) \/ ReadActions(p) \/ RecordFailure(p) \/ ReturnExisting(p) \/ Supersede(p) \/ PublishDataset(p)

PricesSpec == PricesInit /\ [][PricesNext]_priceVars

-----------------------------------------------------------------------------
\* Types of the inputs, the builds and the datasets.
PricesTypeOK ==
  /\ bars \in [PriceRange -> [close : Closes, version : Nat \ {0}, confirmed : BOOLEAN]]
  /\ \A k \in DOMAIN actions : actions[k].fact \in KnownActions[k] \cup {NotAnnounced} /\ actions[k].version \in 0 .. MaxCorrections
  /\ \A p \in Builders : reading[p].at \in {"idle", "actions", "plan", "publish"} /\ reading[p].replaces \subseteq DOMAIN datasets
  /\ \A i \in DOMAIN datasets : datasets[i].status \in {"published", "superseded", "failed"}
  /\ corrections \in 0 .. MaxCorrections /\ builds \in 0 .. MaxBuilds /\ upToDate \in BOOLEAN

\* Somebody who holds a share from the first day on and buys more for the cash of each
\* event, at the price of the eve without that cash.
Gain(prices, a) ==
  IF ~ IsCash(a) THEN [n |-> a.num, d |-> a.den]
  ELSE LET p == prices[a.ex - 1].close IN [n |-> p * a.den, d |-> p * a.den - a.num]

SharesHeld(prices, known) ==
  LET earned(day) == {k \in DOMAIN known : /\ known[k].state = "ok" /\ known[k].ex = day
                                           /\ IsCash(known[k]) => method = "total_return"}
      on[day \in PriceRange] ==
        IF day = 1 THEN [n |-> 1, d |-> 1]
        ELSE IF earned(day) = {} THEN on[day - 1]
        ELSE Times(on[day - 1], Gain(prices, known[CHOOSE k \in earned(day) : TRUE]))
  IN  on

Wealth(prices, known, day) == Times([n |-> prices[day].close, d |-> 1], SharesHeld(prices, known)[day])

\* A published series grows from any day to any other as the wealth of that holder does,
\* and ends at the price that was paid.  (An action has an effect on one day; cash of
\* two actions on one day would be compounded and is left out.)
SeriesIsWealth ==
  \A i \in DOMAIN datasets : datasets[i].status # "failed" =>
    LET s == datasets[i] IN
    /\ Equal(s.closes[Cutoff], [n |-> s.bars[Cutoff].close, d |-> 1])
    /\ \A d \in 1 .. Cutoff - 1 :
         Equal(Times(s.closes[d], Wealth(s.bars, s.facts, d + 1)), Times(s.closes[d + 1], Wealth(s.bars, s.facts, d)))

\* No event between the first day and the last is passed over: a dividend that is not
\* confirmed makes the plan refuse, unless its record date lies after the cutoff.
NothingLeftOut ==
  \A i \in DOMAIN datasets : datasets[i].status # "failed" =>
    \A k \in DOMAIN datasets[i].facts :
      LET a == datasets[i].facts[k]
          day == IF a.ex = DateUnknown THEN a.record - 1 ELSE a.ex
      IN  (/\ a.state # "cancelled" /\ InRange(day)
           /\ IsCash(a) => method = "total_return"
           /\ a.ex = DateUnknown => a.record <= Cutoff)
          => k \in {x[1] : x \in datasets[i].inputs.actions}

\* After a reading that ran alone, and while nothing is corrected, one dataset is published
\* and it is that of the current facts.
PublishedIsCurrent ==
  upToDate /\ (\A p \in Builders : reading[p].at = "idle") =>
    \E i \in Published : Published = {i} /\ datasets[i].inputs = InputsOf([bars |-> bars, actions |-> actions])

\* A dataset is for good: it may be superseded, and nothing else of it changes.
DatasetsAreFrozen ==
  \A i \in DOMAIN datasets :
    /\ i \in DOMAIN datasets'
    /\ \/ datasets'[i] = datasets[i]
       \/ datasets[i].status = "published" /\ datasets'[i] = [datasets[i] EXCEPT !.status = "superseded"]

\* What the adjusted prices promise, together.
PricesContract ==
  [][SeriesIsWealth' /\ NothingLeftOut' /\ PublishedIsCurrent' /\ DatasetsAreFrozen]_priceVars
===============================================================================
