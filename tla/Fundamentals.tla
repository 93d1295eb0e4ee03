------------------------------ MODULE Fundamentals ------------------------------
(*************************************************************************)
(* Financial indicators and valuation of one company                     *)
(* (domain/fundamentals/indicators.py, valuation.py,                     *)
(* application/financial_indicators.py): accounts found in statements of *)
(* many shapes or restored from others, and an answer put together from  *)
(* separate readings of reports, share classes and quotes while they are *)
(* collected.                                                            *)
(* An amount that may be absent is a set of at most one number.          *)
(*************************************************************************)
EXTENDS Integers, Sequences, FiniteSetsExt, SequencesExt

CONSTANTS
  Filings,          \* what may be filed: [name -> [year, receipt, lines, eps, needsPreferred]]
  TrueAmounts,      \* [item -> [now, prior]], what well kept books would say
  Observations,     \* what a quotation may say of a class: [price, shares]
  MaxFiled, MaxObserved, MaxListingChanges  \* bounds

VARIABLES
  financial,        \* whether the issuer is of the financial sector
  reports,          \* current reports: {[name, listed]}, listed the classes at its time
  classes,          \* share_class: the classes known, {} before the first collection
  listed,           \* the classes listed in truth
  masterListed,     \* history: listed as of the last collection of the master
  market,           \* [class -> [price, shares]], what is stored of it
  stage, seen,      \* the request and what it has read
  answer,           \* the valuation given, {} before
  changes           \* events so far: [filed, observed, listing]

fuVars == <<financial, reports, classes, listed, masterListed, market, stage, seen, answer, changes>>

Common == "common"
Preferred == "preferred"
ShareClasses == {Common, Preferred}
Unquoted == [price |-> {}, shares |-> {}]

-----------------------------------------------------------------------------
\* indicators.py: accounts and the lines that name them.

OperatingAccounts == {"revenue", "operating"}
BalanceAccounts == {"assets", "liabilities", "equity", "equityOwners", "minority", "currentAssets", "currentLiabilities"}
Divisions(item) == IF item \in BalanceAccounts THEN <<"BS">> ELSE <<"IS", "CIS">>
Prefix(item) == IF item = "operating" THEN "dart_" ELSE "ifrs-full_"

\* Reports up to 2018 carry the former prefix.
NormalizedPrefix(prefix) == IF prefix = "ifrs_" THEN "ifrs-full_" ELSE prefix
Tagged(line, item) == line.item = item /\ NormalizedPrefix(line.prefix) = Prefix(item)
Untagged(line) == line.prefix = "none"
Hits(line, hints) == line.hints \cap hints # {}

\* The lines of the first division that has the account; the others are not looked at.
MatchingLines(lines, item) ==
  LET of(d) == {line \in lines : line.div = d /\ Tagged(line, item)}
      having == SelectSeq(Divisions(item), LAMBDA d : of(d) # {})
  IN  IF having = <<>> THEN {} ELSE of(having[1])

Only(S) == CHOOSE x \in S : TRUE

SingleStandardAmount(lines, item, period) ==
  LET matches == MatchingLines(lines, item)
  IN  IF Cardinality(matches) = 1 THEN Only(matches)[period] ELSE {}
UsedDivision(lines, item) ==
  LET matches == MatchingLines(lines, item)
  IN  IF matches = {} THEN Divisions(item)[1] ELSE Only(matches).div

\* Owners' equity as the difference of two standard accounts.
ByDifference(lines, period) ==
  {whole - minor : whole \in SingleStandardAmount(lines, "equity", period),
                  minor \in SingleStandardAmount(lines, "minority", period)}

\* Owners' profit as the only amount of an untagged row of that name which makes the total
\* with some row of the others.
ByIdentity(lines, period) ==
  LET rows == {line \in lines : line.div = UsedDivision(lines, "profit")}
      candidates == UNION {line[period] : line \in {r \in rows : Untagged(r) /\ "owners" \in r.hints /\ ~Hits(r, {"minority"})}}
      complements == UNION {line[period] : line \in {r \in rows : Hits(r, {"minority"})}}
      satisfied == {a \in candidates : \E total \in SingleStandardAmount(lines, "profit", period), c \in complements : a + c = total}
  IN  IF Cardinality(satisfied) = 1 THEN satisfied ELSE {}

Restored(lines, item, period) ==
  CASE item = "equityOwners" -> ByDifference(lines, period)
    [] item = "owners" -> ByIdentity(lines, period)
    [] OTHER -> {}

Resolve(lines, item, period) ==
  LET matches == MatchingLines(lines, item)
      amount == IF matches = {} THEN Restored(lines, item, period) ELSE Only(matches)[period]
  IN  [item |-> item,
       amount |-> IF Cardinality(matches) > 1 THEN {} ELSE amount,
       reason |-> IF Cardinality(matches) > 1 THEN "AMBIGUOUS_ACCOUNT"
                  ELSE IF amount # {} THEN "none"
                  ELSE IF matches = {} THEN "MISSING_ACCOUNT" ELSE "MISSING_AMOUNT"]

-----------------------------------------------------------------------------
\* indicators.py: values of an indicator, or the reason of the first input without one.

Sign(n) == IF n < 0 THEN -1 ELSE 1
Abs(n) == n * Sign(n)
\* Hundredths, a half rounded away from zero.
Hundredths(n, d) == Sign(n) * Sign(d) * ((200 * Abs(n) + Abs(d)) \div (2 * Abs(d)))
PercentOf(n, d) == Hundredths(100 * n, d)

Available(value) == [value |-> {value}, reason |-> "none"]
Unavailable(reason) == [value |-> {}, reason |-> reason]

FirstReason(inputs) ==
  LET failing == SelectSeq(inputs, LAMBDA input : input.reason # "none")
  IN  IF failing = <<>> THEN "none" ELSE failing[1].reason

\* Numerator and denominator are not looked at before every input is there.
IndicatorOf(inputs, numerator(_), denominator(_)) ==
  LET amounts == [i \in DOMAIN inputs |-> Only(inputs[i].amount)]
  IN  IF FirstReason(inputs) # "none" THEN Unavailable(FirstReason(inputs))
      ELSE IF denominator(amounts) = 0 THEN Unavailable("ZERO_DENOMINATOR")
      ELSE Available(PercentOf(numerator(amounts), denominator(amounts)))

Growth(lines, item) ==
  IndicatorOf(<<Resolve(lines, item, "now"), Resolve(lines, item, "prior")>>,
         LAMBDA a : a[1] - a[2], LAMBDA a : Abs(a[2]))
RatioOf(lines, numerator, denominator) ==
  IndicatorOf(<<Resolve(lines, numerator, "now"), Resolve(lines, denominator, "now")>>, LAMBDA a : a[1], LAMBDA a : a[2])
ReturnOnAverage(lines, numerator, base) ==
  IndicatorOf(<<Resolve(lines, numerator, "now"), Resolve(lines, base, "prior"), Resolve(lines, base, "now")>>,
         LAMBDA a : 2 * a[1], LAMBDA a : a[2] + a[3])

\* An issuer of the financial sector has no revenue: its failures say so.
Relabelled(financialIssuer, uses, indicator) ==
  IF financialIssuer /\ indicator.reason = "MISSING_ACCOUNT" /\ uses \cap OperatingAccounts # {}
  THEN Unavailable("SECTOR_ACCOUNT_BASIS")
  ELSE indicator

AnnualIndicators(lines, financialIssuer) ==
  [revenueGrowth   |-> Relabelled(financialIssuer, {"revenue"}, Growth(lines, "revenue")),
   operatingGrowth |-> Relabelled(financialIssuer, {"operating"}, Growth(lines, "operating")),
   profitGrowth    |-> Growth(lines, "profit"),
   operatingMargin |-> Relabelled(financialIssuer, {"operating", "revenue"}, RatioOf(lines, "operating", "revenue")),
   netMargin       |-> Relabelled(financialIssuer, {"profit", "revenue"}, RatioOf(lines, "profit", "revenue")),
   roe             |-> ReturnOnAverage(lines, "owners", "equityOwners"),
   roa             |-> ReturnOnAverage(lines, "profit", "assets"),
   debtRatio       |-> RatioOf(lines, "liabilities", "equity"),
   currentRatio    |-> RatioOf(lines, "currentAssets", "currentLiabilities")]

-----------------------------------------------------------------------------
\* valuation.py

\* A candidate of the name, if it is known that no preferred share is listed. The first
\* division with rows decides.
IsNamedEps(line) == Untagged(line) /\ "perShare" \in line.hints /\ ~Hits(line, {"preferred", "discontinued", "diluted"})
NamedEps(lines, preferredListed) ==
  LET rows(d) == {line \in lines : line.div = d}
      decisive == IF rows("IS") # {} THEN rows("IS") ELSE rows("CIS")
      candidates == {line \in decisive : IsNamedEps(line) /\ line.now # {}}
  IN  IF preferredListed = {FALSE} /\ Cardinality(candidates) = 1 THEN Only(candidates).now ELSE {}

OfOption(amount, reason) == IF amount = {} THEN Unavailable(reason) ELSE [value |-> amount, reason |-> "none"]

\* The total, or the continuing part with the discontinued one: a part without a row is
\* nothing, a row without an amount is unknown.
ResolveEps(lines, preferredListed) ==
  LET of(item) == Resolve(lines, item, "now")
      present(item) == MatchingLines(lines, item) # {}
  IN  CASE present("eps") -> OfOption(of("eps").amount, of("eps").reason)
        [] ~present("eps") /\ ~present("epsContinuing") -> OfOption(NamedEps(lines, preferredListed), "MISSING_ACCOUNT")
        [] OTHER ->
             IF of("epsContinuing").amount = {} \/ ~present("epsDiscontinued")
             THEN OfOption(of("epsContinuing").amount, of("epsContinuing").reason)
             ELSE OfOption({a + b : a \in of("epsContinuing").amount, b \in of("epsDiscontinued").amount}, of("epsDiscontinued").reason)

PriceEarnings(price, eps) ==
  IF price = {} THEN Unavailable("MISSING_QUOTE")
  ELSE IF eps.reason # "none" THEN Unavailable(eps.reason)
  ELSE IF eps.value = {0} THEN Unavailable("ZERO_DENOMINATOR")
  ELSE Available(Hundredths(Only(price), Only(eps.value)))

CapOf(quote) == {p * n : p \in quote.price, n \in quote.shares}
MarketCap(quote) ==
  IF quote.price = {} THEN Unavailable("MISSING_QUOTE") ELSE OfOption(CapOf(quote), "MISSING_SHARE_COUNT")

\* No total of some of the classes.
MarketCapTotal(quotes, preferredListed) ==
  IF preferredListed = {} \/ \E c \in DOMAIN quotes : CapOf(quotes[c]) = {}
  THEN Unavailable("MISSING_CLASS_QUOTE")
  ELSE Available(MapThenSumSet(LAMBDA c : Only(CapOf(quotes[c])), DOMAIN quotes))

BookPerShare(lines, shares, preferredListed) ==
  LET equity == Resolve(lines, "equityOwners", "now")
  IN  IF preferredListed = {} THEN Unavailable("MISSING_SHARE_COUNT")
      ELSE IF preferredListed = {TRUE} THEN Unavailable("PREFERRED_ALLOCATION_REQUIRED")
      ELSE IF shares = {} THEN Unavailable("MISSING_SHARE_COUNT")
      ELSE IF MatchingLines(lines, "equityOwners") = {} THEN Unavailable("MISSING_ACCOUNT")
      ELSE IF equity.amount = {} THEN Unavailable(equity.reason)
      ELSE IF shares = {0} THEN Unavailable("ZERO_DENOMINATOR")
      ELSE Available(Hundredths(Only(equity.amount), Only(shares)))

PriceToBook(price, bps) ==
  IF bps.reason # "none" THEN bps
  ELSE IF price = {} THEN Unavailable("MISSING_QUOTE")
  ELSE IF bps.value = {0} THEN Unavailable("ZERO_DENOMINATOR")
  ELSE Available(Hundredths(100 * Only(price), Only(bps.value)))

\* What is known of a preferred share: {} nothing, for no class at all is known.
\* Mutation: no known class is taken for no preferred share.
KnownPreferredAlways(known) == {Preferred \in known}
KnownPreferred(known) == IF known = {} THEN {} ELSE {Preferred \in known}

\* The items of the valuation from the lines, the classes and their quotes.
Valuation(lines, known, quotes) ==
  LET preferredListed == KnownPreferred(known)
      common == quotes[Common]
      eps == ResolveEps(lines, preferredListed)
      bps == BookPerShare(lines, common.shares, preferredListed)
  IN  [eps |-> eps, per |-> PriceEarnings(common.price, eps),
       cap |-> MarketCap(common), total |-> MarketCapTotal([c \in {Common} \cup known |-> quotes[c]], preferredListed),
       bps |-> bps, pbr |-> PriceToBook(common.price, bps)]

-----------------------------------------------------------------------------
\* What is collected meanwhile.

Latest(rs) == CHOOSE r \in rs : \A other \in rs : Filings[other.name].year <= Filings[r.name].year
NothingSeen == [years |-> {}, latest |-> {}, classes |-> {}, master |-> {}, queue |-> <<>>, torn |-> {},
                quotes |-> [c \in ShareClasses |-> Unquoted]]

FuInit ==
  /\ financial \in BOOLEAN
  /\ listed \in {{Common}, ShareClasses}
  /\ \E n \in DOMAIN Filings : reports = {[name |-> n, listed |-> listed]} /\ (Filings[n].needsPreferred => Preferred \in listed)
  /\ classes = {} /\ masterListed = {}
  /\ \E o \in Observations, counted \in BOOLEAN :
       LET stored == [price |-> {o.price}, shares |-> IF counted THEN {o.shares} ELSE {}]
       IN  market \in {[c \in ShareClasses |-> Unquoted], [c \in ShareClasses |-> stored]}
  /\ stage = "idle" /\ seen = NothingSeen /\ answer = {}
  /\ changes = [filed |-> 1, observed |-> 0, listing |-> 0]

\* What happens after its last reading is not seen by the request.
ReportsMatter == stage \in {"idle", "latest"}
ClassesMatter == stage \in {"idle", "latest", "classes"}

\* A report of another year, or a corrected one: a later receipt supersedes the current
\* row, the same one changes nothing and an earlier one is refused.
SaveReport(n) ==
  /\ changes.filed < MaxFiled /\ ReportsMatter
  /\ Filings[n].needsPreferred => Preferred \in listed
  /\ LET former == {r \in reports : Filings[r.name].year = Filings[n].year}
     IN  /\ \A r \in former : Filings[r.name].receipt < Filings[n].receipt
         /\ reports' = (reports \ former) \cup {[name |-> n, listed |-> listed]}
  /\ changes' = [changes EXCEPT !.filed = @ + 1]
  /\ UNCHANGED <<financial, classes, listed, masterListed, market, stage, seen, answer>>

ChangeListing ==
  /\ changes.listing < MaxListingChanges /\ ClassesMatter
  /\ listed' = IF Preferred \in listed THEN {Common} ELSE ShareClasses
  /\ changes' = [changes EXCEPT !.listing = @ + 1]
  /\ UNCHANGED <<financial, reports, classes, masterListed, market, stage, seen, answer>>

\* The rows of what is on the list are added or renewed; nothing ends the others.
CollectMaster ==
  /\ ClassesMatter /\ masterListed # listed
  /\ classes' = classes \cup listed
  /\ masterListed' = listed
  /\ UNCHANGED <<financial, reports, listed, market, stage, seen, answer, changes>>

\* Price and share count are saved together; the price may be of a time before counts were.
SaveQuote(c, o) ==
  /\ changes.observed < MaxObserved /\ stage # "answered"
  /\ c = Common \/ c \in classes
  /\ market' = [market EXCEPT ![c] = [price |-> {o.price}, shares |-> {o.shares}]]
  /\ seen' = IF stage = "count" /\ seen.queue[1] = c THEN [seen EXCEPT !.torn = @ \cup {c}] ELSE seen
  /\ changes' = [changes EXCEPT !.observed = @ + 1]
  /\ UNCHANGED <<financial, reports, classes, listed, masterListed, stage, answer>>

-----------------------------------------------------------------------------
\* application/financial_indicators.py and the route, reading by reading; lines are never
\* changed once stored.

ReadYears ==
  /\ stage = "idle" /\ stage' = "latest"
  /\ seen' = [seen EXCEPT !.years = {r.name : r \in reports}]
  /\ UNCHANGED <<financial, reports, classes, listed, masterListed, market, answer, changes>>

ReadLatest ==
  /\ stage = "latest" /\ stage' = "classes"
  /\ seen' = [seen EXCEPT !.latest = {Latest(reports)}]
  /\ UNCHANGED <<financial, reports, classes, listed, masterListed, market, answer, changes>>

\* The common share is asked for whether it is known or not.
ReadClasses ==
  /\ stage = "classes" /\ stage' = "price"
  /\ seen' = [seen EXCEPT !.classes = classes, !.master = masterListed,
                          !.queue = IF Preferred \in classes THEN <<Common, Preferred>> ELSE <<Common>>]
  /\ UNCHANGED <<financial, reports, classes, listed, masterListed, market, answer, changes>>

ReadPrice ==
  /\ stage = "price" /\ stage' = "count"
  /\ seen' = [seen EXCEPT !.quotes[seen.queue[1]].price = market[seen.queue[1]].price]
  /\ UNCHANGED <<financial, reports, classes, listed, masterListed, market, answer, changes>>

ReadCount ==
  /\ stage = "count"
  /\ LET c == seen.queue[1]
         quotes == [seen.quotes EXCEPT ![c].shares = market[c].shares]
     IN  /\ seen' = [seen EXCEPT !.quotes = quotes, !.queue = Tail(@)]
         /\ IF Len(seen.queue) > 1
            THEN stage' = "price" /\ UNCHANGED answer
            ELSE stage' = "answered" /\ answer' = {Valuation(Filings[Only(seen.latest).name].lines, seen.classes, quotes)}
  /\ UNCHANGED <<financial, reports, classes, listed, masterListed, market, changes>>

FuNext ==
  \/ \E n \in DOMAIN Filings : SaveReport(n)
  \/ ChangeListing \/ CollectMaster
  \/ \E c \in ShareClasses, o \in Observations : SaveQuote(c, o)
  \/ ReadYears \/ ReadLatest \/ ReadClasses \/ ReadPrice \/ ReadCount

FuSpec == FuInit /\ [][FuNext]_fuVars

-----------------------------------------------------------------------------
\* Every variable has the type of what it stands for.
FuTypeOK ==
  /\ financial \in BOOLEAN /\ listed \in {{Common}, ShareClasses} /\ masterListed \in {{}, {Common}, ShareClasses}
  /\ \A r \in reports : r.name \in DOMAIN Filings /\ r.listed \subseteq ShareClasses
  /\ classes \subseteq ShareClasses
  /\ \A c \in ShareClasses : Cardinality(market[c].price) <= 1 /\ Cardinality(market[c].shares) <= 1
  /\ stage \in {"idle", "latest", "classes", "price", "count", "answered"}
  /\ seen.years \subseteq DOMAIN Filings /\ seen.latest \subseteq [name : DOMAIN Filings, listed : SUBSET ShareClasses]
  /\ changes \in [filed : 0 .. MaxFiled, observed : 0 .. MaxObserved, listing : 0 .. MaxListingChanges]

\* An account comes out as in well kept books or not at all, however it is presented -
\* unless the owners' part of another total happens to make the profit while the row that
\* says it truly has an identifier of the issuer's own.
Found == [n \in DOMAIN Filings |-> [item \in DOMAIN TrueAmounts |->
            [period \in {"now", "prior"} |-> Resolve(Filings[n].lines, item, period).amount]]]
TrueOrNothing ==
  \A n \in seen.years, item \in DOMAIN TrueAmounts, period \in {"now", "prior"} :
    Found[n][item][period] \subseteq {TrueAmounts[item][period]} \/ (item = "owners" /\ n = "coincidence")

\* The earnings per share are those of the common share - if every class that was listed
\* when the report was filed is known, or none is.
EpsIsTheCommons ==
  \A given \in answer, r \in seen.latest :
    r.listed \subseteq seen.classes \/ seen.classes = {} => given.eps.value \subseteq {Filings[r.name].eps}

\* Nothing is shared out among classes: book values only for a company without a preferred
\* share in the last list, and a total only of every class of that list.
NoClassIsForgotten ==
  \A given \in answer :
    /\ given.bps.value # {} => seen.master = {Common}
    /\ given.total.value # {} => seen.master # {} /\ \A c \in seen.master : CapOf(seen.quotes[c]) # {}

\* A capitalisation multiplies price and count of one quotation, unless one came in between
\* the two readings.
CapIsOfOneQuotation ==
  \A given \in answer :
    Common \in seen.torn \/ given.cap.value \subseteq {o.price * o.shares : o \in Observations}

\* The valuation rests on a report at least as late as the years shown.
ValuationIsNotOlder ==
  \A n \in seen.years, r \in seen.latest :
    Filings[n].year < Filings[r.name].year \/ Filings[n].receipt <= Filings[r.name].receipt

\* The reason of the sector is given only where revenue or operating income has no row -
\* or where the net margin lacks the profit.
Reasoned == [n \in DOMAIN Filings |-> [sector \in BOOLEAN |-> AnnualIndicators(Filings[n].lines, sector)]]
SectorReasonIsRight ==
  \A n \in seen.years :
    LET lacks(item) == MatchingLines(Filings[n].lines, item) = {}
        indicators == Reasoned[n][financial]
    IN  \A key \in {k \in DOMAIN indicators : indicators[k].reason = "SECTOR_ACCOUNT_BASIS"} :
          (\E item \in OperatingAccounts : lacks(item)) \/ (key = "netMargin" /\ lacks("profit"))

\* The parts above, in every state reached.
FundamentalsContract ==
  [][/\ TrueOrNothing' /\ EpsIsTheCommons' /\ NoClassIsForgotten' /\ CapIsOfOneQuotation'
     /\ ValuationIsNotOlder' /\ SectorReasonIsRight']_fuVars
===============================================================================
