--------------------------- MODULE CorporateActions ---------------------------
(*************************************************************************)
(* Dividends and distributions of one instrument: what the sources       *)
(* announce, the versions the store keeps of it, and the ex-dates that   *)
(* ExDateResolver derives from the market calendar                       *)
(* (src/docs/data/corporate-action-adjusted-price-data-contract.md).     *)
(* Two collections, or a collection and a confirmation, may overlap.     *)
(* Parsing, the raw responses and the rows of the sync status are left   *)
(* out.                                                                  *)
(*************************************************************************)
EXTENDS Naturals, Sequences, FiniteSetsExt, SequencesExt

CONSTANTS
  ActionWriters,    \* processes that collect and confirm
  Announcements,    \* [cash, record]: what a source may announce
  Calendars,        \* [open, listed]: open days, and days with a row in the calendar
  MaxEvents,        \* bound: filings
  LastStamp         \* bound: moments at which something is received or confirmed

VARIABLES
  actionSource,          \* DART files every correction anew, KODEX edits its page
  announced,        \* what the source says of each event
  calendar,
  actionClock,
  actionRows,       \* market.corporate_action in the order of insertion
  writer,           \* what each process is doing
  overlaid          \* history: a transaction wrote otherwise than if it had looked again

actionVars == <<actionSource, announced, calendar, actionClock, actionRows, writer, overlaid>>

Absent == 0
Forever == 0
Stamps == 1 .. LastStamp
ActionDays == 1 .. Max({a.record : a \in Announcements})

NoLook == [picked |-> <<>>, keys |-> <<>>]
WriterAtRest == [at |-> "idle", bundle |-> <<>>, look |-> NoLook, stamp |-> Absent, todo |-> <<>>]

ActionInit ==
  /\ actionSource \in {"filings", "page"}
  /\ announced = <<>>
  /\ calendar \in Calendars
  /\ actionClock = 0 /\ actionRows = <<>> /\ overlaid = FALSE
  /\ writer = [p \in ActionWriters |-> WriterAtRest]

-----------------------------------------------------------------------------
\* The sources.  A company files a decision or a correction of it, and a filing never
\* changes; a fund's page names an event by its record date, and its amount may be
\* edited in place.
SaysByNow ==
  IF actionSource = "filings"
  THEN {a \in BoundedSeq(Announcements, MaxEvents) : IsPrefix(announced, a)}
  ELSE {<<a>> : a \in {b \in Announcements : announced # <<>> => b.record = announced[1].record}}

-----------------------------------------------------------------------------
\* The rows.

ActionIndices == DOMAIN actionRows
IsCurrent(row) == row.until = Forever
NewestOf(rows, event) ==
  LET versions == {rows[i].version : i \in {j \in DOMAIN rows : rows[j].event = event}}
  IN  SelectInSeq(rows, LAMBDA r : r.event = event /\ \A v \in versions : v <= r.version)
CurrentOf(rows, key) == SelectInSeq(rows, LAMBDA r : r.key = key /\ IsCurrent(r))

\* _resolve_action_key: the action of the same record date, of several any one.
ResolvedKeys(rows, record) ==
  LET same == {rows[i].key : i \in {j \in DOMAIN rows : IsCurrent(rows[j]) /\ rows[j].fact.record = record}}
  IN  IF same = {} THEN {Absent} ELSE same

\* Mutation: no ex-date is an opinion as well.
FactsMatchWhole(row, obs) == row.ex = obs.ex /\ row.fact = obs.fact
\* _corporate_action_facts_match: an observation without an ex-date has no opinion
\* on it.
FactsMatch(row, obs) == (obs.ex # Absent => row.ex = obs.ex) /\ row.fact = obs.fact

\* The same facts again: only the evidence is renewed; when they became known stays.
RenewedAction(row, obs) ==
  IF IsCurrent(row) /\ obs.received > row.received THEN [row EXCEPT !.received = obs.received] ELSE row

NewActionVersion(obs, key, version) ==
  [event |-> obs.event, key |-> key, version |-> version, fact |-> obs.fact, ex |-> obs.ex,
   available |-> obs.available, received |-> obs.received, from |-> obs.received, until |-> Forever]

NotSaved == [ok |-> FALSE, rows |-> <<>>]
SavedRows(rows) == [ok |-> TRUE, rows |-> rows]

\* The unique keys of the table.
Fits(rows, row) ==
  \A i \in DOMAIN rows :
    /\ <<rows[i].key, rows[i].version>> # <<row.key, row.version>>
    /\ <<rows[i].event, rows[i].version>> # <<row.event, row.version>>

Inserted(rows, row) == IF Fits(rows, row) THEN SavedRows(Append(rows, row)) ELSE NotSaved

\* save_corporate_action, with the row that was the event's newest when the transaction
\* looked for it and the key it resolved; a new action gets a key of its own.
SaveAction(rows, obs, matched, resolved) ==
  IF matched # 0 /\ FactsMatch(rows[matched], obs)
  THEN SavedRows([rows EXCEPT ![matched] = RenewedAction(@, obs)])
  ELSE LET key == IF matched # 0 THEN rows[matched].key
                  ELSE IF resolved # Absent THEN resolved ELSE Len(rows) + 1
           current == CurrentOf(rows, key)
       IN  IF current = 0 THEN Inserted(rows, NewActionVersion(obs, key, 1))
           ELSE IF obs.received <= rows[current].received THEN NotSaved
           ELSE Inserted([rows EXCEPT ![current].until = obs.received],
                         NewActionVersion(obs, key, rows[current].version + 1))

-----------------------------------------------------------------------------
\* Collection: fetch, then one transaction for the whole bundle.

WriterBecomes(p, w) == writer' = [writer EXCEPT ![p] = w]

\* The filings of a range one after the other, each received at a time of its own.
ObservedActions(first, last) ==
  [i \in 1 .. last - first + 1 |->
     LET t == actionClock + i IN
     [event |-> first + i - 1, fact |-> announced'[first + i - 1], ex |-> Absent, available |-> t, received |-> t]]

FetchActions(p) ==
  /\ writer[p].at = "idle"
  /\ announced' \in SaysByNow
  /\ \E first, last \in DOMAIN announced' :
       /\ first <= last /\ actionClock + last - first + 1 <= LastStamp
       /\ WriterBecomes(p, [WriterAtRest EXCEPT !.at = "look", !.bundle = ObservedActions(first, last)])
       /\ actionClock' = actionClock + last - first + 1
  /\ UNCHANGED <<actionSource, calendar, actionRows, overlaid>>

\* The reads of the transaction, taken together.  Keys resolved for an action that an
\* earlier observation of the bundle creates are found at the writing.
Looks(bundle) ==
  {[picked |-> [b \in DOMAIN bundle |-> NewestOf(actionRows, bundle[b].event)], keys |-> keys] :
     keys \in {k \in [DOMAIN bundle -> {Absent} \cup {actionRows[i].key : i \in ActionIndices}] :
                 \A b \in DOMAIN bundle : k[b] \in ResolvedKeys(actionRows, bundle[b].fact.record)}}

LookForRows(p) ==
  /\ writer[p].at = "look"
  /\ \E look \in Looks(writer[p].bundle) : WriterBecomes(p, [writer[p] EXCEPT !.at = "save", !.look = look])
  /\ UNCHANGED <<actionSource, announced, calendar, actionClock, actionRows, overlaid>>

\* What the transaction itself has inserted since.
OwnKey(before, rows, record) ==
  LET own == {i \in DOMAIN rows : i > Len(before) /\ rows[i].fact.record = record /\ IsCurrent(rows[i])}
  IN  IF own = {} THEN Absent ELSE rows[Min(own)].key

SaveAll(bundle, look) ==
  LET step(result, b) ==
        IF ~ result.ok THEN result
        ELSE LET own == OwnKey(actionRows, result.rows, bundle[b].fact.record)
             IN  SaveAction(result.rows, bundle[b], look.picked[b], IF own # Absent THEN own ELSE look.keys[b])
  IN  FoldLeft(step, SavedRows(actionRows), [b \in DOMAIN bundle |-> b])

SaveBundle(p) ==
  /\ writer[p].at = "save"
  /\ LET w == writer[p]
         result == SaveAll(w.bundle, w.look)
     IN  /\ actionRows' = IF result.ok THEN result.rows ELSE actionRows
         /\ overlaid' = (overlaid \/ result \notin {SaveAll(w.bundle, look) : look \in Looks(w.bundle)})
  /\ WriterBecomes(p, WriterAtRest)
  /\ UNCHANGED <<actionSource, announced, calendar, actionClock>>

\* The fetch or the transaction fails, or a row it waits for has changed under it.
Rollback(p) ==
  /\ writer[p].at \in {"look", "save"}
  /\ WriterBecomes(p, WriterAtRest)
  /\ UNCHANGED <<actionSource, announced, calendar, actionClock, actionRows, overlaid>>

-----------------------------------------------------------------------------
\* Confirmation: ExDateResolver.

Earlier(day) == {d \in calendar.open \cap calendar.listed : d < day}
PreviousOpenDate(day) == Max({Absent} \cup Earlier(day))

DerivedExDate(record) ==
  IF record \notin calendar.listed THEN Absent
  ELSE LET settlement == IF record \in calendar.open THEN record ELSE PreviousOpenDate(record)
       IN  IF settlement = Absent THEN Absent ELSE PreviousOpenDate(settlement)

\* resolved_at is the time of the start.
StartResolve(p) ==
  /\ writer[p].at = "idle" /\ actionClock < LastStamp
  /\ actionClock' = actionClock + 1
  /\ WriterBecomes(p, [WriterAtRest EXCEPT !.at = "list", !.stamp = actionClock + 1])
  /\ UNCHANGED <<actionSource, announced, calendar, actionRows, overlaid>>

ListMissing(p) ==
  /\ writer[p].at = "list"
  /\ LET missing == {i \in ActionIndices : IsCurrent(actionRows[i]) /\ actionRows[i].ex = Absent}
     IN  WriterBecomes(p, [writer[p] EXCEPT !.at = "confirm",
                      !.todo = SetToSortSeq(missing, LAMBDA i, j :
                                 \/ actionRows[i].fact.record < actionRows[j].fact.record
                                 \/ actionRows[i].fact.record = actionRows[j].fact.record /\ i < j)])
  /\ UNCHANGED <<actionSource, announced, calendar, actionClock, actionRows, overlaid>>

\* confirm_ex_date leaves a row alone that was superseded or confirmed meanwhile.
Confirmation(p, row) ==
  [event |-> row.event, fact |-> row.fact, ex |-> DerivedExDate(row.fact.record),
   available |-> row.available, received |-> writer[p].stamp]

ConfirmExDate(p) ==
  /\ writer[p].at = "confirm" /\ writer[p].todo # <<>>
  /\ LET i == Head(writer[p].todo)
         row == actionRows[i]
         next == [writer[p] EXCEPT !.todo = Tail(@)]
         result == SaveAction(actionRows, Confirmation(p, row), NewestOf(actionRows, row.event), row.key)
     IN  IF DerivedExDate(row.fact.record) = Absent \/ ~ IsCurrent(row) \/ row.ex # Absent
         THEN WriterBecomes(p, next) /\ UNCHANGED actionRows
         ELSE IF result.ok THEN WriterBecomes(p, next) /\ actionRows' = result.rows
         \* A later reception of the row makes the confirmation too old, which ends the command.
         ELSE WriterBecomes(p, WriterAtRest) /\ UNCHANGED actionRows
  /\ UNCHANGED <<actionSource, announced, calendar, actionClock, overlaid>>

ResolveEnds(p) ==
  /\ writer[p].at = "confirm" /\ writer[p].todo = <<>>
  /\ WriterBecomes(p, WriterAtRest)
  /\ UNCHANGED <<actionSource, announced, calendar, actionClock, actionRows, overlaid>>

-----------------------------------------------------------------------------
ActionNext ==
  \E p \in ActionWriters :
    \/ FetchActions(p) \/ LookForRows(p) \/ SaveBundle(p) \/ Rollback(p)
    \/ StartResolve(p) \/ ListMissing(p) \/ ConfirmExDate(p) \/ ResolveEnds(p)

ActionSpec == ActionInit /\ [][ActionNext]_actionVars

-----------------------------------------------------------------------------
\* Types of the rows and of the processes.
ActionTypeOK ==
  /\ actionSource \in {"filings", "page"} /\ announced \in Seq(Announcements) /\ calendar \in Calendars
  /\ actionClock \in 0 .. LastStamp /\ overlaid \in BOOLEAN
  /\ \A i \in ActionIndices :
       actionRows[i] \in [event : 1 .. MaxEvents, key : 1 .. Len(actionRows), version : 1 .. Len(actionRows),
                          fact : Announcements, ex : ActionDays \cup {Absent}, available : Stamps, received : Stamps,
                          from : Stamps, until : Stamps \cup {Forever}]
  /\ \A p \in ActionWriters :
       /\ writer[p].at \in {"idle", "look", "save", "list", "confirm"}
       /\ Range(writer[p].todo) \subseteq ActionIndices

\* The versions of an action count from one, each begins where the one before was
\* superseded and later than that one began, and only the last is current.
ActionHistoryIsChained ==
  \A i \in ActionIndices :
    LET row == actionRows[i]
        next == {j \in ActionIndices : actionRows[j].key = row.key /\ actionRows[j].version = row.version + 1}
    IN  IF IsCurrent(row) THEN next = {} ELSE \E j \in next : actionRows[j].from = row.until /\ row.until > row.from

\* KRX T+2: whoever buys on the ex-date, or later, is delivered after the record date,
\* and whoever buys on the open day before is delivered in time.
SettlementDay(day) ==
  LET later == {d \in calendar.open : d > day}
  IN  IF Cardinality(later) < 2 THEN Max(ActionDays) + 1 ELSE Min(later \ {Min(later)})

ExDateIsRight ==
  ActionDays \subseteq calendar.listed =>
    \A i \in ActionIndices : actionRows[i].ex # Absent =>
      LET row == actionRows[i] IN
      /\ row.ex \in calendar.open
      /\ \A d \in calendar.open : d >= row.ex <=> SettlementDay(d) > row.fact.record

\* One dividend is not counted twice: a record date has one current action, unless
\* transactions that overlapped did not see each other.
OncePerRecordDate ==
  ~ overlaid =>
    \A i, j \in ActionIndices :
      (IsCurrent(actionRows[i]) /\ IsCurrent(actionRows[j]) /\ actionRows[i].fact.record = actionRows[j].fact.record)
        => i = j

\* read_corporate_actions_as_of, as far as the announcements go.
KnownAt(rows, cutoff, key) ==
  LET known == {i \in DOMAIN rows : rows[i].key = key /\ rows[i].available <= cutoff}
  IN  {<<rows[i].event, rows[i].fact>> : i \in {j \in known : \A k \in known : rows[k].version <= rows[j].version}}

\* What was known at a moment of the past stays what was known at it, whatever is
\* corrected, received again or confirmed later: no backtest of that moment changes.
\* (Ex-dates are derived and may be added.)  The moment is past when nothing received
\* until then is still on its way into the store, and no transactions overlapped unseen.
PastStaysKnown ==
  ~ overlaid' => \A cutoff \in 1 .. actionClock :
    (\A p \in ActionWriters : \A b \in DOMAIN writer[p].bundle : writer[p].bundle[b].received > cutoff) =>
      \A i \in ActionIndices : KnownAt(actionRows', cutoff, actionRows[i].key) = KnownAt(actionRows, cutoff, actionRows[i].key)

\* A confirmed ex-date is given up for other facts only; a collection that sees the same
\* facts again leaves it.  (Measured on 2026-08-21: one collection had taken 415 of 422
\* confirmations away.)
ConfirmationsSurvive ==
  \A i \in ActionIndices :
    (IsCurrent(actionRows[i]) /\ actionRows[i].ex # Absent /\ ~ IsCurrent(actionRows'[i])) =>
      LET j == CurrentOf(actionRows', actionRows[i].key)
      IN  actionRows'[j].fact # actionRows[i].fact \/ actionRows'[j].event # actionRows[i].event

\* What the store promises of corporate actions, together.
ActionsContract ==
  [][/\ ActionHistoryIsChained' /\ ExDateIsRight' /\ OncePerRecordDate'
     /\ PastStaysKnown /\ ConfirmationsSurvive]_actionVars
===============================================================================
