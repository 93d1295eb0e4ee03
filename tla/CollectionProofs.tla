---------------------------- MODULE CollectionProofs --------------------------
(*************************************************************************)
(* What holds of collected market data for any number of processes, any  *)
(* times and any facts, of the credentials that the processes share, and *)
(* of the sweeps over the stock universe.                                *)
(*************************************************************************)
EXTENDS FactVersions, MarketCalendar, KisCoordination, Sweeps, SumTheorems, SequenceTheorems, TLAPS

-----------------------------------------------------------------------------
(* Sequences of versions.                                                *)

\* A step that changes one version leaves the others as they are.
LEMMA RowReplaced ==
  ASSUME NEW S, NEW list \in Seq(S), NEW i \in 1 .. Len(list), NEW row \in S
  PROVE  LET new == [list EXCEPT ![i] = row] IN
           /\ new \in Seq(S) /\ Len(new) = Len(list) /\ DOMAIN new = 1 .. Len(list)
           /\ \A j \in 1 .. Len(list) : new[j] = IF j = i THEN row ELSE list[j]
<1> DEFINE new == [list EXCEPT ![i] = row]
<1>1. list \in [1 .. Len(list) -> S] /\ Len(list) \in Nat
  BY LenProperties
<1>2. new \in [1 .. Len(list) -> S]
  BY <1>1
<1>3. new \in Seq(S)
  BY <1>1, <1>2, SeqDef
<1>4. Len(new) = Len(list)
  BY <1>1, <1>2, <1>3, LenProperties
<1> QED
  BY <1>1, <1>2, <1>3, <1>4

\* The last of a sequence that has one.
LEMMA LastIsThere ==
  ASSUME NEW S, NEW list \in Seq(S)
  PROVE  /\ Len(list) \in Nat /\ DOMAIN list = 1 .. Len(list)
         /\ \A i \in 1 .. Len(list) : list[i] \in S
         /\ list # <<>> => Len(list) \in 1 .. Len(list)
         /\ list = <<>> => Len(list) = 0
<1>1. Len(list) \in Nat /\ DOMAIN list = 1 .. Len(list) /\ \A i \in 1 .. Len(list) : list[i] \in S
  BY LenProperties
<1>2. list # <<>> => Len(list) # 0
  BY EmptySeq
<1>3. list = <<>> => Len(list) = 0
  BY EmptySeq
<1> QED
  BY <1>1, <1>2, <1>3

-----------------------------------------------------------------------------
(* Versions of a fact: what is stored and what is held.                  *)

\* A stored version.
FactRow == [fact : FactValues, from : Nat \ {0}, received : Nat \ {0}, until : Nat, final : BOOLEAN]

\* What a process holds.
FactWork ==
  [at : {"idle", "fetch", "save", "pick", "write", "confirm"}, asked : Nat,
   prior : [fact : FactValues \cup {"none"}, received : Nat, final : BOOLEAN],
   seen : [fact : FactValues \cup {"none"}, received : Nat], picked : Nat]

\* Types wider than FactTypeOK's: the bounds are no part of what follows.
FactTypes ==
  /\ table \in Tables /\ time \in Nat \ {0} /\ says \in FactValues
  /\ snapshot \in [fact : FactValues \cup {"none"}, received : Nat]
  /\ snapshot # Unseen => snapshot.fact \in FactValues /\ snapshot.received \in 1 .. time
  /\ work \in [FactCollectors -> FactWork]
  /\ sightings \in [FactValues -> 0 .. 2]

OnlyBarsAreFinal == \A i \in DOMAIN history : history[i].final => table \in Bars

\* In the tables with a lock a version begins before it is renewed.
BeginsFirst ==
  table \notin Unlocked => \A i \in DOMAIN history : history[i].from <= history[i].received

\* What is said of the versions alone.
HistoryOK ==
  /\ history \in Seq(FactRow)
  /\ \A i \in DOMAIN history : history[i].from <= time /\ history[i].received <= time
  /\ OnlyBarsAreFinal /\ VersionsAreChained /\ BeginsFirst

\* AfterEnd of a table.
Passed(tb, t) == IF tb = "minute_bar" THEN t >= IntervalEnd ELSE t > IntervalEnd

\* What a process holds, in a table tb, at a time now, beside n versions and the numbers
\* s of sightings.  An observation comes from the source, not before it was asked.
\* Where a process may be depends on the table, and only a collection of bars knows a
\* prior version.  Every reception after the end of the interval was counted: that of
\* the version a run began with, and the second look of a confirmation.
EntryOK(e, tb, now, n, s) ==
  /\ e \in FactWork /\ e.asked <= now /\ e.picked <= n
  /\ e.at \in {"save", "pick", "write", "confirm"} =>
       e.seen.fact \in FactValues /\ e.seen.received \in 1 .. now /\ e.asked <= e.seen.received
  /\ e.at \in {"save", "confirm"} => tb \notin Unlocked
  /\ e.at \in {"pick", "write"} => tb \in Unlocked
  /\ e.prior # Missing =>
       /\ tb \in Bars /\ n > 0
       /\ e.prior.fact \in FactValues /\ e.prior.received \in 1 .. now
       /\ Passed(tb, e.prior.received) => s[e.prior.fact] >= 1
  /\ e.at = "confirm" =>
       /\ e.prior # Missing
       /\ Passed(tb, e.asked) /\ Passed(tb, e.prior.received) /\ e.prior.fact = e.seen.fact =>
            s[e.seen.fact] = 2

EntriesOK == \A p \in FactCollectors : EntryOK(work[p], table, time, Len(history), sightings)

\* So was that of a version that stands.
RowsSighted ==
  table \in Bars =>
    \A i \in DOMAIN history : AfterEnd(history[i].received) => sightings[history[i].fact] >= 1

FactInv == FactTypes /\ HistoryOK /\ EntriesOK /\ RowsSighted /\ ConfirmedWasSeenTwice

-----------------------------------------------------------------------------
(* How a history changes.                                                *)

Observations == [fact : FactValues, received : 1 .. time]

FirstVersion == history = <<>> /\ \E obs \in Observations : history' = <<NewRow(obs)>>

NextVersion ==
  /\ history # <<>>
  /\ \E obs \in Observations :
       /\ table \notin Unlocked => obs.received > Current.received
       /\ history' = Superseded(history, Len(history), obs)

Renewal ==
  \E i \in DOMAIN history, t \in 1 .. time :
    /\ table \notin Unlocked => i = Len(history) /\ t >= Current.received
    /\ history' = [history EXCEPT ![i].received = t]

Finality ==
  /\ table \in Bars /\ history # <<>>
  /\ history' = [history EXCEPT ![Len(history)].final = TRUE]

HistoryStep == history' = history \/ FirstVersion \/ NextVersion \/ Renewal \/ Finality

\* A history is a sequence of stored versions.
LEMMA HistoryIsASequence ==
  ASSUME NEW list \in Seq(FactRow)
  PROVE  /\ Len(list) \in Nat /\ DOMAIN list = 1 .. Len(list)
         /\ \A i \in 1 .. Len(list) :
              /\ list[i] \in FactRow
              /\ list[i].fact \in FactValues /\ list[i].final \in BOOLEAN
              /\ list[i].from \in Nat \ {0} /\ list[i].received \in Nat \ {0} /\ list[i].until \in Nat
         /\ list # <<>> => Len(list) \in 1 .. Len(list)
         /\ list = <<>> => Len(list) = 0
<1>1. Len(list) \in Nat /\ DOMAIN list = 1 .. Len(list) /\ \A i \in 1 .. Len(list) : list[i] \in FactRow
  BY LenProperties
<1>2. list # <<>> => Len(list) # 0
  BY EmptySeq
<1>3. list = <<>> => Len(list) = 0
  BY EmptySeq
<1> QED
  BY <1>1, <1>2, <1>3 DEF FactRow

\* A version that follows ends the one before and is open itself.
LEMMA VersionAdded ==
  ASSUME NEW list \in Seq(FactRow), NEW i \in 1 .. Len(list),
         NEW obs \in [fact : FactValues, received : Nat \ {0}]
  PROVE  LET new == Superseded(list, i, obs) IN
           /\ new \in Seq(FactRow) /\ Len(new) = Len(list) + 1
           /\ \A j \in 1 .. Len(list) :
                new[j] = IF j = i THEN [list[i] EXCEPT !.until = obs.received] ELSE list[j]
           /\ new[Len(list) + 1] = NewRow(obs)
<1> DEFINE row == [list[i] EXCEPT !.until = obs.received]
           ended == [list EXCEPT ![i] = row]
<1>1. row \in FactRow /\ NewRow(obs) \in FactRow
  <2>1. list[i] \in FactRow /\ obs.fact \in FactValues /\ obs.received \in Nat \ {0}
    BY HistoryIsASequence
  <2>2. row \in FactRow
    BY <2>1 DEF FactRow
  <2>3. NewRow(obs) \in FactRow
    BY <2>1 DEF FactRow, NewRow, NotYet
  <2> QED
    BY <2>2, <2>3
<1>2. /\ ended \in Seq(FactRow) /\ Len(ended) = Len(list)
      /\ \A j \in 1 .. Len(list) : ended[j] = IF j = i THEN row ELSE list[j]
  BY <1>1, RowReplaced
<1>3. Superseded(list, i, obs) = Append(ended, NewRow(obs))
  BY DEF Superseded
<1> HIDE DEF row, ended
<1>4. /\ Append(ended, NewRow(obs)) \in Seq(FactRow)
      /\ Len(Append(ended, NewRow(obs))) = Len(ended) + 1
      /\ Append(ended, NewRow(obs))[Len(ended) + 1] = NewRow(obs)
      /\ \A j \in 1 .. Len(ended) : Append(ended, NewRow(obs))[j] = ended[j]
  BY <1>1, <1>2, AppendProperties
<1> QED
  BY <1>2, <1>3, <1>4 DEF row

-----------------------------------------------------------------------------
(* What every change of a history keeps.                                 *)

\* A first version.
LEMMA FirstVersionKeeps ==
  ASSUME HistoryOK, FirstVersion, table' = table, time \in Nat, time' \in Nat, time' >= time
  PROVE  HistoryOK' /\ VersionsAreFrozen /\ ReceptionNeverGoesBack
<1> PICK obs \in Observations : history' = <<NewRow(obs)>>
  BY DEF FirstVersion
<1>1. obs.fact \in FactValues /\ obs.received \in 1 .. time
  BY DEF Observations
<1>2. NewRow(obs) \in FactRow
  BY <1>1 DEF NewRow, FactRow, NotYet
<1>3. history' \in Seq(FactRow) /\ Len(history') = 1 /\ DOMAIN history' = 1 .. 1 /\ history'[1] = NewRow(obs)
  BY <1>2
<1>4. /\ history'[1].from <= time' /\ history'[1].received <= time' /\ ~ history'[1].final
      /\ history'[1].until = NotYet /\ history'[1].from <= history'[1].received
  BY <1>1, <1>3 DEF NewRow
<1>5. history = <<>> /\ DOMAIN history = {}
  BY EmptySeq DEF FirstVersion
<1>6. (\A i \in DOMAIN history : history[i].from <= time /\ history[i].received <= time)'
      /\ OnlyBarsAreFinal' /\ VersionsAreChained' /\ BeginsFirst'
  BY <1>3, <1>4 DEF OnlyBarsAreFinal, VersionsAreChained, BeginsFirst, Unlocked
<1> QED
  BY <1>3, <1>5, <1>6 DEF HistoryOK, VersionsAreFrozen, ReceptionNeverGoesBack

\* A further version.
LEMMA NextVersionKeeps ==
  ASSUME HistoryOK, NextVersion, table' = table, time \in Nat, time' \in Nat, time' >= time
  PROVE  HistoryOK' /\ VersionsAreFrozen /\ ReceptionNeverGoesBack
<1> DEFINE n == Len(history)
<1>1. PICK obs \in Observations :
        /\ table \notin Unlocked => obs.received > Current.received
        /\ history' = Superseded(history, n, obs)
  BY DEF NextVersion
<1>2. obs \in [fact : FactValues, received : Nat \ {0}] /\ obs.received \in 1 .. time
  BY DEF Observations
<1>3. /\ n \in Nat /\ n \in 1 .. n /\ DOMAIN history = 1 .. n
      /\ \A i \in 1 .. n : /\ history[i] \in FactRow
                           /\ history[i].from \in Nat \ {0} /\ history[i].received \in Nat \ {0}
  BY HistoryIsASequence DEF HistoryOK, NextVersion
<1>4. /\ history' \in Seq(FactRow) /\ Len(history') = n + 1
      /\ \A j \in 1 .. n : history'[j] = IF j = n THEN [history[n] EXCEPT !.until = obs.received] ELSE history[j]
      /\ history'[n + 1] = NewRow(obs)
  <2>1. history \in Seq(FactRow) /\ n \in 1 .. Len(history)
    BY <1>3 DEF HistoryOK
  <2> QED
    BY <1>1, <1>2, <2>1, VersionAdded
<1>5. DOMAIN history' = 1 .. n + 1
  BY <1>4, HistoryIsASequence
<1>6. \A j \in 1 .. n :
        /\ history'[j].fact = history[j].fact /\ history'[j].from = history[j].from
        /\ history'[j].received = history[j].received /\ history'[j].final = history[j].final
        /\ history'[j].until = IF j = n THEN obs.received ELSE history[j].until
  BY <1>3, <1>4, SMTT(20) DEF FactRow
<1>7. /\ history'[n + 1].fact = obs.fact /\ history'[n + 1].from = obs.received
      /\ history'[n + 1].received = obs.received /\ history'[n + 1].until = NotYet
      /\ history'[n + 1].final = FALSE
  BY <1>4 DEF NewRow
<1> HIDE DEF n
<1>8. \A j \in 1 .. n + 1 : j \in 1 .. n \/ j = n + 1
  BY <1>3
<1>9. (\A i \in DOMAIN history : history[i].from <= time /\ history[i].received <= time)'
  <2>1. \A j \in 1 .. n : history'[j].from <= time' /\ history'[j].received <= time'
    <3>1. \A j \in 1 .. n : history[j].from <= time /\ history[j].received <= time
      BY <1>3 DEF HistoryOK
    <3>2. \A i, t \in Nat : i <= t /\ t <= time' => i <= time'
      OBVIOUS
    <3> QED
      BY <1>3, <1>6, <3>1, <3>2
  <2>2. history'[n + 1].from <= time' /\ history'[n + 1].received <= time'
    BY <1>2, <1>7
  <2> QED
    BY <1>5, <1>8, <2>1, <2>2
<1>10. OnlyBarsAreFinal' /\ BeginsFirst'
  <2>1. OnlyBarsAreFinal'
    BY <1>3, <1>5, <1>6, <1>7, <1>8 DEF HistoryOK, OnlyBarsAreFinal
  <2>2. ASSUME table \notin Unlocked, NEW j \in 1 .. n + 1
        PROVE  history'[j].from <= history'[j].received
    <3>1. \A i \in 1 .. n : history[i].from <= history[i].received
      BY <1>3, <2>2 DEF HistoryOK, BeginsFirst
    <3>2. obs.received <= obs.received
      BY <1>2
    <3> QED
      BY <1>6, <1>7, <1>8, <3>1, <3>2
  <2> QED
    BY <1>5, <2>1, <2>2 DEF BeginsFirst, Unlocked
<1>11. VersionsAreChained'
  <2>1. \A i \in 1 .. n + 1 : (history'[i].until = NotYet) <=> (i = n + 1)
    <3>1. \A i \in 1 .. n : history[i].until = NotYet <=> i = n
      BY <1>3 DEF HistoryOK, VersionsAreChained, n
    <3> QED
      BY <1>2, <1>3, <1>6, <1>7, <1>8, <3>1 DEF NotYet
  <2>2. ASSUME table \notin Unlocked, NEW i \in 1 .. n
        PROVE  history'[i].until = history'[i + 1].from /\ history'[i].received < history'[i + 1].from
    <3>1. CASE i = n
      <4>1. history[n].received < obs.received
        BY <1>1, <2>2, <1>2, <1>3 DEF Current, n
      <4> QED
        BY <3>1, <4>1, <1>3, <1>6, <1>7
    <3>2. CASE i # n
      <4>1. i \in 1 .. n - 1 /\ i + 1 \in 1 .. n
        BY <3>2, <1>3
      <4>2. history[i].until = history[i + 1].from /\ history[i].received < history[i + 1].from
        BY <4>1, <2>2 DEF HistoryOK, VersionsAreChained, n
      <4> QED
        BY <3>2, <4>1, <4>2, <1>6
    <3> QED
      BY <3>1, <3>2
  <2>3. Len(history') - 1 = n
    BY <1>3, <1>4
  <2> QED
    BY <1>4, <1>5, <2>1, <2>2, <2>3 DEF VersionsAreChained, Unlocked
<1>12. VersionsAreFrozen
  <2>1. \A i \in 1 .. n : history[i].until = NotYet <=> i = n
    BY <1>3 DEF HistoryOK, VersionsAreChained, n
  <2>2. \A i \in 1 .. n : i \in 1 .. n + 1
    BY <1>3
  <2> QED
    BY <1>3, <1>5, <1>6, <2>1, <2>2 DEF VersionsAreFrozen
<1>13. ReceptionNeverGoesBack
  <2>1. table \notin Unlocked => obs.received >= Current.received
    BY <1>1, <1>2, <1>3 DEF Current, n
  <2> QED
    BY <2>1, <1>4, <1>7 DEF ReceptionNeverGoesBack
<1> QED
  BY <1>4, <1>9, <1>10, <1>11, <1>12, <1>13 DEF HistoryOK

\* Another time of reception of one version.
LEMMA RenewalKeeps ==
  ASSUME HistoryOK, Renewal, table' = table, time \in Nat, time' \in Nat, time' >= time
  PROVE  HistoryOK' /\ VersionsAreFrozen /\ ReceptionNeverGoesBack
<1> DEFINE n == Len(history)
<1>1. PICK i \in DOMAIN history, t \in 1 .. time :
        /\ table \notin Unlocked => i = n /\ t >= Current.received
        /\ history' = [history EXCEPT ![i].received = t]
  BY DEF Renewal
<1>2. /\ n \in Nat /\ DOMAIN history = 1 .. n
      /\ \A j \in 1 .. n : /\ history[j] \in FactRow
                           /\ history[j].from \in Nat \ {0} /\ history[j].received \in Nat \ {0}
  BY HistoryIsASequence DEF HistoryOK
<1>3. [history[i] EXCEPT !.received = t] \in FactRow
  <2>1. history[i] \in FactRow /\ t \in Nat \ {0}
    BY <1>1, <1>2
  <2> QED
    BY <2>1 DEF FactRow
<1>4. /\ history' \in Seq(FactRow) /\ Len(history') = n /\ DOMAIN history' = 1 .. n
      /\ \A j \in 1 .. n : history'[j] = IF j = i THEN [history[i] EXCEPT !.received = t] ELSE history[j]
  BY <1>1, <1>2, <1>3, RowReplaced, HistoryIsASequence DEF HistoryOK
<1>5. \A j \in 1 .. n :
        /\ history'[j].fact = history[j].fact /\ history'[j].from = history[j].from
        /\ history'[j].until = history[j].until /\ history'[j].final = history[j].final
        /\ history'[j].received = IF j = i THEN t ELSE history[j].received
  <2> TAKE j \in 1 .. n
  <2>1. history[j] \in FactRow /\ i \in 1 .. n /\ history[i] \in FactRow
    BY <1>2
  <2>2. history'[j] = IF j = i THEN [history[i] EXCEPT !.received = t] ELSE history[j]
    BY <1>4
  <2> QED
    BY <2>1, <2>2 DEF FactRow
<1> HIDE DEF n
<1>6. (\A j \in DOMAIN history : history[j].from <= time /\ history[j].received <= time)'
  BY <1>2, <1>4, <1>5 DEF HistoryOK
<1>7. OnlyBarsAreFinal'
  BY <1>2, <1>4, <1>5 DEF HistoryOK, OnlyBarsAreFinal
<1>8. table \notin Unlocked => i = n /\ t >= history[n].received
  BY <1>1 DEF Current, n
<1>9. BeginsFirst'
  <2> SUFFICES ASSUME table \notin Unlocked, NEW j \in 1 .. n
               PROVE  history'[j].from <= history'[j].received
    BY <1>4 DEF BeginsFirst, Unlocked
  <2>1. history[j].from <= history[j].received
    BY <1>2 DEF HistoryOK, BeginsFirst
  <2> QED
    BY <2>1, <1>2, <1>5, <1>8
<1>10. VersionsAreChained'
  <2>1. \A j \in 1 .. n : (history'[j].until = NotYet) <=> (j = n)
    BY <1>2, <1>5 DEF HistoryOK, VersionsAreChained, n
  <2>2. ASSUME table \notin Unlocked, NEW j \in 1 .. n - 1
        PROVE  history'[j].until = history'[j + 1].from /\ history'[j].received < history'[j + 1].from
    <3>1. j \in 1 .. n /\ j + 1 \in 1 .. n /\ j # n
      BY <1>2
    <3>2. history[j].until = history[j + 1].from /\ history[j].received < history[j + 1].from
      BY <2>2 DEF HistoryOK, VersionsAreChained, n
    <3> QED
      BY <2>2, <3>1, <3>2, <1>5, <1>8
  <2> QED
    BY <1>4, <2>1, <2>2 DEF VersionsAreChained, Unlocked
<1>11. VersionsAreFrozen
  BY <1>2, <1>4, <1>5 DEF VersionsAreFrozen
<1>12. ReceptionNeverGoesBack
  <2> SUFFICES ASSUME table \notin Unlocked, history # <<>>
               PROVE  history'[n].received >= history[n].received
    BY <1>4 DEF ReceptionNeverGoesBack, Current, n
  <2> QED
    BY <1>1, <1>2, <1>5, <1>8
<1> QED
  BY <1>4, <1>6, <1>7, <1>9, <1>10, <1>11, <1>12 DEF HistoryOK

\* A confirmation of the current version.
LEMMA FinalityKeeps ==
  ASSUME HistoryOK, Finality, table' = table, time \in Nat, time' \in Nat, time' >= time
  PROVE  HistoryOK' /\ VersionsAreFrozen /\ ReceptionNeverGoesBack
<1> DEFINE n == Len(history)
<1>1. history' = [history EXCEPT ![n].final = TRUE] /\ table \in Bars
  BY DEF Finality
<1>2. /\ n \in Nat /\ n \in 1 .. n /\ DOMAIN history = 1 .. n
      /\ \A j \in 1 .. n : /\ history[j] \in FactRow
                           /\ history[j].from \in Nat \ {0} /\ history[j].received \in Nat \ {0}
  BY HistoryIsASequence DEF HistoryOK, Finality
<1>3. [history[n] EXCEPT !.final = TRUE] \in FactRow
  BY <1>2 DEF FactRow
<1>4. /\ history' \in Seq(FactRow) /\ Len(history') = n /\ DOMAIN history' = 1 .. n
      /\ \A j \in 1 .. n : history'[j] = IF j = n THEN [history[n] EXCEPT !.final = TRUE] ELSE history[j]
  BY <1>1, <1>2, <1>3, RowReplaced, HistoryIsASequence DEF HistoryOK
<1>5. \A j \in 1 .. n :
        /\ history'[j].fact = history[j].fact /\ history'[j].from = history[j].from
        /\ history'[j].until = history[j].until /\ history'[j].received = history[j].received
        /\ history[j].final => history'[j].final
  <2> TAKE j \in 1 .. n
  <2>1. history[j] \in FactRow /\ history[n] \in FactRow
    BY <1>2
  <2>2. history'[j] = IF j = n THEN [history[n] EXCEPT !.final = TRUE] ELSE history[j]
    BY <1>4
  <2> QED
    BY <2>1, <2>2 DEF FactRow
<1> HIDE DEF n
<1>6. (\A j \in DOMAIN history : history[j].from <= time /\ history[j].received <= time)'
  BY <1>2, <1>4, <1>5 DEF HistoryOK
<1>7. OnlyBarsAreFinal' /\ BeginsFirst'
  BY <1>1, <1>2, <1>4, <1>5 DEF HistoryOK, OnlyBarsAreFinal, BeginsFirst, Bars, Unlocked
<1>8. VersionsAreChained'
  <2>1. \A j \in 1 .. n : (history'[j].until = NotYet) <=> (j = n)
    BY <1>2, <1>5 DEF HistoryOK, VersionsAreChained, n
  <2>2. ASSUME table \notin Unlocked, NEW j \in 1 .. n - 1
        PROVE  history'[j].until = history'[j + 1].from /\ history'[j].received < history'[j + 1].from
    <3>1. j \in 1 .. n /\ j + 1 \in 1 .. n
      BY <1>2
    <3>2. history[j].until = history[j + 1].from /\ history[j].received < history[j + 1].from
      BY <2>2 DEF HistoryOK, VersionsAreChained, n
    <3> QED
      BY <3>1, <3>2, <1>5
  <2> QED
    BY <1>4, <2>1, <2>2 DEF VersionsAreChained, Unlocked
<1>9. VersionsAreFrozen
  BY <1>2, <1>4, <1>5 DEF VersionsAreFrozen
<1>10. ReceptionNeverGoesBack
  BY <1>2, <1>4, <1>5 DEF ReceptionNeverGoesBack, Current, n
<1> QED
  BY <1>4, <1>6, <1>7, <1>8, <1>9, <1>10 DEF HistoryOK

-----------------------------------------------------------------------------
(* Every step changes a history in one of these ways.                    *)

\* A step leaves the table alone, and time passes.
LEMMA TimePasses ==
  ASSUME FactInv, [FactNext]_factVars
  PROVE  table' = table /\ time \in Nat /\ time' \in Nat /\ time' >= time
<1>1. time \in Nat
  BY DEF FactInv, FactTypes
<1>2. CASE FactTick
  BY <1>1, <1>2 DEF FactTick
<1>3. CASE UNCHANGED factVars
  BY <1>1, <1>3 DEF factVars
<1>4. ASSUME SourceChanges \/
             \E p \in FactCollectors :
               \/ BeginCollection(p) \/ FetchFact(p) \/ Backfill(p) \/ SaveLocked(p) \/ Pick(p)
               \/ SaveUnlocked(p) \/ Confirm(p) \/ Fails(p)
      PROVE  table' = table /\ time' = time
  BY <1>4 DEF SourceChanges, BeginCollection, FetchFact, Backfill, SaveLocked, Pick, SaveUnlocked, Confirm, Fails
<1> QED
  BY <1>1, <1>2, <1>3, <1>4 DEF FactNext

\* The current version is one of the stored ones.
LEMMA CurrentIsStored ==
  ASSUME HistoryOK, history # <<>>, time \in Nat
  PROVE  /\ Len(history) \in DOMAIN history /\ Current \in FactRow
         /\ Current.fact \in FactValues /\ Current.received \in 1 .. time /\ Current.final \in BOOLEAN
<1>1. /\ Len(history) \in 1 .. Len(history) /\ DOMAIN history = 1 .. Len(history)
      /\ \A i \in 1 .. Len(history) : /\ history[i] \in FactRow /\ history[i].fact \in FactValues
                                      /\ history[i].final \in BOOLEAN /\ history[i].received \in Nat \ {0}
  BY HistoryIsASequence DEF HistoryOK
<1>2. Current.received <= time
  BY <1>1 DEF HistoryOK, Current
<1> QED
  BY <1>1, <1>2 DEF Current

\* A save with a lock.
LEMMA SaveLockedMoves ==
  ASSUME FactInv, NEW p \in FactCollectors, SaveLocked(p)
  PROVE  HistoryStep
<1> DEFINE obs == work[p].seen
<1>1. obs \in Observations /\ table \notin Unlocked /\ obs.received \in 1 .. time /\ time \in Nat
  BY DEF FactInv, FactTypes, EntriesOK, EntryOK, SaveLocked, Observations, FactWork
<1>2. history' = Saved(obs)
  BY DEF SaveLocked
<1>3. CASE history = <<>>
  BY <1>1, <1>2, <1>3 DEF Saved, HistoryStep, FirstVersion
<1>4. CASE history # <<>> /\ Current.fact = obs.fact
  <2> DEFINE t == IF obs.received > Current.received THEN obs.received ELSE Current.received
  <2>1. Len(history) \in DOMAIN history /\ Current.received \in 1 .. time
    BY <1>1, <1>4, CurrentIsStored DEF FactInv
  <2>2. t \in 1 .. time /\ t >= Current.received
    BY <1>1, <2>1
  <2>3. history' = [history EXCEPT ![Len(history)].received = t]
    BY <1>2, <1>4 DEF Saved, Refreshed, Current
  <2> QED
    BY <2>1, <2>2, <2>3 DEF HistoryStep, Renewal
<1>5. CASE history # <<>> /\ Current.fact # obs.fact /\ IsLate(obs)
  BY <1>2, <1>5 DEF Saved, HistoryStep
<1>6. CASE history # <<>> /\ Current.fact # obs.fact /\ ~ IsLate(obs)
  <2>1. Current.received \in 1 .. time
    BY <1>1, <1>6, CurrentIsStored DEF FactInv
  <2>2. obs.received > Current.received
    BY <1>1, <1>6, <2>1 DEF IsLate
  <2>3. history' = Superseded(history, Len(history), obs)
    BY <1>2, <1>6 DEF Saved
  <2> QED
    BY <1>1, <1>6, <2>2, <2>3 DEF HistoryStep, NextVersion
<1> QED
  BY <1>3, <1>4, <1>5, <1>6

\* A save without one.
LEMMA SaveUnlockedMoves ==
  ASSUME FactInv, NEW p \in FactCollectors, SaveUnlocked(p)
  PROVE  HistoryStep
<1> DEFINE obs == work[p].seen
           i == work[p].picked
<1>1. /\ obs \in Observations /\ table \in Unlocked /\ obs.received \in 1 .. time
      /\ i \in Nat /\ i <= Len(history)
  BY DEF FactInv, FactTypes, EntriesOK, EntryOK, SaveUnlocked, Observations, FactWork
<1>2. Len(history) \in Nat /\ DOMAIN history = 1 .. Len(history) /\ (history # <<>> => Len(history) # 0)
  BY HistoryIsASequence DEF FactInv, HistoryOK
<1>3. CASE i > 0 /\ history[i].fact = obs.fact
  <2>1. history' = [history EXCEPT ![i].received = obs.received]
    BY <1>3 DEF SaveUnlocked
  <2>2. i \in DOMAIN history
    BY <1>1, <1>2, <1>3
  <2> QED
    BY <1>1, <2>1, <2>2 DEF HistoryStep, Renewal
<1>4. CASE ~ (i > 0 /\ history[i].fact = obs.fact) /\ IsTaken(i)
  BY <1>4 DEF SaveUnlocked, HistoryStep
<1>5. CASE ~ (i > 0 /\ history[i].fact = obs.fact) /\ ~ IsTaken(i)
  <2>1. history' = IF i = 0 THEN <<NewRow(obs)>> ELSE Superseded(history, i, obs)
    BY <1>5 DEF SaveUnlocked
  <2>2. i = Len(history)
    BY <1>1, <1>2, <1>5 DEF IsTaken
  <2>3. CASE i = 0
    BY <1>1, <1>2, <2>1, <2>2, <2>3 DEF HistoryStep, FirstVersion
  <2>4. CASE i # 0
    <3>1. history # <<>>
      BY <2>2, <2>4, HistoryIsASequence DEF FactInv, HistoryOK
    <3> QED
      BY <1>1, <2>1, <2>2, <2>4, <3>1 DEF HistoryStep, NextVersion
  <2> QED
    BY <2>3, <2>4
<1> QED
  BY <1>3, <1>4, <1>5

\* A confirmation.
LEMMA ConfirmMoves ==
  ASSUME FactInv, NEW p \in FactCollectors, Confirm(p)
  PROVE  HistoryStep
<1>1. table \in Bars /\ Len(history) > 0
  BY DEF FactInv, EntriesOK, EntryOK, Confirm
<1>2. history # <<>>
  BY <1>1, HistoryIsASequence DEF FactInv, HistoryOK
<1> QED
  BY <1>1, <1>2 DEF Confirm, HistoryStep, Finality

\* All steps.
LEMMA StepMovesHistory ==
  ASSUME FactInv, [FactNext]_factVars
  PROVE  HistoryStep
<1>1. CASE \E p \in FactCollectors : SaveLocked(p) \/ SaveUnlocked(p) \/ Confirm(p)
  BY <1>1, SaveLockedMoves, SaveUnlockedMoves, ConfirmMoves
<1>2. CASE \/ SourceChanges \/ FactTick \/ UNCHANGED factVars
           \/ \E p \in FactCollectors : BeginCollection(p) \/ FetchFact(p) \/ Backfill(p) \/ Pick(p) \/ Fails(p)
  BY <1>2 DEF SourceChanges, FactTick, factVars, BeginCollection, FetchFact, Backfill, Pick, Fails, HistoryStep
<1> QED
  BY <1>1, <1>2 DEF FactNext

\* What a step does to the versions.
LEMMA HistoryKeeps ==
  ASSUME FactInv, [FactNext]_factVars
  PROVE  HistoryOK' /\ VersionsAreFrozen /\ ReceptionNeverGoesBack
<1>1. table' = table /\ time \in Nat /\ time' \in Nat /\ time' >= time /\ HistoryOK
  BY TimePasses DEF FactInv
<1>2. CASE history' = history
  <2>1. DOMAIN history = 1 .. Len(history)
        /\ \A i \in 1 .. Len(history) : history[i].from \in Nat \ {0} /\ history[i].received \in Nat \ {0}
        /\ Len(history) \in Nat /\ (history # <<>> => Len(history) \in 1 .. Len(history))
    BY <1>1, HistoryIsASequence DEF HistoryOK
  <2>2. (\A i \in DOMAIN history : history[i].from <= time /\ history[i].received <= time)'
    BY <1>1, <1>2, <2>1 DEF HistoryOK
  <2>3. OnlyBarsAreFinal' /\ VersionsAreChained' /\ BeginsFirst'
    BY <1>1, <1>2 DEF HistoryOK, OnlyBarsAreFinal, VersionsAreChained, BeginsFirst, Unlocked, Bars
  <2>4. VersionsAreFrozen
    BY <1>2 DEF VersionsAreFrozen
  <2>5. ReceptionNeverGoesBack
    BY <1>2, <2>1 DEF ReceptionNeverGoesBack, Current
  <2> QED
    BY <1>1, <1>2, <2>2, <2>3, <2>4, <2>5 DEF HistoryOK
<1> QED
  BY <1>1, <1>2, StepMovesHistory, FirstVersionKeeps, NextVersionKeeps, RenewalKeeps, FinalityKeeps
  DEF HistoryStep

-----------------------------------------------------------------------------
(* What a process holds stays true while others go on.                   *)

\* Sightings are counted, never taken back.
LEMMA SightingsGrow ==
  ASSUME FactInv, [FactNext]_factVars
  PROVE  sightings' \in [FactValues -> 0 .. 2] /\ \A f \in FactValues : sightings'[f] >= sightings[f]
<1>1. sightings \in [FactValues -> 0 .. 2] /\ \A f \in FactValues : sightings[f] \in 0 .. 2
  BY DEF FactInv, FactTypes
<1>2. CASE sightings' = sightings
  BY <1>1, <1>2
<1>3. ASSUME NEW p \in FactCollectors, SaveLocked(p)
      PROVE  sightings' \in [FactValues -> 0 .. 2] /\ \A f \in FactValues : sightings'[f] >= sightings[f]
  <2>1. work[p].seen.fact \in FactValues
    BY <1>3 DEF FactInv, EntriesOK, EntryOK, SaveLocked
  <2>2. sightings' = sightings \/
        sightings' = [sightings EXCEPT ![work[p].seen.fact] = IF @ < 2 THEN @ + 1 ELSE @]
    BY <1>3 DEF SaveLocked, Counted
  <2>3. LET n == sightings[work[p].seen.fact] IN (IF n < 2 THEN n + 1 ELSE n) \in 0 .. 2 /\ (IF n < 2 THEN n + 1 ELSE n) >= n
    BY <1>1, <2>1
  <2> QED
    BY <1>1, <2>1, <2>2, <2>3
<1> QED
  BY <1>2, <1>3
  DEF FactNext, factVars, SourceChanges, FactTick, BeginCollection, FetchFact, Backfill, Pick, SaveUnlocked, Confirm, Fails

\* A history never gets shorter.
LEMMA HistoryGrows ==
  ASSUME FactInv, [FactNext]_factVars
  PROVE  Len(history) \in Nat /\ Len(history') \in Nat /\ Len(history') >= Len(history)
<1>1. HistoryOK /\ HistoryOK' /\ VersionsAreFrozen
  BY HistoryKeeps DEF FactInv
<1>2. Len(history) \in Nat /\ DOMAIN history = 1 .. Len(history)
  BY <1>1, HistoryIsASequence DEF HistoryOK
<1>3. Len(history') \in Nat /\ DOMAIN history' = 1 .. Len(history')
  BY <1>1, HistoryIsASequence DEF HistoryOK
<1>4. 1 .. Len(history) \subseteq 1 .. Len(history')
  BY <1>1, <1>2, <1>3 DEF VersionsAreFrozen
<1> QED
  BY <1>2, <1>3, <1>4

\* An entry that does not change stays true.
LEMMA EntryStays ==
  ASSUME NEW e, NEW tb, NEW now \in Nat, NEW n \in Nat, NEW s \in [FactValues -> 0 .. 2],
         NEW later \in Nat, NEW m \in Nat, NEW z \in [FactValues -> 0 .. 2],
         EntryOK(e, tb, now, n, s), later >= now, m >= n, \A f \in FactValues : z[f] >= s[f]
  PROVE  EntryOK(e, tb, later, m, z)
<1>1. /\ e \in FactWork /\ e.asked \in Nat /\ e.picked \in Nat /\ e.asked <= now /\ e.picked <= n
      /\ e.seen.received \in Nat /\ e.prior.received \in Nat
  BY DEF EntryOK, FactWork
<1>2. e.asked <= later /\ e.picked <= m
  BY <1>1
<1>3. \A t \in 1 .. now : t \in 1 .. later
  OBVIOUS
<1>4. \A f \in FactValues : z[f] \in 0 .. 2 /\ s[f] \in 0 .. 2
  OBVIOUS
<1>5. \A f \in FactValues : (s[f] >= 1 => z[f] >= 1) /\ (s[f] = 2 => z[f] = 2)
  BY <1>4
<1>6. e.prior # Missing =>
        /\ tb \in Bars /\ m > 0 /\ e.prior.fact \in FactValues /\ e.prior.received \in 1 .. later
        /\ Passed(tb, e.prior.received) => z[e.prior.fact] >= 1
  BY <1>3, <1>5 DEF EntryOK
<1>7. e.at \in {"save", "pick", "write", "confirm"} =>
        e.seen.fact \in FactValues /\ e.seen.received \in 1 .. later /\ e.asked <= e.seen.received
  BY <1>3 DEF EntryOK
<1>8. e.at = "confirm" =>
        /\ e.prior # Missing
        /\ Passed(tb, e.asked) /\ Passed(tb, e.prior.received) /\ e.prior.fact = e.seen.fact =>
             z[e.seen.fact] = 2
  BY <1>5, <1>7 DEF EntryOK
<1> QED
  BY <1>1, <1>2, <1>6, <1>7, <1>8 DEF EntryOK

\* A step in which one process turns to another entry.
LEMMA TurnKeeps ==
  ASSUME FactInv, [FactNext]_factVars, NEW p \in FactCollectors, NEW e, Turn(p, e),
         EntryOK(e, table', time', Len(history'), sightings')
  PROVE  work' \in [FactCollectors -> FactWork] /\ EntriesOK'
<1>1. work \in [FactCollectors -> FactWork] /\ e \in FactWork /\ work' = [work EXCEPT ![p] = e]
  BY DEF FactInv, FactTypes, EntryOK, Turn
<1>2. /\ time \in Nat /\ time' \in Nat /\ time' >= time /\ table' = table
      /\ sightings \in [FactValues -> 0 .. 2]
  BY TimePasses DEF FactInv, FactTypes
<1>3. /\ sightings' \in [FactValues -> 0 .. 2] /\ \A f \in FactValues : sightings'[f] >= sightings[f]
      /\ Len(history) \in Nat /\ Len(history') \in Nat /\ Len(history') >= Len(history)
  BY SightingsGrow, HistoryGrows
<1>4. ASSUME NEW q \in FactCollectors
      PROVE  EntryOK(work'[q], table', time', Len(history'), sightings')
  <2>1. CASE q = p
    BY <1>1, <2>1
  <2>2. CASE q # p
    <3>1. work'[q] = work[q] /\ EntryOK(work[q], table, time, Len(history), sightings)
      BY <1>1, <2>2 DEF FactInv, EntriesOK
    <3> QED
      BY <1>2, <1>3, <3>1, EntryStays
  <2> QED
    BY <2>1, <2>2
<1> QED
  BY <1>1, <1>4 DEF EntriesOK

\* A step in which none does.
LEMMA NoTurnKeeps ==
  ASSUME FactInv, [FactNext]_factVars, work' = work
  PROVE  work' \in [FactCollectors -> FactWork] /\ EntriesOK'
<1>1. /\ time \in Nat /\ time' \in Nat /\ time' >= time /\ table' = table
      /\ sightings \in [FactValues -> 0 .. 2] /\ work \in [FactCollectors -> FactWork]
  BY TimePasses DEF FactInv, FactTypes
<1>2. /\ sightings' \in [FactValues -> 0 .. 2] /\ \A f \in FactValues : sightings'[f] >= sightings[f]
      /\ Len(history) \in Nat /\ Len(history') \in Nat /\ Len(history') >= Len(history)
  BY SightingsGrow, HistoryGrows
<1>3. ASSUME NEW q \in FactCollectors
      PROVE  EntryOK(work[q], table', time', Len(history'), sightings')
  <2>1. EntryOK(work[q], table, time, Len(history), sightings)
    BY DEF FactInv, EntriesOK
  <2> QED
    BY <1>1, <1>2, <2>1, EntryStays
<1> QED
  BY <1>1, <1>3 DEF EntriesOK

\* An entry whose process stands elsewhere.
LEMMA EntryMoved ==
  ASSUME NEW w \in FactWork, NEW a \in {"idle", "fetch", "save", "pick", "write", "confirm"}
  PROVE  LET e == [w EXCEPT !.at = a] IN
           /\ e \in FactWork /\ e.at = a /\ e.asked = w.asked /\ e.prior = w.prior
           /\ e.seen = w.seen /\ e.picked = w.picked
BY DEF FactWork

\* An entry whose process saw something else.
LEMMA EntrySaw ==
  ASSUME NEW w \in FactWork, NEW obs \in [fact : FactValues \cup {"none"}, received : Nat]
  PROVE  LET e == [w EXCEPT !.seen = obs] IN
           /\ e \in FactWork /\ e.at = w.at /\ e.asked = w.asked /\ e.prior = w.prior
           /\ e.seen = obs /\ e.picked = w.picked
BY DEF FactWork

\* An entry whose process picked another version.
LEMMA EntryPicked ==
  ASSUME NEW w \in FactWork, NEW i \in Nat
  PROVE  LET e == [w EXCEPT !.picked = i] IN
           /\ e \in FactWork /\ e.at = w.at /\ e.asked = w.asked /\ e.prior = w.prior
           /\ e.seen = w.seen /\ e.picked = i
BY DEF FactWork

\* A process at rest.
LEMMA RestIsOK ==
  ASSUME NEW tb, NEW now \in Nat, NEW n \in Nat, NEW s
  PROVE  EntryOK(Resting, tb, now, n, s)
BY DEF EntryOK, Resting, FactWork, Missing, Unseen, NotYet

-----------------------------------------------------------------------------
(* The steps of a collection.                                            *)

\* A run begins with the version that stands.
LEMMA BeginKeeps ==
  ASSUME FactInv, NEW p \in FactCollectors, BeginCollection(p)
  PROVE  work' \in [FactCollectors -> FactWork] /\ EntriesOK'
<1>1. PICK prior \in (IF table = "minute_bar" THEN {} ELSE {Missing}) \cup
                     (IF table \in Bars THEN {PriorVersion} ELSE {}) :
        Turn(p, [Resting EXCEPT !.at = "fetch", !.asked = time, !.prior = prior])
  BY DEF BeginCollection
<1> DEFINE e == [Resting EXCEPT !.at = "fetch", !.asked = time, !.prior = prior]
<1>2. /\ e.at = "fetch" /\ e.asked = time /\ e.prior = prior /\ e.seen = Unseen /\ e.picked = 0
      /\ Turn(p, e)
  BY <1>1 DEF Resting
<1>3. UNCHANGED <<table, time, history, sightings>> /\ time \in Nat /\ Len(history) \in Nat
  BY HistoryIsASequence DEF BeginCollection, FactInv, FactTypes, HistoryOK
<1>4. ASSUME prior = Missing PROVE EntryOK(e, table, time, Len(history), sightings)
  <2>1. e \in FactWork
    BY <1>3, <1>4 DEF FactWork, Resting, Missing, Unseen, NotYet
  <2> HIDE DEF e
  <2> QED
    BY <1>2, <1>3, <1>4, <2>1 DEF EntryOK
<1>5. ASSUME prior # Missing PROVE EntryOK(e, table, time, Len(history), sightings)
  <2>1. table \in Bars /\ prior = PriorVersion /\ history # <<>>
    BY <1>5 DEF PriorVersion
  <2>2. prior = [fact |-> Current.fact, received |-> Current.received, final |-> Current.final]
    BY <2>1 DEF PriorVersion
  <2>3. /\ Len(history) \in DOMAIN history /\ Current.fact \in FactValues
        /\ Current.received \in 1 .. time /\ Current.final \in BOOLEAN /\ Len(history) > 0
    BY <1>3, <2>1, CurrentIsStored, HistoryIsASequence DEF FactInv, HistoryOK
  <2>4. AfterEnd(Current.received) => sightings[Current.fact] >= 1
    BY <2>1, <2>3 DEF FactInv, RowsSighted, Current
  <2>5. Passed(table, prior.received) => sightings[prior.fact] >= 1
    BY <2>2, <2>4 DEF AfterEnd, Passed
  <2>6. /\ prior.fact \in FactValues /\ prior.received \in 1 .. time
        /\ prior \in [fact : FactValues \cup {"none"}, received : Nat, final : BOOLEAN]
    BY <2>2, <2>3
  <2>7. e \in FactWork
    BY <1>3, <2>6 DEF FactWork, Resting, Missing, Unseen, NotYet
  <2> HIDE DEF e
  <2> QED
    BY <1>2, <1>3, <2>1, <2>3, <2>5, <2>6, <2>7 DEF EntryOK
<1>6. EntryOK(e, table', time', Len(history'), sightings')
  BY <1>3, <1>4, <1>5
<1>7. [FactNext]_factVars
  BY DEF FactNext
<1> HIDE DEF e
<1> QED
  BY <1>2, <1>6, <1>7, TurnKeeps

\* The answer of the source.
LEMMA FetchKeeps ==
  ASSUME FactInv, NEW p \in FactCollectors, FetchFact(p)
  PROVE  work' \in [FactCollectors -> FactWork] /\ EntriesOK'
<1> DEFINE old == work[p]
           w == [work[p] EXCEPT !.at = IF table \in Unlocked THEN "pick" ELSE "save"]
           obs == [fact |-> says, received |-> time]
           e == [w EXCEPT !.seen = obs]
<1>1. /\ old \in FactWork /\ EntryOK(old, table, time, Len(history), sightings)
      /\ time \in Nat \ {0} /\ says \in FactValues /\ time \in 1 .. time
  BY DEF FactInv, FactTypes, EntriesOK
<1>2. UNCHANGED <<table, time, history, sightings>> /\ Len(history) \in Nat
  BY HistoryIsASequence DEF FetchFact, FactInv, HistoryOK
<1>3. Turn(p, e)
  BY DEF FetchFact, GoOnTo
<1>4. /\ w \in FactWork /\ w.at = (IF table \in Unlocked THEN "pick" ELSE "save")
      /\ w.asked = old.asked /\ w.prior = old.prior /\ w.picked = old.picked
  <2>1. (IF table \in Unlocked THEN "pick" ELSE "save") \in {"idle", "fetch", "save", "pick", "write", "confirm"}
    OBVIOUS
  <2> QED
    BY <1>1, <2>1, EntryMoved
<1>5. obs \in [fact : FactValues \cup {"none"}, received : Nat] /\ obs.fact = says /\ obs.received = time
  BY <1>1
<1> HIDE DEF w, obs
<1>6. /\ e \in FactWork /\ e.at = (IF table \in Unlocked THEN "pick" ELSE "save") /\ e.seen = obs
      /\ e.asked = old.asked /\ e.prior = old.prior /\ e.picked = old.picked
  BY <1>4, <1>5, EntrySaw
<1> HIDE DEF e
<1>7. EntryOK(e, table, time, Len(history), sightings)
  BY <1>1, <1>5, <1>6 DEF EntryOK
<1>8. [FactNext]_factVars
  BY DEF FactNext
<1> QED
  BY <1>2, <1>3, <1>7, <1>8, TurnKeeps

\* A backfill has its observation from the stored snapshot.
LEMMA BackfillKeeps ==
  ASSUME FactInv, NEW p \in FactCollectors, Backfill(p)
  PROVE  work' \in [FactCollectors -> FactWork] /\ EntriesOK'
<1> DEFINE e == [Resting EXCEPT !.at = "pick", !.seen = snapshot]
<1>1. /\ snapshot \in [fact : FactValues \cup {"none"}, received : Nat] /\ time \in Nat
      /\ snapshot.fact \in FactValues /\ snapshot.received \in 1 .. time /\ table \in Unlocked
  BY DEF FactInv, FactTypes, Backfill, Unlocked
<1>2. UNCHANGED <<table, time, history, sightings>> /\ Len(history) \in Nat
  BY HistoryIsASequence DEF Backfill, FactInv, HistoryOK
<1>3. Turn(p, e)
  BY DEF Backfill
<1>4. e.at = "pick" /\ e.asked = 0 /\ e.prior = Missing /\ e.seen = snapshot /\ e.picked = 0
  BY DEF Resting, NotYet
<1>5. e \in FactWork
  BY <1>1 DEF FactWork, Resting, Missing, Unseen, NotYet
<1> HIDE DEF e
<1>6. EntryOK(e, table, time, Len(history), sightings)
  BY <1>1, <1>2, <1>4, <1>5 DEF EntryOK
<1>7. [FactNext]_factVars
  BY DEF FactNext
<1> QED
  BY <1>2, <1>3, <1>6, <1>7, TurnKeeps

\* The version that is to be written over is picked.
LEMMA PickKeeps ==
  ASSUME FactInv, NEW p \in FactCollectors, Pick(p)
  PROVE  work' \in [FactCollectors -> FactWork] /\ EntriesOK'
<1> DEFINE old == work[p]
           w == [work[p] EXCEPT !.at = "write"]
           e == [w EXCEPT !.picked = Len(history)]
<1>1. old \in FactWork /\ EntryOK(old, table, time, Len(history), sightings) /\ old.at = "pick"
  BY DEF FactInv, FactTypes, EntriesOK, Pick
<1>2. UNCHANGED <<table, time, history, sightings>> /\ Len(history) \in Nat
  BY HistoryIsASequence DEF Pick, FactInv, HistoryOK
<1>3. Turn(p, e)
  BY DEF Pick, GoOnTo
<1>4. /\ w \in FactWork /\ w.at = "write" /\ w.asked = old.asked /\ w.prior = old.prior
      /\ w.seen = old.seen
  BY <1>1, EntryMoved
<1> HIDE DEF w
<1>5. /\ e \in FactWork /\ e.at = "write" /\ e.asked = old.asked /\ e.prior = old.prior
      /\ e.seen = old.seen /\ e.picked = Len(history)
  BY <1>2, <1>4, EntryPicked
<1> HIDE DEF e
<1>6. EntryOK(e, table, time, Len(history), sightings)
  BY <1>1, <1>2, <1>5 DEF EntryOK
<1>7. [FactNext]_factVars
  BY DEF FactNext
<1> QED
  BY <1>2, <1>3, <1>6, <1>7, TurnKeeps

\* Steps after which the process rests.
LEMMA EndKeeps ==
  ASSUME FactInv, NEW p \in FactCollectors, SaveUnlocked(p) \/ Confirm(p) \/ Fails(p)
  PROVE  work' \in [FactCollectors -> FactWork] /\ EntriesOK'
<1>1. Turn(p, Resting)
  BY DEF SaveUnlocked, Confirm, Fails
<1>2. [FactNext]_factVars
  BY DEF FactNext
<1>3. time' \in Nat /\ Len(history') \in Nat
  BY <1>2, TimePasses, HistoryGrows
<1> QED
  BY <1>1, <1>2, <1>3, RestIsOK, TurnKeeps

\* A save that a confirmation follows has counted what the confirmation needs.
LEMMA SaveKeeps ==
  ASSUME FactInv, NEW p \in FactCollectors, SaveLocked(p)
  PROVE  work' \in [FactCollectors -> FactWork] /\ EntriesOK'
<1> DEFINE old == work[p]
           obs == work[p].seen
           e == [work[p] EXCEPT !.at = "confirm"]
<1>1. [FactNext]_factVars
  BY DEF FactNext
<1>2. time' \in Nat /\ Len(history') \in Nat /\ Len(history) \in Nat /\ Len(history') >= Len(history)
  BY <1>1, TimePasses, HistoryGrows
<1>3. old \in FactWork /\ EntryOK(old, table, time, Len(history), sightings) /\ old.at = "save"
  BY DEF FactInv, FactTypes, EntriesOK, SaveLocked
<1>4. CASE ~ (Confirms(p) /\ ~ IsRefused(obs))
  <2>1. Turn(p, Resting)
    BY <1>4 DEF SaveLocked
  <2> QED
    BY <1>1, <1>2, <2>1, RestIsOK, TurnKeeps
<1>5. CASE Confirms(p) /\ ~ IsRefused(obs)
  <2>1. Turn(p, e)
    BY <1>5 DEF SaveLocked, GoOnTo
  <2>2. UNCHANGED <<table, time>> /\ sightings' = Counted(obs)
    BY DEF SaveLocked
  <2>3. /\ old.prior # Missing /\ table \in Bars /\ obs.fact \in FactValues
        /\ old.asked <= obs.received /\ old.asked \in Nat /\ obs.received \in Nat
    BY <1>3, <1>5 DEF EntryOK, Confirms, FactWork
  <2>4. sightings \in [FactValues -> 0 .. 2] /\ sightings[obs.fact] \in 0 .. 2
        /\ sightings' \in [FactValues -> 0 .. 2] /\ \A f \in FactValues : sightings'[f] >= sightings[f]
    BY <1>1, <2>3, SightingsGrow DEF FactInv, FactTypes
  <2>5. EntryOK(old, table, time, Len(history'), sightings')
    <3>1. time \in Nat /\ time >= time
      BY DEF FactInv, FactTypes
    <3> QED
      BY <1>2, <1>3, <2>4, <3>1, EntryStays
  <2>6. ASSUME Passed(table, old.asked), Passed(table, old.prior.received), old.prior.fact = obs.fact
        PROVE  sightings'[obs.fact] = 2
    <3>1. AfterEnd(obs.received)
      <4>1. IntervalEnd \in Nat
        BY FactAssumption
      <4> QED
        BY <2>3, <2>6, <4>1 DEF AfterEnd, Passed
    <3>2. ~ IsDropped(obs)
      BY <2>3 DEF IsDropped, Bars, DropLate
    <3>3. sightings' = [sightings EXCEPT ![obs.fact] = IF @ < 2 THEN @ + 1 ELSE @]
      BY <1>5, <2>2, <3>1, <3>2 DEF Counted
    <3>4. sightings[obs.fact] >= 1
      BY <1>3, <2>3, <2>6 DEF EntryOK
    <3> QED
      BY <2>3, <2>4, <3>3, <3>4
  <2>7. /\ e \in FactWork /\ e.at = "confirm" /\ e.asked = old.asked /\ e.prior = old.prior
        /\ e.seen = old.seen /\ e.picked = old.picked
    BY <1>3, EntryMoved
  <2>8. EntryOK(e, table, time, Len(history'), sightings')
    <3> HIDE DEF e
    <3> QED
      BY <1>3, <2>3, <2>5, <2>6, <2>7 DEF EntryOK
  <2> HIDE DEF e
  <2> QED
    BY <1>1, <2>1, <2>2, <2>8, TurnKeeps
<1> QED
  BY <1>4, <1>5

\* All steps.
LEMMA EntriesKept ==
  ASSUME FactInv, [FactNext]_factVars
  PROVE  work' \in [FactCollectors -> FactWork] /\ EntriesOK'
<1>1. CASE SourceChanges \/ FactTick \/ UNCHANGED factVars
  <2>1. work' = work
    BY <1>1 DEF SourceChanges, FactTick, factVars
  <2> QED
    BY <2>1, NoTurnKeeps
<1> QED
  BY <1>1, BeginKeeps, FetchKeeps, BackfillKeeps, PickKeeps, EndKeeps, SaveKeeps DEF FactNext

-----------------------------------------------------------------------------
(* Sightings of the versions.                                            *)

\* What a save with a lock leaves in the table: the versions that were there, as they
\* were but for their ends, and what it saw.
LEMMA SavedRows ==
  ASSUME FactInv, NEW p \in FactCollectors, SaveLocked(p), NEW j \in DOMAIN history'
  PROVE  \/ /\ j \in DOMAIN history /\ history'[j].fact = history[j].fact
            /\ history'[j].received = history[j].received /\ history'[j].final = history[j].final
         \/ /\ history'[j].fact = work[p].seen.fact /\ history'[j].received = work[p].seen.received
            /\ ~ IsRefused(work[p].seen)
            /\ history'[j].final =>
                 j \in DOMAIN history /\ history[j].final /\ history[j].fact = history'[j].fact
<1> DEFINE obs == work[p].seen
           n == Len(history)
<1>1. obs \in [fact : FactValues, received : Nat \ {0}] /\ table \notin Unlocked /\ time \in Nat
  BY DEF FactInv, FactTypes, EntriesOK, EntryOK, SaveLocked, FactWork
<1>2. history' = Saved(obs) /\ history \in Seq(FactRow)
  BY DEF SaveLocked, FactInv, HistoryOK
<1>3. /\ n \in Nat /\ DOMAIN history = 1 .. n /\ (history # <<>> => n \in 1 .. n)
      /\ \A i \in 1 .. n : history[i] \in FactRow
  BY <1>2, HistoryIsASequence
<1>4. CASE history = <<>>
  <2>1. history' = <<NewRow(obs)>>
    BY <1>2, <1>4 DEF Saved
  <2>2. j = 1 /\ history'[1] = NewRow(obs)
    BY <2>1
  <2> QED
    BY <1>4, <2>2 DEF NewRow, IsRefused
<1>5. CASE history # <<>> /\ Current.fact = obs.fact
  <2> DEFINE t == IF obs.received > Current.received THEN obs.received ELSE Current.received
             row == [history[n] EXCEPT !.received = t]
  <2>1. history' = [history EXCEPT ![n] = row]
    BY <1>2, <1>5 DEF Saved, Refreshed, Current
  <2>2. history[n] \in FactRow /\ Current = history[n] /\ j \in 1 .. n
    BY <1>3, <1>5, <2>1 DEF Current
  <2>3. row.fact = history[n].fact /\ row.final = history[n].final /\ row.received = t
    BY <2>2 DEF FactRow
  <2>4. history'[j] = IF j = n THEN row ELSE history[j]
    BY <1>3, <2>1, <2>2
  <2>5. ~ IsRefused(obs)
    BY <1>5 DEF IsRefused
  <2> HIDE DEF row
  <2> QED
    BY <1>3, <1>5, <2>2, <2>3, <2>4, <2>5
<1>6. CASE history # <<>> /\ Current.fact # obs.fact /\ IsLate(obs)
  BY <1>2, <1>6 DEF Saved
<1>7. CASE history # <<>> /\ Current.fact # obs.fact /\ ~ IsLate(obs)
  <2>1. history' = Superseded(history, n, obs)
    BY <1>2, <1>7 DEF Saved
  <2>2. n \in 1 .. Len(history)
    BY <1>3, <1>7
  <2>3. /\ history' \in Seq(FactRow) /\ Len(history') = n + 1
        /\ \A i \in 1 .. n : history'[i] = IF i = n THEN [history[n] EXCEPT !.until = obs.received] ELSE history[i]
        /\ history'[n + 1] = NewRow(obs)
    <3> HIDE DEF obs
    <3> QED
      BY <1>1, <1>2, <2>1, <2>2, VersionAdded
  <2>4. j \in 1 .. n \/ j = n + 1
    BY <1>3, <2>3, HistoryIsASequence
  <2>5. CASE j \in 1 .. n
    <3>1. history[j] \in FactRow /\ history[n] \in FactRow
      BY <1>3, <2>2, <2>5
    <3>2. history'[j] = IF j = n THEN [history[n] EXCEPT !.until = obs.received] ELSE history[j]
      BY <2>3, <2>5
    <3> QED
      BY <1>3, <2>5, <3>1, <3>2 DEF FactRow
  <2>6. CASE j = n + 1
    BY <1>7, <2>3, <2>6 DEF NewRow, IsRefused
  <2> QED
    BY <2>4, <2>5, <2>6
<1> QED
  BY <1>4, <1>5, <1>6, <1>7

\* A save counts what it stores.
LEMMA SaveCounts ==
  ASSUME FactInv, NEW p \in FactCollectors, SaveLocked(p), table \in Bars,
         ~ IsRefused(work[p].seen), AfterEnd(work[p].seen.received)
  PROVE  sightings'[work[p].seen.fact] >= 1
<1> DEFINE f == work[p].seen.fact
<1>1. f \in FactValues /\ sightings \in [FactValues -> 0 .. 2] /\ sightings[f] \in 0 .. 2
  BY DEF FactInv, FactTypes, EntriesOK, EntryOK, SaveLocked
<1>2. ~ IsDropped(work[p].seen)
  BY DEF IsDropped, Bars, DropLate
<1>3. sightings' = [sightings EXCEPT ![f] = IF @ < 2 THEN @ + 1 ELSE @]
  BY <1>2 DEF SaveLocked, Counted
<1> QED
  BY <1>1, <1>3

\* A step that stores nothing.
LEMMA NoChangeCounts ==
  ASSUME FactInv, [FactNext]_factVars, history' = history
  PROVE  RowsSighted' /\ ConfirmedWasSeenTwice'
<1>1. /\ table' = table /\ sightings' \in [FactValues -> 0 .. 2]
      /\ \A f \in FactValues : sightings'[f] >= sightings[f]
  BY TimePasses, SightingsGrow
<1>2. \A i \in DOMAIN history : history[i].fact \in FactValues
  BY HistoryIsASequence DEF FactInv, HistoryOK
<1>3. \A f \in FactValues : sightings[f] \in 0 .. 2 /\ sightings'[f] \in 0 .. 2
  BY <1>1 DEF FactInv, FactTypes
<1>4. \A f \in FactValues : (sightings[f] >= 1 => sightings'[f] >= 1) /\ (sightings[f] = 2 => sightings'[f] = 2)
  BY <1>1, <1>3
<1> QED
  BY <1>1, <1>2, <1>4 DEF FactInv, RowsSighted, ConfirmedWasSeenTwice, AfterEnd

\* A save.
LEMMA SaveSights ==
  ASSUME FactInv, NEW p \in FactCollectors, SaveLocked(p), table \in Bars
  PROVE  RowsSighted' /\ ConfirmedWasSeenTwice'
<1> DEFINE obs == work[p].seen
<1>1. [FactNext]_factVars
  BY DEF FactNext
<1>2. /\ table' = table /\ sightings' \in [FactValues -> 0 .. 2]
      /\ \A f \in FactValues : sightings'[f] >= sightings[f]
  BY <1>1, TimePasses, SightingsGrow
<1>3. \A f \in FactValues : sightings[f] \in 0 .. 2 /\ sightings'[f] \in 0 .. 2
  BY <1>2 DEF FactInv, FactTypes
<1>4. \A f \in FactValues : (sightings[f] >= 1 => sightings'[f] >= 1) /\ (sightings[f] = 2 => sightings'[f] = 2)
  BY <1>2, <1>3
<1>5. \A i \in DOMAIN history : history[i].fact \in FactValues
  BY HistoryIsASequence DEF FactInv, HistoryOK
<1>6. ASSUME NEW j \in DOMAIN history', AfterEnd(history'[j].received)
      PROVE  sightings'[history'[j].fact] >= 1
  <2>1. CASE /\ j \in DOMAIN history /\ history'[j].fact = history[j].fact
             /\ history'[j].received = history[j].received
    BY <1>4, <1>5, <1>6, <2>1 DEF FactInv, RowsSighted
  <2>2. CASE /\ history'[j].fact = obs.fact /\ history'[j].received = obs.received /\ ~ IsRefused(obs)
    BY <1>6, <2>2, SaveCounts
  <2> QED
    BY <2>1, <2>2, SavedRows
<1>7. ASSUME NEW j \in DOMAIN history', history'[j].final
      PROVE  sightings'[history'[j].fact] = 2
  <2>1. j \in DOMAIN history /\ history[j].final /\ history[j].fact = history'[j].fact
    BY <1>7, SavedRows
  <2> QED
    BY <1>4, <1>5, <2>1 DEF FactInv, ConfirmedWasSeenTwice
<1> QED
  BY <1>2, <1>6, <1>7 DEF RowsSighted, ConfirmedWasSeenTwice, AfterEnd

\* A confirmation.
LEMMA ConfirmSights ==
  ASSUME FactInv, NEW p \in FactCollectors, Confirm(p)
  PROVE  RowsSighted' /\ ConfirmedWasSeenTwice'
<1>1. [FactNext]_factVars /\ UNCHANGED <<table, sightings>>
  BY DEF FactNext, Confirm
<1>2. CASE history' = history
  BY <1>1, <1>2, NoChangeCounts
<1>3. CASE /\ IsFinalEvidence(p) /\ StillSays(work[p].seen)
           /\ history' = [history EXCEPT ![Len(history)].final = TRUE]
  <2> DEFINE n == Len(history)
             row == [history[n] EXCEPT !.final = TRUE]
  <2>1. EntryOK(work[p], table, time, n, sightings) /\ work[p].at = "confirm"
    BY DEF FactInv, EntriesOK, Confirm
  <2>2. sightings[work[p].seen.fact] = 2
    BY <1>3, <2>1 DEF EntryOK, IsFinalEvidence, AfterEnd, Passed
  <2>3. n > 0 /\ history \in Seq(FactRow)
    BY <2>1 DEF EntryOK, FactInv, HistoryOK
  <2>4. n \in 1 .. n /\ DOMAIN history = 1 .. n /\ \A i \in 1 .. n : history[i] \in FactRow
    BY <2>3, HistoryIsASequence
  <2>5. row.fact = history[n].fact /\ row.received = history[n].received
    BY <2>4 DEF FactRow
  <2>6. DOMAIN history' = 1 .. n /\ \A i \in 1 .. n : history'[i] = IF i = n THEN row ELSE history[i]
    BY <1>3, <2>4
  <2> HIDE DEF row
  <2>7. history[n].fact = work[p].seen.fact
    BY <1>3 DEF StillSays, Current
  <2> HIDE DEF n
  <2>8. RowsSighted'
    BY <1>1, <2>4, <2>5, <2>6 DEF FactInv, RowsSighted, AfterEnd
  <2>9. ConfirmedWasSeenTwice'
    BY <1>1, <2>2, <2>4, <2>5, <2>6, <2>7 DEF FactInv, ConfirmedWasSeenTwice
  <2> QED
    BY <2>8, <2>9
<1> QED
  BY <1>2, <1>3 DEF Confirm

\* All steps.
LEMMA SightingsKept ==
  ASSUME FactInv, [FactNext]_factVars
  PROVE  RowsSighted' /\ ConfirmedWasSeenTwice'
<1>1. CASE table \notin Bars
  <2>1. table' = table /\ OnlyBarsAreFinal'
    BY TimePasses, HistoryKeeps DEF HistoryOK
  <2>2. \A i \in DOMAIN history' : ~ history'[i].final
    BY <1>1, <2>1 DEF OnlyBarsAreFinal, Bars
  <2> QED
    BY <1>1, <2>1, <2>2 DEF RowsSighted, ConfirmedWasSeenTwice, Bars
<1>2. CASE table \in Bars
  <2>1. ASSUME NEW p \in FactCollectors PROVE ~ SaveUnlocked(p)
    BY <1>2 DEF FactInv, EntriesOK, EntryOK, SaveUnlocked, Bars, Unlocked
  <2>2. CASE \E p \in FactCollectors : SaveLocked(p) \/ Confirm(p)
    BY <1>2, <2>2, SaveSights, ConfirmSights
  <2>3. CASE \/ SourceChanges \/ FactTick \/ UNCHANGED factVars
             \/ \E p \in FactCollectors : BeginCollection(p) \/ FetchFact(p) \/ Backfill(p) \/ Pick(p) \/ Fails(p)
    <3>1. history' = history
      BY <2>3 DEF SourceChanges, FactTick, factVars, BeginCollection, FetchFact, Backfill, Pick, Fails
    <3> QED
      BY <3>1, NoChangeCounts
  <2> QED
    BY <2>1, <2>2, <2>3 DEF FactNext
<1> QED
  BY <1>1, <1>2

-----------------------------------------------------------------------------
(* The versions of a fact.                                               *)

\* The snapshot of an ETF is what a save without a lock saw.
LEMMA SnapshotKept ==
  ASSUME FactInv, [FactNext]_factVars
  PROVE  /\ snapshot' \in [fact : FactValues \cup {"none"}, received : Nat]
         /\ snapshot' # Unseen => snapshot'.fact \in FactValues /\ snapshot'.received \in 1 .. time'
<1>1. time \in Nat /\ time' \in Nat /\ time' >= time
  BY TimePasses
<1>2. \A t \in 1 .. time : t \in 1 .. time'
  BY <1>1
<1>3. CASE snapshot' = snapshot
  BY <1>2, <1>3 DEF FactInv, FactTypes
<1>4. ASSUME NEW p \in FactCollectors, SaveUnlocked(p), snapshot' = work[p].seen
      PROVE  /\ snapshot' \in [fact : FactValues \cup {"none"}, received : Nat]
             /\ snapshot'.fact \in FactValues /\ snapshot'.received \in 1 .. time'
  <2>1. EntryOK(work[p], table, time, Len(history), sightings) /\ work[p].at = "write" /\ work[p] \in FactWork
    BY <1>4 DEF FactInv, FactTypes, EntriesOK, SaveUnlocked
  <2> QED
    BY <1>2, <1>4, <2>1 DEF EntryOK, FactWork
<1>5. ASSUME NEW p \in FactCollectors, SaveUnlocked(p)
      PROVE  snapshot' = snapshot \/ snapshot' = work[p].seen
  BY <1>5 DEF SaveUnlocked
<1>6. CASE \/ SourceChanges \/ FactTick \/ UNCHANGED factVars
           \/ \E p \in FactCollectors : BeginCollection(p) \/ FetchFact(p) \/ Backfill(p) \/ SaveLocked(p)
                                        \/ Pick(p) \/ Confirm(p) \/ Fails(p)
  <2>1. snapshot' = snapshot
    BY <1>6 DEF SourceChanges, FactTick, factVars, BeginCollection, FetchFact, Backfill, SaveLocked, Pick, Confirm, Fails
  <2> QED
    BY <1>3, <2>1
<1> QED
  BY <1>3, <1>4, <1>5, <1>6 DEF FactNext

\* The invariant holds initially.
LEMMA FactInitOK == FactInit => FactInv
<1> SUFFICES ASSUME FactInit PROVE FactInv
  OBVIOUS
<1>1. history = <<>> /\ history \in Seq(FactRow) /\ DOMAIN history = {} /\ Len(history) = 0
  BY DEF FactInit
<1>2. Resting \in FactWork
  BY DEF Resting, FactWork, Missing, Unseen, NotYet
<1>3. FactTypes
  BY <1>2 DEF FactInit, FactTypes, Unseen, NotYet
<1>4. HistoryOK
  BY <1>1 DEF HistoryOK, OnlyBarsAreFinal, VersionsAreChained, BeginsFirst
<1>5. EntriesOK
  <2>1. time \in Nat /\ Len(history) \in Nat
    BY <1>1 DEF FactInit
  <2>2. \A p \in FactCollectors : work[p] = Resting
    BY DEF FactInit
  <2> QED
    BY <2>1, <2>2, RestIsOK DEF EntriesOK
<1>6. RowsSighted /\ ConfirmedWasSeenTwice
  BY <1>1 DEF RowsSighted, ConfirmedWasSeenTwice
<1> QED
  BY <1>3, <1>4, <1>5, <1>6 DEF FactInv

\* Every step keeps it.
LEMMA FactStepOK == FactInv /\ [FactNext]_factVars => FactInv'
<1> SUFFICES ASSUME FactInv, [FactNext]_factVars PROVE FactInv'
  OBVIOUS
<1>1. says' \in FactValues
  BY DEF FactInv, FactTypes, FactNext, factVars, SourceChanges, FactTick, BeginCollection, FetchFact, Backfill,
         SaveLocked, Pick, SaveUnlocked, Confirm, Fails
<1>2. table' \in Tables /\ time' \in Nat \ {0}
  <2>1. time \in Nat \ {0} /\ table \in Tables
    BY DEF FactInv, FactTypes
  <2>2. time' \in Nat /\ time' >= time /\ table' = table
    BY TimePasses
  <2>3. time' # 0
    BY <2>1, <2>2
  <2>4. table' \in {"daily_bar", "minute_bar", "flow", "profile", "listed_shares", "etf_index"}
    BY <2>1, <2>2 DEF Tables, Bars, DropLate, Unlocked
  <2> QED
    BY <2>2, <2>3, <2>4 DEF Tables, Bars, DropLate, Unlocked
<1>3. FactTypes'
  BY <1>1, <1>2, SightingsGrow, EntriesKept, SnapshotKept DEF FactTypes, Tables, Bars, DropLate, Unlocked, Unseen, NotYet
<1> QED
  BY <1>3, HistoryKeeps, EntriesKept, SightingsKept DEF FactInv

\* The history of a fact keeps its promises for any number of processes that collect it,
\* in any of the tables, and however what they saw is stored out of order: each version
\* begins where the one before it ended, later than that one began; a confirmed bar was
\* seen twice after its interval; no version changes afterwards, nor does the time at
\* which the current one was seen go back.
THEOREM VersionsCorrect == FactSpec => VersionsContract
<1>1. FactSpec => []FactInv
  BY FactInitOK, FactStepOK, PTL DEF FactSpec
<1>2. FactInv => VersionsAreChained /\ ConfirmedWasSeenTwice
  BY DEF FactInv, HistoryOK
<1>3. (FactInv => VersionsAreChained /\ ConfirmedWasSeenTwice)'
  BY <1>2, PTL
<1>4. FactInv /\ FactInv' /\ [FactNext]_factVars =>
        [/\ VersionsAreChained' /\ ConfirmedWasSeenTwice'
         /\ VersionsAreFrozen /\ ReceptionNeverGoesBack]_factVars
  BY <1>3, HistoryKeeps
<1> QED
  BY <1>1, <1>4, PTL DEF FactSpec, VersionsContract

-----------------------------------------------------------------------------
(* The calendar of a day: what is stored and what is held.               *)

\* A version of the day, and the claim of its confirmation.
CalRow ==
  [facts : KrxFacts, state : {"pending", "confirmed", "conflict"}, confirmed : Int,
   from : Nat, superseded : Nat, word : {"open", "closed", "none"}]

KisClaim ==
  [state : {"none", "running", "succeeded", "conflict", "failed"}, owner : CalConfirmers \cup {"nobody"},
   since : Nat]

\* Types wider than CalTypeOK's: the bounds are no part of what follows.
CalTypes ==
  /\ calClock \in Nat
  /\ published \in [annual : {"open", "closed"}, notice : BOOLEAN] /\ brokerSays \in {"open", "closed"}
  /\ versions \in Seq(CalRow)
  /\ kisJob \in [1 .. Len(versions) -> KisClaim]

\* A collector that saves holds what KRX published.
CollectorOK(k) ==
  k.step = "save" =>
    /\ k = [step |-> "save", day |-> k.day, facts |-> k.facts, at |-> k.at]
    /\ k.facts \in KrxFacts /\ k.at \in Nat

\* A confirmer has a version to confirm; an answer that it holds says of the day what
\* the broker said.
ConfirmerOK(k, n) ==
  /\ k.step # "idle" => k.key \in 1 .. n
  /\ k.step = "ask" => k.facts \in KrxFacts
  /\ k.step = "save" =>
       /\ k.day \in Int /\ k.word \in {"open", "closed"}
       /\ k.word = "open" => k.facts \in {"open", "shortened"}
       /\ k.word = "closed" => k.facts \in {"closed", "closed_by_kis"}

HeldInTheCalendar ==
  /\ collector = [c \in CalCollectors |-> collector[c]]
  /\ confirmer = [p \in CalConfirmers |-> confirmer[p]]
  /\ \A c \in CalCollectors : CollectorOK(collector[c])
  /\ \A p \in CalConfirmers : ConfirmerOK(confirmer[p], Len(versions))

\* A confirmed version has the broker's word for what it says of the day.
WordIsTold ==
  \A v \in DOMAIN versions :
    versions[v].state = "confirmed" =>
      versions[v].word = IF versions[v].facts = "closed" THEN "closed" ELSE "open"

CalInv == CalTypes /\ HeldInTheCalendar /\ HistoryIsChained /\ WordIsTold /\ PendingCanBeAsked

-----------------------------------------------------------------------------
(* The rows of the calendar.                                             *)

\* The current version is one of the stored ones.
LEMMA NewestIsThere ==
  ASSUME CalTypes
  PROVE  /\ Len(versions) \in Nat /\ DOMAIN versions = 1 .. Len(versions)
         /\ DOMAIN kisJob = 1 .. Len(versions)
         /\ \A v \in 1 .. Len(versions) :
              /\ versions[v] \in CalRow /\ versions[v].facts \in KrxFacts /\ versions[v].from \in Nat
         /\ versions # <<>> => Len(versions) \in 1 .. Len(versions)
         /\ versions = <<>> => Len(versions) = 0
         /\ Newest = versions[Len(versions)]
<1>1. versions \in Seq(CalRow) /\ kisJob \in [1 .. Len(versions) -> KisClaim]
  BY DEF CalTypes
<1>2. /\ Len(versions) \in Nat /\ DOMAIN versions = 1 .. Len(versions)
      /\ \A i \in 1 .. Len(versions) : versions[i] \in CalRow
      /\ versions # <<>> => Len(versions) \in 1 .. Len(versions)
      /\ versions = <<>> => Len(versions) = 0
  BY <1>1, LastIsThere
<1>3. \A r \in CalRow : r.facts \in KrxFacts /\ r.from \in Nat
  BY DEF CalRow
<1>4. Newest = versions[Len(versions)]
  BY DEF Newest, Last
<1> QED
  BY <1>1, <1>2, <1>3, <1>4

\* A day and its date are numbers.
LEMMA DateIsANumber ==
  ASSUME NEW t \in Nat
  PROVE  DateOf(t) \in Int
BY CalAssumption DEF DateOf

\* The first version of a day, and the next.
LEMMA NewVersionIsARow ==
  ASSUME NEW facts \in KrxFacts, NEW received \in Nat
  PROVE  LET row == NewVersion(facts, received) IN
           /\ row \in CalRow /\ row.facts = facts /\ row.state = "pending" /\ row.from = received
           /\ row.superseded = NoTick
<1>1. NoDate \in Int /\ NoTick \in Nat
  BY CalAssumption, DateIsANumber DEF NoDate, NoTick
<1> QED
  BY <1>1 DEF NewVersion, CalRow

\* What a save of a collector makes of the versions.
LEMMA CollectedRows ==
  ASSUME CalInv, NEW c \in CalCollectors, SaveKrx(c)
  PROVE  LET k == collector[c]
             n == Len(versions)
         IN \/ versions # <<>> /\ versions' = versions
            \/ /\ versions' \in Seq(CalRow) /\ Len(versions') = n + 1 /\ DOMAIN versions' = 1 .. n + 1
               /\ \A v \in 1 .. n :
                    versions'[v] = IF v = n THEN [versions[n] EXCEPT !.superseded = k.at] ELSE versions[v]
               /\ versions'[n + 1] = NewVersion(k.facts, k.at)
               /\ n > 0 => versions[n].facts # k.facts /\ versions[n].from < k.at
<1> DEFINE k == collector[c]
           n == Len(versions)
<1>1. k.facts \in KrxFacts /\ k.at \in Nat /\ ~ NotTaken(k)
  BY DEF CalInv, HeldInTheCalendar, CollectorOK, SaveKrx
<1>2. CalTypes /\ versions \in Seq(CalRow)
  BY DEF CalInv, CalTypes
<1>3. /\ n \in Nat /\ DOMAIN versions = 1 .. n /\ (versions # <<>> => n \in 1 .. n) /\ (versions = <<>> => n = 0)
      /\ \A v \in 1 .. n : versions[v] \in CalRow /\ versions[v].from \in Nat
      /\ Newest = versions[n]
  BY <1>2, NewestIsThere
<1> DEFINE row == NewVersion(k.facts, k.at)
<1>4. row \in CalRow
  BY <1>1, NewVersionIsARow
<1> HIDE DEF row
<1>5. CASE versions = <<>>
  <2>1. versions' = <<row>>
    BY <1>5 DEF SaveKrx, row
  <2>2. versions' \in Seq(CalRow) /\ Len(versions') = 1 /\ DOMAIN versions' = 1 .. 1 /\ versions'[1] = row
    BY <1>4, <2>1
  <2> QED
    BY <1>3, <1>5, <2>2 DEF row
<1>6. CASE versions # <<>> /\ SameFacts(Newest, k.facts)
  <2>1. versions' = [versions EXCEPT ![n] = versions[n]]
    BY <1>6 DEF SaveKrx, Renewed
  <2>2. versions \in [1 .. n -> CalRow] /\ n \in 1 .. n
    BY <1>2, <1>3, <1>6, LenProperties
  <2>3. versions' = versions
    BY <2>1, <2>2
  <2> QED
    BY <1>6, <2>3
<1>7. CASE versions # <<>> /\ ~ SameFacts(Newest, k.facts)
  <2> DEFINE ended == [versions[n] EXCEPT !.superseded = k.at]
             list == [versions EXCEPT ![n] = ended]
  <2>1. versions' = Append(list, row)
    BY <1>7 DEF SaveKrx, Replaced, row
  <2>2. n \in 1 .. n /\ versions[n] \in CalRow
    BY <1>3, <1>7
  <2>3. ended \in CalRow
    BY <1>1, <2>2 DEF CalRow
  <2>4. /\ list \in Seq(CalRow) /\ Len(list) = n
        /\ \A v \in 1 .. n : list[v] = IF v = n THEN ended ELSE versions[v]
    <3> HIDE DEF ended
    <3> QED
      BY <1>2, <2>2, <2>3, RowReplaced
  <2> HIDE DEF list
  <2>5. /\ versions' \in Seq(CalRow) /\ Len(versions') = n + 1 /\ versions'[n + 1] = row
        /\ \A v \in 1 .. n : versions'[v] = list[v]
    BY <1>4, <2>1, <2>4, AppendProperties
  <2>6. DOMAIN versions' = 1 .. n + 1
    BY <2>5, LastIsThere
  <2>7. versions[n].facts # k.facts /\ versions[n].from < k.at
    BY <1>1, <1>3, <1>7, <2>2 DEF NotTaken, SameFacts, TooOld
  <2> QED
    BY <2>4, <2>5, <2>6, <2>7 DEF row
<1> QED
  BY <1>5, <1>6, <1>7

\* What a save of a confirmer makes of them.
LEMMA VerifiedRows ==
  ASSUME CalInv, NEW p \in CalConfirmers, SaveKis(p)
  PROVE  LET n == Len(versions)
             row == Verified(versions[n], confirmer[p].facts, confirmer[p].word, confirmer[p].day)
         IN /\ n \in 1 .. n /\ row \in CalRow /\ row.state # "pending"
            /\ row.facts = versions[n].facts /\ row.from = versions[n].from
            /\ row.superseded = versions[n].superseded
            /\ row.state = "confirmed" => row.word = IF row.facts = "closed" THEN "closed" ELSE "open"
            /\ versions' \in Seq(CalRow) /\ Len(versions') = n /\ DOMAIN versions' = 1 .. n
            /\ \A v \in 1 .. n : versions'[v] = IF v = n THEN row ELSE versions[v]
<1> DEFINE k == confirmer[p]
           n == Len(versions)
           row == Verified(versions[n], k.facts, k.word, k.day)
<1>1. /\ k.day \in Int /\ k.word \in {"open", "closed"} /\ k.key \in 1 .. n
      /\ k.word = "open" => k.facts \in {"open", "shortened"}
      /\ k.word = "closed" => k.facts \in {"closed", "closed_by_kis"}
  BY DEF CalInv, HeldInTheCalendar, ConfirmerOK, SaveKis
<1>2. n \in Nat /\ versions \in Seq(CalRow) /\ \A v \in 1 .. n : versions[v] \in CalRow
  BY NewestIsThere DEF CalInv, CalTypes
<1>3. n \in 1 .. n /\ versions[n] \in CalRow /\ versions[n].facts \in KrxFacts
  BY <1>1, <1>2, SMTT(20) DEF CalRow
<1>4. NoDate \in Int
  BY CalAssumption, DateIsANumber DEF NoDate
<1>5. ASSUME versions[n].facts = k.facts
      PROVE  /\ row \in CalRow /\ row.state # "pending"
             /\ row.facts = versions[n].facts /\ row.from = versions[n].from
             /\ row.superseded = versions[n].superseded
             /\ row.state = "confirmed" => row.word = IF row.facts = "closed" THEN "closed" ELSE "open"
  <2>1. row = [versions[n] EXCEPT !.state = "confirmed", !.confirmed = k.day, !.word = k.word]
    BY <1>5 DEF Verified, SameFacts
  <2>2. /\ row \in CalRow /\ row.state = "confirmed" /\ row.word = k.word
        /\ row.facts = versions[n].facts /\ row.from = versions[n].from
        /\ row.superseded = versions[n].superseded
    BY <1>1, <1>3, <2>1 DEF CalRow
  <2> QED
    BY <1>1, <1>3, <1>5, <2>2 DEF KrxFacts
<1>6. ASSUME versions[n].facts # k.facts
      PROVE  /\ row \in CalRow /\ row.state # "pending"
             /\ row.facts = versions[n].facts /\ row.from = versions[n].from
             /\ row.superseded = versions[n].superseded
             /\ row.state = "confirmed" => row.word = IF row.facts = "closed" THEN "closed" ELSE "open"
  <2>1. row = [versions[n] EXCEPT !.state = "conflict", !.confirmed = NoDate, !.word = k.word]
    BY <1>6 DEF Verified, SameFacts
  <2>2. /\ row \in CalRow /\ row.state = "conflict"
        /\ row.facts = versions[n].facts /\ row.from = versions[n].from
        /\ row.superseded = versions[n].superseded
    BY <1>1, <1>3, <1>4, <2>1 DEF CalRow
  <2> QED
    BY <2>2
<1>7. /\ row \in CalRow /\ row.state # "pending"
      /\ row.facts = versions[n].facts /\ row.from = versions[n].from
      /\ row.superseded = versions[n].superseded
      /\ row.state = "confirmed" => row.word = IF row.facts = "closed" THEN "closed" ELSE "open"
  BY <1>5, <1>6
<1>8. versions' = [versions EXCEPT ![n] = row]
  BY DEF SaveKis
<1> HIDE DEF row
<1>9. /\ versions' \in Seq(CalRow) /\ Len(versions') = n /\ DOMAIN versions' = 1 .. n
      /\ \A v \in 1 .. n : versions'[v] = IF v = n THEN row ELSE versions[v]
  BY <1>2, <1>3, <1>7, <1>8, RowReplaced
<1> QED
  BY <1>3, <1>7, <1>9 DEF row

-----------------------------------------------------------------------------
(* What a step does to the versions of a day.                            *)

RowsKept ==
  /\ versions' \in Seq(CalRow) /\ Len(versions') \in Nat /\ Len(versions') >= Len(versions)
  /\ HistoryIsChained' /\ WordIsTold' /\ VerdictsStay

\* A step that stores no version.
LEMMA SameRowsKept ==
  ASSUME CalInv, versions' = versions
  PROVE  RowsKept
<1>1. versions \in Seq(CalRow) /\ Len(versions) \in Nat /\ Len(versions) >= Len(versions)
  BY NewestIsThere DEF CalInv, CalTypes
<1>2. HistoryIsChained' /\ WordIsTold' /\ VerdictsStay
  BY DEF CalInv, HistoryIsChained, WordIsTold, VerdictsStay, NoTick
<1> QED
  BY <1>1, <1>2 DEF RowsKept

\* A collection.
LEMMA CollectedKept ==
  ASSUME CalInv, NEW c \in CalCollectors, SaveKrx(c)
  PROVE  RowsKept
<1> DEFINE k == collector[c]
           n == Len(versions)
           row == NewVersion(k.facts, k.at)
<1>1. CASE versions' = versions
  BY <1>1, SameRowsKept
<1>2. CASE /\ versions' \in Seq(CalRow) /\ Len(versions') = n + 1 /\ DOMAIN versions' = 1 .. n + 1
           /\ \A v \in 1 .. n :
                versions'[v] = IF v = n THEN [versions[n] EXCEPT !.superseded = k.at] ELSE versions[v]
           /\ versions'[n + 1] = row
           /\ n > 0 => versions[n].facts # k.facts /\ versions[n].from < k.at
  <2>1. /\ n \in Nat /\ DOMAIN versions = 1 .. n
        /\ \A v \in 1 .. n : versions[v] \in CalRow /\ versions[v].from \in Nat
    BY NewestIsThere DEF CalInv
  <2>2. k.facts \in KrxFacts /\ k.at \in Nat
    BY DEF CalInv, HeldInTheCalendar, CollectorOK, SaveKrx
  <2>3. row.facts = k.facts /\ row.state = "pending" /\ row.from = k.at /\ row.superseded = NoTick
    BY <2>2, NewVersionIsARow
  <2>4. \A v \in 1 .. n :
          /\ versions'[v].facts = versions[v].facts /\ versions'[v].from = versions[v].from
          /\ versions'[v].state = versions[v].state /\ versions'[v].word = versions[v].word
          /\ versions'[v].superseded = IF v = n THEN k.at ELSE versions[v].superseded
    <3> TAKE v \in 1 .. n
    <3>1. versions[v] \in CalRow /\ versions[n] \in CalRow
      BY <2>1
    <3>2. versions'[v] = IF v = n THEN [versions[n] EXCEPT !.superseded = k.at] ELSE versions[v]
      BY <1>2
    <3> QED
      BY <3>1, <3>2 DEF CalRow
  <2>5. \A v \in 1 .. n + 1 : v \in 1 .. n \/ v = n + 1
    BY <2>1
  <2>6. versions'[n + 1] = row /\ DOMAIN versions' = 1 .. n + 1 /\ Len(versions') = n + 1
    BY <1>2
  <2>7. n > 0 => versions[n].facts # k.facts /\ versions[n].from < k.at
    BY <1>2
  <2> HIDE DEF row, n
  <2>8. WordIsTold'
    BY <2>1, <2>3, <2>4, <2>5, <2>6 DEF CalInv, WordIsTold
  <2>9. VerdictsStay
    BY <2>1, <2>4 DEF VerdictsStay
  <2>10. HistoryIsChained'
    <3>1. ASSUME NEW v \in 1 .. n, v # n
          PROVE  /\ versions'[v].superseded = versions'[v + 1].from
                 /\ versions'[v].from < versions'[v + 1].from
                 /\ versions'[v].facts # versions'[v + 1].facts
      <4>1. v + 1 \in 1 .. n
        BY <2>1, <3>1
      <4>2. /\ versions[v].superseded = versions[v + 1].from /\ versions[v].from < versions[v + 1].from
            /\ versions[v].facts # versions[v + 1].facts
        BY <2>1, <3>1 DEF CalInv, HistoryIsChained, n
      <4> QED
        BY <2>4, <3>1, <4>1, <4>2
    <3>2. n \in 1 .. n =>
            /\ versions'[n].superseded = versions'[n + 1].from
            /\ versions'[n].from < versions'[n + 1].from
            /\ versions'[n].facts # versions'[n + 1].facts
      BY <2>1, <2>3, <2>4, <2>6, <2>7
    <3>3. versions'[n + 1].superseded = NoTick
      BY <2>3, <2>6
    <3>4. \A v \in 1 .. n : v # n + 1
      BY <2>1
    <3> QED
      BY <2>5, <2>6, <3>1, <3>2, <3>3, <3>4 DEF HistoryIsChained, NoTick
  <2>11. versions' \in Seq(CalRow) /\ Len(versions') \in Nat /\ Len(versions') >= Len(versions)
    <3>1. Len(versions') = n + 1 /\ n \in Nat /\ n + 1 \in Nat /\ n + 1 >= n
      BY <2>1, <2>6
    <3> QED
      BY <1>2, <3>1 DEF n
  <2> QED
    BY <2>8, <2>9, <2>10, <2>11 DEF RowsKept
<1> QED
  BY <1>1, <1>2, CollectedRows

\* A verification.
LEMMA VerifiedKept ==
  ASSUME CalInv, NEW p \in CalConfirmers, SaveKis(p)
  PROVE  RowsKept
<1> DEFINE n == Len(versions)
           row == Verified(versions[n], confirmer[p].facts, confirmer[p].word, confirmer[p].day)
<1>1. /\ n \in 1 .. n /\ row \in CalRow /\ row.state # "pending"
      /\ row.facts = versions[n].facts /\ row.from = versions[n].from
      /\ row.superseded = versions[n].superseded
      /\ row.state = "confirmed" => row.word = IF row.facts = "closed" THEN "closed" ELSE "open"
      /\ versions' \in Seq(CalRow) /\ Len(versions') = n /\ DOMAIN versions' = 1 .. n
      /\ \A v \in 1 .. n : versions'[v] = IF v = n THEN row ELSE versions[v]
  BY VerifiedRows
<1>2. n \in Nat /\ DOMAIN versions = 1 .. n
  BY NewestIsThere DEF CalInv
<1> HIDE DEF row, n
<1>3. \A v \in 1 .. n :
        /\ versions'[v].facts = versions[v].facts /\ versions'[v].from = versions[v].from
        /\ versions'[v].superseded = versions[v].superseded
        /\ v # n => versions'[v] = versions[v]
  BY <1>1
<1>4. VerdictsStay
  BY <1>1, <1>2, <1>3 DEF VerdictsStay
<1>5. WordIsTold'
  BY <1>1, <1>2, <1>3 DEF CalInv, WordIsTold
<1>6. HistoryIsChained'
  <2>1. ASSUME NEW v \in 1 .. n, v # n
        PROVE  /\ versions'[v].superseded = versions'[v + 1].from
               /\ versions'[v].from < versions'[v + 1].from
               /\ versions'[v].facts # versions'[v + 1].facts
    <3>1. v + 1 \in 1 .. n
      BY <1>2, <2>1
    <3>2. /\ versions[v].superseded = versions[v + 1].from /\ versions[v].from < versions[v + 1].from
          /\ versions[v].facts # versions[v + 1].facts
      BY <1>2, <2>1 DEF CalInv, HistoryIsChained, n
    <3> QED
      BY <1>3, <2>1, <3>1, <3>2
  <2>2. versions'[n].superseded = NoTick
    BY <1>1, <1>2, <1>3 DEF CalInv, HistoryIsChained, n
  <2> QED
    BY <1>1, <2>1, <2>2 DEF HistoryIsChained, NoTick
<1>7. Len(versions') \in Nat /\ Len(versions') >= Len(versions)
  <2>1. Len(versions') = n
    BY <1>1
  <2>2. n \in Nat /\ n >= n
    BY <1>2
  <2> QED
    BY <2>1, <2>2 DEF n
<1> QED
  BY <1>1, <1>4, <1>5, <1>6, <1>7 DEF RowsKept

\* All steps.
LEMMA CalRowsKept ==
  ASSUME CalInv, [CalNext]_calVars
  PROVE  RowsKept
<1>1. CASE \E c \in CalCollectors : SaveKrx(c)
  BY <1>1, CollectedKept
<1>2. CASE \E p \in CalConfirmers : SaveKis(p)
  BY <1>2, VerifiedKept
<1>3. CASE \/ Tick \/ News \/ UNCHANGED calVars
           \/ \E c \in CalCollectors :
                ClaimKrx(c) \/ Fetch(c) \/ SaveKrxRefused(c) \/ ReportKrx(c) \/ FailKrx(c)
           \/ \E p \in CalConfirmers : ClaimKis(p) \/ LookUp(p) \/ Ask(p) \/ ReportKis(p) \/ FailKis(p)
  <2>1. versions' = versions
    BY <1>3 DEF Tick, News, calVars, ClaimKrx, Fetch, SaveKrxRefused, ReportKrx, FailKrx,
                ClaimKis, LookUp, Ask, ReportKis, FailKis
  <2> QED
    BY <2>1, SameRowsKept
<1> QED
  BY <1>1, <1>2, <1>3 DEF CalNext, CollectorStep, ConfirmerStep

-----------------------------------------------------------------------------
(* What a step does to those who hold something.                         *)

\* Whoever goes on with another entry.
LEMMA CollectorTurns ==
  ASSUME CalInv, [CalNext]_calVars, NEW c \in CalCollectors, NEW e, CollectorOK(e),
         collector' = [collector EXCEPT ![c] = e], confirmer' = confirmer
  PROVE  HeldInTheCalendar'
<1>1. Len(versions) \in Nat /\ Len(versions') \in Nat /\ Len(versions') >= Len(versions)
  BY CalRowsKept, NewestIsThere DEF RowsKept, CalInv
<1>2. 1 .. Len(versions) \subseteq 1 .. Len(versions')
  BY <1>1
<1>3. /\ collector' = [d \in CalCollectors |-> collector'[d]]
      /\ \A d \in CalCollectors : CollectorOK(collector'[d])
  BY DEF CalInv, HeldInTheCalendar
<1>4. \A p \in CalConfirmers : ConfirmerOK(confirmer[p], Len(versions'))
  BY <1>2 DEF CalInv, HeldInTheCalendar, ConfirmerOK
<1>5. confirmer' = [p \in CalConfirmers |-> confirmer'[p]]
  BY DEF CalInv, HeldInTheCalendar
<1> QED
  BY <1>3, <1>4, <1>5 DEF HeldInTheCalendar

\* Where a confirmer goes on with another entry.
LEMMA ConfirmerTurns ==
  ASSUME CalInv, [CalNext]_calVars, NEW p \in CalConfirmers, NEW e, ConfirmerOK(e, Len(versions)),
         confirmer' = [confirmer EXCEPT ![p] = e], collector' = collector
  PROVE  HeldInTheCalendar'
<1>1. Len(versions) \in Nat /\ Len(versions') \in Nat /\ Len(versions') >= Len(versions)
  BY CalRowsKept, NewestIsThere DEF RowsKept, CalInv
<1>2. 1 .. Len(versions) \subseteq 1 .. Len(versions')
  BY <1>1
<1>3. /\ confirmer' = [q \in CalConfirmers |-> confirmer'[q]]
      /\ \A q \in CalConfirmers : ConfirmerOK(confirmer'[q], Len(versions))
  BY DEF CalInv, HeldInTheCalendar
<1>4. \A q \in CalConfirmers : ConfirmerOK(confirmer'[q], Len(versions'))
  BY <1>2, <1>3 DEF ConfirmerOK
<1>5. /\ collector' = [c \in CalCollectors |-> collector'[c]]
      /\ \A c \in CalCollectors : CollectorOK(collector'[c])
  BY DEF CalInv, HeldInTheCalendar
<1> QED
  BY <1>3, <1>4, <1>5 DEF HeldInTheCalendar

\* Nobody does.
LEMMA NobodyTurns ==
  ASSUME CalInv, [CalNext]_calVars, UNCHANGED <<collector, confirmer>>
  PROVE  HeldInTheCalendar'
<1>1. Len(versions) \in Nat /\ Len(versions') \in Nat /\ Len(versions') >= Len(versions)
  BY CalRowsKept, NewestIsThere DEF RowsKept, CalInv
<1>2. 1 .. Len(versions) \subseteq 1 .. Len(versions')
  BY <1>1
<1>3. \A p \in CalConfirmers : ConfirmerOK(confirmer[p], Len(versions'))
  BY <1>2 DEF CalInv, HeldInTheCalendar, ConfirmerOK
<1> QED
  BY <1>3 DEF CalInv, HeldInTheCalendar

\* The steps of a collector.
LEMMA CollectorsHold ==
  ASSUME CalInv, NEW c \in CalCollectors, CollectorStep(c)
  PROVE  HeldInTheCalendar'
<1>1. [CalNext]_calVars
  BY DEF CalNext
<1>2. confirmer' = confirmer
  BY DEF CollectorStep, ClaimKrx, Fetch, SaveKrx, SaveKrxRefused, ReportKrx, FailKrx
<1>3. CASE ClaimKrx(c)
  <2> DEFINE e == [step |-> "fetch", day |-> LocalDate]
  <2>1. collector' = [collector EXCEPT ![c] = e] /\ CollectorOK(e)
    BY <1>3 DEF ClaimKrx, CollectorOK
  <2> HIDE DEF e
  <2> QED
    BY <1>1, <1>2, <2>1, CollectorTurns
<1>4. CASE Fetch(c)
  <2> DEFINE e == [step |-> "save", day |-> collector[c].day, facts |-> Composite, at |-> calClock]
  <2>1. Composite \in KrxFacts /\ calClock \in Nat
    BY DEF CalInv, CalTypes, Composite, Noticed, Annual, KrxFacts
  <2>2. CollectorOK(e)
    BY <2>1 DEF CollectorOK
  <2>3. collector' = [collector EXCEPT ![c] = e]
    BY <1>4 DEF Fetch
  <2> HIDE DEF e
  <2> QED
    BY <1>1, <1>2, <2>2, <2>3, CollectorTurns
<1>5. CASE SaveKrx(c)
  <2> DEFINE e == [collector[c] EXCEPT !.step = "report"]
  <2>1. collector[c] = [step |-> "save", day |-> collector[c].day, facts |-> collector[c].facts,
                        at |-> collector[c].at]
    BY <1>5 DEF CalInv, HeldInTheCalendar, CollectorOK, SaveKrx
  <2>2. e.step = "report"
    BY <2>1
  <2>3. collector' = [collector EXCEPT ![c] = e]
    BY <1>5 DEF SaveKrx
  <2> HIDE DEF e
  <2>4. CollectorOK(e)
    BY <2>2 DEF CollectorOK
  <2> QED
    BY <1>1, <1>2, <2>3, <2>4, CollectorTurns
<1>6. CASE SaveKrxRefused(c) \/ ReportKrx(c) \/ FailKrx(c)
  <2>1. collector' = [collector EXCEPT ![c] = AtEase]
    BY <1>6 DEF SaveKrxRefused, ReportKrx, FailKrx
  <2>2. CollectorOK(AtEase)
    BY DEF CollectorOK, AtEase
  <2> QED
    BY <1>1, <1>2, <2>1, <2>2, CollectorTurns
<1> QED
  BY <1>3, <1>4, <1>5, <1>6 DEF CollectorStep

\* The steps of a confirmer.
LEMMA ConfirmersHold ==
  ASSUME CalInv, NEW p \in CalConfirmers, ConfirmerStep(p)
  PROVE  HeldInTheCalendar'
<1> DEFINE n == Len(versions)
           k == confirmer[p]
<1>1. [CalNext]_calVars
  BY DEF CalNext
<1>2. collector' = collector
  BY DEF ConfirmerStep, ClaimKis, LookUp, Ask, SaveKis, ReportKis, FailKis
<1>3. ConfirmerOK(k, n)
  BY DEF CalInv, HeldInTheCalendar
<1>4. /\ n \in Nat /\ (versions # <<>> => n \in 1 .. n) /\ \A v \in 1 .. n : versions[v].facts \in KrxFacts
      /\ Newest = versions[n]
  BY NewestIsThere DEF CalInv
<1>5. CASE ClaimKis(p)
  <2> DEFINE e == [step |-> "look", key |-> JobKey]
  <2>1. confirmer' = [confirmer EXCEPT ![p] = e] /\ versions # <<>>
    BY <1>5 DEF ClaimKis
  <2>2. ConfirmerOK(e, n)
    BY <1>4, <2>1 DEF ConfirmerOK, JobKey
  <2> HIDE DEF e
  <2> QED
    BY <1>1, <1>2, <2>1, <2>2, ConfirmerTurns
<1>6. CASE LookUp(p)
  <2>1. k.key \in 1 .. n
    BY <1>3, <1>6 DEF ConfirmerOK, LookUp
  <2>2. CASE LocalDate = TradingDay
    <3> DEFINE e == [step |-> "ask", key |-> k.key, facts |-> Newest.facts]
    <3>1. confirmer' = [confirmer EXCEPT ![p] = e]
      BY <1>6, <2>2 DEF LookUp
    <3>2. n \in 1 .. n
      BY <1>4, <2>1
    <3>3. ConfirmerOK(e, n)
      BY <1>4, <2>1, <3>2 DEF ConfirmerOK
    <3> HIDE DEF e
    <3> QED
      BY <1>1, <1>2, <3>1, <3>3, ConfirmerTurns
  <2>3. CASE LocalDate # TradingDay
    <3> DEFINE e == [step |-> "report", key |-> k.key]
    <3>1. confirmer' = [confirmer EXCEPT ![p] = e]
      BY <1>6, <2>3 DEF LookUp
    <3>2. ConfirmerOK(e, n)
      BY <2>1 DEF ConfirmerOK
    <3> HIDE DEF e
    <3> QED
      BY <1>1, <1>2, <3>1, <3>2, ConfirmerTurns
  <2> QED
    BY <2>2, <2>3
<1>7. CASE Ask(p)
  <2> DEFINE e == [step |-> "save", key |-> k.key, facts |-> Answer(k.facts, brokerSays),
                   word |-> brokerSays, day |-> LocalDate]
  <2>1. confirmer' = [confirmer EXCEPT ![p] = e]
    BY <1>7 DEF Ask
  <2>2. k.key \in 1 .. n /\ k.facts \in KrxFacts
    BY <1>3, <1>7 DEF ConfirmerOK, Ask
  <2>3. brokerSays \in {"open", "closed"} /\ LocalDate \in Int
    BY DateIsANumber DEF CalInv, CalTypes, LocalDate
  <2>4. /\ brokerSays = "open" => Answer(k.facts, brokerSays) \in {"open", "shortened"}
        /\ brokerSays = "closed" => Answer(k.facts, brokerSays) \in {"closed", "closed_by_kis"}
    BY <2>2 DEF Answer, KrxFacts
  <2>5. ConfirmerOK(e, n)
    BY <2>2, <2>3, <2>4 DEF ConfirmerOK
  <2> HIDE DEF e
  <2> QED
    BY <1>1, <1>2, <2>1, <2>5, ConfirmerTurns
<1>8. CASE SaveKis(p)
  <2> DEFINE e == [step |-> "report", key |-> k.key]
  <2>1. confirmer' = [confirmer EXCEPT ![p] = e]
    BY <1>8 DEF SaveKis
  <2>2. k.key \in 1 .. n
    BY <1>3, <1>8 DEF ConfirmerOK, SaveKis
  <2>3. ConfirmerOK(e, n)
    BY <2>2 DEF ConfirmerOK
  <2> HIDE DEF e
  <2> QED
    BY <1>1, <1>2, <2>1, <2>3, ConfirmerTurns
<1>9. CASE ReportKis(p) \/ FailKis(p)
  <2>1. confirmer' = [confirmer EXCEPT ![p] = AtEase]
    BY <1>9 DEF ReportKis, FailKis
  <2>2. ConfirmerOK(AtEase, n)
    BY DEF ConfirmerOK, AtEase
  <2> QED
    BY <1>1, <1>2, <2>1, <2>2, ConfirmerTurns
<1> QED
  BY <1>5, <1>6, <1>7, <1>8, <1>9 DEF ConfirmerStep

\* All steps.
LEMMA HoldersKept ==
  ASSUME CalInv, [CalNext]_calVars
  PROVE  HeldInTheCalendar'
<1>1. CASE Tick \/ News \/ UNCHANGED calVars
  <2>1. UNCHANGED <<collector, confirmer>>
    BY <1>1 DEF Tick, News, calVars
  <2> QED
    BY <2>1, NobodyTurns
<1>2. CASE \E c \in CalCollectors : CollectorStep(c)
  BY <1>2, CollectorsHold
<1>3. CASE \E p \in CalConfirmers : ConfirmerStep(p)
  BY <1>3, ConfirmersHold
<1> QED
  BY <1>1, <1>2, <1>3 DEF CalNext

-----------------------------------------------------------------------------
(* The claims of the confirmations.                                      *)

ClaimsKept == kisJob' \in [1 .. Len(versions') -> KisClaim] /\ PendingCanBeAsked'

\* A report ends a claim or leaves it alone.
LEMMA ReportEndsAClaim ==
  ASSUME NEW job \in KisClaim, NEW w, NEW result \in {"succeeded", "conflict", "failed"}
  PROVE  /\ Ended(job, w, result) \in KisClaim
         /\ Ended(job, w, result).state \in {job.state, result}
BY DEF Ended, KisClaim

\* A step that stores no version and gives one claim another value.
LEMMA OneClaimKept ==
  ASSUME CalInv, versions' = versions, NEW v \in 1 .. Len(versions), NEW claim \in KisClaim,
         Newest.state = "pending" => v # Len(versions) \/ claim.state \notin {"succeeded", "conflict"},
         kisJob' = [kisJob EXCEPT ![v] = claim]
  PROVE  ClaimsKept
<1>1. kisJob \in [1 .. Len(versions) -> KisClaim]
  BY DEF CalInv, CalTypes
<1>2. kisJob' \in [1 .. Len(versions') -> KisClaim]
  BY <1>1
<1>3. versions # <<>> => Len(versions) \in 1 .. Len(versions)
  BY NewestIsThere DEF CalInv
<1>4. Newest' = Newest
  BY DEF Newest
<1>5. ASSUME versions # <<>>, Newest.state = "pending"
      PROVE  kisJob'[Len(versions)].state \notin {"succeeded", "conflict"}
  <2>1. kisJob[Len(versions)].state \notin {"succeeded", "conflict"}
    BY <1>5 DEF CalInv, PendingCanBeAsked, JobKey
  <2> QED
    BY <1>1, <1>3, <1>5, <2>1
<1>6. PendingCanBeAsked'
  BY <1>4, <1>5 DEF PendingCanBeAsked, JobKey
<1> QED
  BY <1>2, <1>6 DEF ClaimsKept

\* A step that does neither.
LEMMA SameClaimsKept ==
  ASSUME CalInv, UNCHANGED <<versions, kisJob>>
  PROVE  ClaimsKept
BY DEF CalInv, CalTypes, PendingCanBeAsked, JobKey, Newest, ClaimsKept

\* A collection: a new version has no claim yet.
LEMMA CollectionClaims ==
  ASSUME CalInv, NEW c \in CalCollectors, SaveKrx(c)
  PROVE  ClaimsKept
<1> DEFINE n == Len(versions)
<1>1. /\ n \in Nat /\ DOMAIN versions = 1 .. n /\ DOMAIN kisJob = 1 .. n
      /\ kisJob \in [1 .. n -> KisClaim]
  BY NewestIsThere DEF CalInv, CalTypes
<1>2. kisJob' = [v \in DOMAIN versions' |-> IF v \in DOMAIN kisJob THEN kisJob[v] ELSE Unclaimed]
  BY DEF SaveKrx
<1>3. CASE versions' = versions
  <2>1. kisJob' = kisJob
    BY <1>1, <1>2, <1>3
  <2> QED
    BY <1>3, <2>1, SameClaimsKept
<1>4. CASE Len(versions') = n + 1 /\ DOMAIN versions' = 1 .. n + 1
  <2>1. Unclaimed \in KisClaim /\ Unclaimed.state = "none"
    BY DEF Unclaimed, KisClaim
  <2> HIDE DEF n
  <2>2. kisJob' = [v \in 1 .. n + 1 |-> IF v \in 1 .. n THEN kisJob[v] ELSE Unclaimed]
    BY <1>1, <1>2, <1>4
  <2>3. \A v \in 1 .. n : kisJob[v] \in KisClaim
    BY <1>1
  <2>4. kisJob' \in [1 .. n + 1 -> KisClaim]
    BY <2>1, <2>2, <2>3
  <2>5. n + 1 \in 1 .. n + 1 /\ n + 1 \notin 1 .. n
    BY <1>1
  <2>6. kisJob'[n + 1].state = "none"
    BY <2>1, <2>2, <2>5
  <2>7. kisJob'[Len(versions')].state = "none" /\ kisJob' \in [1 .. Len(versions') -> KisClaim]
    BY <1>4, <2>4, <2>6
  <2>8. PendingCanBeAsked'
    BY <2>7 DEF PendingCanBeAsked, JobKey
  <2> QED
    BY <2>7, <2>8 DEF ClaimsKept
<1>5. \/ versions' = versions
      \/ Len(versions') = n + 1 /\ DOMAIN versions' = 1 .. n + 1
  BY CollectedRows
<1> QED
  BY <1>3, <1>4, <1>5

\* A verification: the current version is no longer pending.
LEMMA VerificationClaims ==
  ASSUME CalInv, NEW p \in CalConfirmers, SaveKis(p)
  PROVE  ClaimsKept
<1> DEFINE n == Len(versions)
           row == Verified(versions[n], confirmer[p].facts, confirmer[p].word, confirmer[p].day)
<1>1. /\ n \in 1 .. n /\ row.state # "pending" /\ Len(versions') = n
      /\ \A v \in 1 .. n : versions'[v] = IF v = n THEN row ELSE versions[v]
  BY VerifiedRows
<1>2. kisJob' = kisJob /\ kisJob \in [1 .. n -> KisClaim]
  BY DEF SaveKis, CalInv, CalTypes
<1> HIDE DEF row, n
<1>3. versions'[n].state # "pending"
  BY <1>1
<1>4. Newest' = versions'[n]
  BY <1>1 DEF Newest, Last
<1>5. PendingCanBeAsked'
  BY <1>3, <1>4 DEF PendingCanBeAsked
<1>6. kisJob' \in [1 .. Len(versions') -> KisClaim]
  BY <1>1, <1>2
<1> QED
  BY <1>5, <1>6 DEF ClaimsKept

\* The steps that claim and report.
LEMMA ConfirmationClaims ==
  ASSUME CalInv, NEW p \in CalConfirmers, ClaimKis(p) \/ ReportKis(p) \/ FailKis(p)
  PROVE  ClaimsKept
<1> DEFINE n == Len(versions)
           v == confirmer[p].key
<1>1. versions' = versions
  BY DEF ClaimKis, ReportKis, FailKis
<1>2. /\ n \in Nat /\ (versions # <<>> => n \in 1 .. n)
      /\ kisJob \in [1 .. n -> KisClaim] /\ Newest = versions[n]
  BY NewestIsThere DEF CalInv, CalTypes
<1>3. CASE ClaimKis(p)
  <2>1. kisJob' = [kisJob EXCEPT ![n] = Held(p)] /\ n \in 1 .. n
    BY <1>2, <1>3 DEF ClaimKis, JobKey
  <2>2. Held(p) \in KisClaim /\ Held(p).state = "running"
    BY DEF Held, KisClaim, CalInv, CalTypes
  <2> QED
    BY <1>1, <2>1, <2>2, OneClaimKept
<1>4. ASSUME confirmer[p].step # "idle" PROVE v \in 1 .. n /\ kisJob[v] \in KisClaim
  <2>1. v \in 1 .. n
    BY <1>4 DEF CalInv, HeldInTheCalendar, ConfirmerOK
  <2> QED
    BY <1>2, <2>1
<1>5. CASE ReportKis(p)
  <2>1. /\ kisJob' = [kisJob EXCEPT ![v] = Ended(kisJob[v], p, Outcome)]
        /\ confirmer[p].step # "idle"
    BY <1>5 DEF ReportKis
  <2>2. v \in 1 .. n /\ kisJob[v] \in KisClaim
    BY <1>4, <2>1
  <2>3. /\ Outcome \in {"succeeded", "conflict", "failed"}
        /\ Newest.state = "pending" => Outcome = "failed"
    BY DEF Outcome
  <2>4. /\ Ended(kisJob[v], p, Outcome) \in KisClaim
        /\ Ended(kisJob[v], p, Outcome).state \in {kisJob[v].state, Outcome}
    BY <2>2, <2>3, ReportEndsAClaim
  <2>5. Newest.state = "pending" =>
          v # n \/ Ended(kisJob[v], p, Outcome).state \notin {"succeeded", "conflict"}
    <3>1. ASSUME Newest.state = "pending", v = n
          PROVE  kisJob[v].state \notin {"succeeded", "conflict"}
      <4>1. versions # <<>>
        BY <2>2, NewestIsThere DEF CalInv
      <4> QED
        BY <3>1, <4>1 DEF CalInv, PendingCanBeAsked, JobKey
    <3> QED
      BY <2>3, <2>4, <3>1
  <2> QED
    BY <1>1, <2>1, <2>2, <2>4, <2>5, OneClaimKept
<1>6. CASE FailKis(p)
  <2>1. CASE kisJob' = kisJob
    BY <1>1, <2>1, SameClaimsKept
  <2>2. CASE kisJob' = [kisJob EXCEPT ![v] = Ended(kisJob[v], p, "failed")]
    <3>1. v \in 1 .. n /\ kisJob[v] \in KisClaim
      BY <1>4, <1>6 DEF FailKis
    <3>2. /\ Ended(kisJob[v], p, "failed") \in KisClaim
          /\ Ended(kisJob[v], p, "failed").state \in {kisJob[v].state, "failed"}
      BY <3>1, ReportEndsAClaim
    <3>3. Newest.state = "pending" =>
            v # n \/ Ended(kisJob[v], p, "failed").state \notin {"succeeded", "conflict"}
      <4>1. ASSUME Newest.state = "pending", v = n
            PROVE  kisJob[v].state \notin {"succeeded", "conflict"}
        <5>1. versions # <<>>
          BY <3>1, NewestIsThere DEF CalInv
        <5> QED
          BY <4>1, <5>1 DEF CalInv, PendingCanBeAsked, JobKey
      <4> QED
        BY <3>2, <4>1
    <3> QED
      BY <1>1, <2>2, <3>1, <3>2, <3>3, OneClaimKept
  <2> QED
    BY <1>6, <2>1, <2>2 DEF FailKis
<1> QED
  BY <1>3, <1>5, <1>6

\* All steps.
LEMMA CalClaimsKept ==
  ASSUME CalInv, [CalNext]_calVars
  PROVE  ClaimsKept
<1>1. CASE \E c \in CalCollectors : SaveKrx(c)
  BY <1>1, CollectionClaims
<1>2. CASE \E p \in CalConfirmers : SaveKis(p)
  BY <1>2, VerificationClaims
<1>3. CASE \E p \in CalConfirmers : ClaimKis(p) \/ ReportKis(p) \/ FailKis(p)
  BY <1>3, ConfirmationClaims
<1>4. CASE \/ Tick \/ News \/ UNCHANGED calVars
           \/ \E c \in CalCollectors :
                ClaimKrx(c) \/ Fetch(c) \/ SaveKrxRefused(c) \/ ReportKrx(c) \/ FailKrx(c)
           \/ \E p \in CalConfirmers : LookUp(p) \/ Ask(p)
  <2>1. UNCHANGED <<versions, kisJob>>
    BY <1>4 DEF Tick, News, calVars, ClaimKrx, Fetch, SaveKrxRefused, ReportKrx, FailKrx, LookUp, Ask
  <2> QED
    BY <2>1, SameClaimsKept
<1> QED
  BY <1>1, <1>2, <1>3, <1>4 DEF CalNext, CollectorStep, ConfirmerStep

-----------------------------------------------------------------------------
(* What the versions of a day promise.                                   *)

\* The invariant holds at first.
LEMMA CalInitOK == CalInit => CalInv
<1> SUFFICES ASSUME CalInit PROVE CalInv
  OBVIOUS
<1>1. versions = <<>> /\ kisJob = <<>> /\ calClock = 0
  BY DEF CalInit
<1>2. Len(versions) = 0 /\ DOMAIN versions = {} /\ versions \in Seq(CalRow)
  BY <1>1
<1>3. kisJob \in [1 .. Len(versions) -> KisClaim]
  BY <1>1, <1>2
<1>4. CalTypes
  BY <1>2, <1>3 DEF CalInit, CalTypes
<1>5. HeldInTheCalendar
  BY DEF CalInit, HeldInTheCalendar, AtEase, CollectorOK, ConfirmerOK
<1>6. HistoryIsChained /\ WordIsTold /\ PendingCanBeAsked
  BY <1>1, <1>2 DEF HistoryIsChained, WordIsTold, PendingCanBeAsked
<1> QED
  BY <1>4, <1>5, <1>6 DEF CalInv

\* Each step keeps it.
LEMMA CalStepOK == CalInv /\ [CalNext]_calVars => CalInv'
<1> SUFFICES ASSUME CalInv, [CalNext]_calVars PROVE CalInv'
  OBVIOUS
<1>1. RowsKept /\ ClaimsKept /\ HeldInTheCalendar'
  BY CalRowsKept, CalClaimsKept, HoldersKept
<1>2. /\ calClock' \in Nat /\ brokerSays' \in {"open", "closed"}
      /\ published' \in [annual : {"open", "closed"}, notice : BOOLEAN]
  <2>1. /\ calClock \in Nat /\ brokerSays \in {"open", "closed"}
        /\ published \in [annual : {"open", "closed"}, notice : BOOLEAN]
    BY DEF CalInv, CalTypes
  <2>2. CASE Tick
    BY <2>1, <2>2 DEF Tick
  <2>3. CASE News
    BY <2>1, <2>3 DEF News, Other
  <2>4. CASE \/ UNCHANGED calVars
             \/ \E c \in CalCollectors : CollectorStep(c)
             \/ \E p \in CalConfirmers : ConfirmerStep(p)
    <3>1. UNCHANGED worldVars
      BY <2>4 DEF calVars, CollectorStep, ClaimKrx, Fetch, SaveKrx, SaveKrxRefused, ReportKrx, FailKrx,
                  ConfirmerStep, ClaimKis, LookUp, Ask, SaveKis, ReportKis, FailKis
    <3> QED
      BY <2>1, <3>1 DEF worldVars
  <2> QED
    BY <2>2, <2>3, <2>4 DEF CalNext
<1> QED
  BY <1>1, <1>2 DEF CalInv, CalTypes, RowsKept, ClaimsKept

\* A day that lets things run, and one that is closed, has the word of the broker.
LEMMA WordBearsOut == CalInv => AllowedIsBorneOut
<1> SUFFICES ASSUME CalInv, versions # <<>>, VerificationDecision(Newest) = "none"
             PROVE  Newest.word = IF Newest.facts = "closed" THEN "closed" ELSE "open"
  BY DEF AllowedIsBorneOut, ScheduleDecision, VerificationDecision
<1> DEFINE n == Len(versions)
<1>1. n \in 1 .. n /\ DOMAIN versions = 1 .. n /\ Newest = versions[n] /\ versions[n] \in CalRow
  BY NewestIsThere DEF CalInv
<1>2. Newest.state = "confirmed"
  BY <1>1 DEF VerificationDecision, CalRow
<1> QED
  BY <1>1, <1>2 DEF CalInv, WordIsTold

\* The record of a trading day keeps its promises for any number of workers that collect
\* and confirm it, however their steps cross and fail: the versions are chained; what
\* lets things run, or closes the day, was confirmed with a word of the broker that says
\* the same; no verdict is taken back; and what is pending can be asked about again.
THEOREM CalendarCorrect == CalSpec => CalendarContract
<1>1. CalSpec => []CalInv
  BY CalInitOK, CalStepOK, PTL DEF CalSpec
<1>2. CalInv => HistoryIsChained /\ AllowedIsBorneOut /\ PendingCanBeAsked
  BY WordBearsOut DEF CalInv
<1>3. (CalInv => HistoryIsChained /\ AllowedIsBorneOut /\ PendingCanBeAsked)'
  BY <1>2, PTL
<1>4. CalInv /\ CalInv' /\ [CalNext]_calVars =>
        [/\ HistoryIsChained' /\ AllowedIsBorneOut' /\ PendingCanBeAsked'
         /\ VerdictsStay]_calVars
  BY <1>3, CalRowsKept DEF RowsKept
<1> QED
  BY <1>1, <1>4, PTL DEF CalSpec, CalendarContract

-----------------------------------------------------------------------------
(* The shared credentials and the request rate of KIS.                   *)

LEMMA TimesAreNumbers ==
  /\ Lifetime \in Nat \ {0} /\ SafetyMargin \in Nat \ {0} /\ WaitLimit \in Nat \ {0}
  /\ LockTtl \in Nat \ {0} /\ SlotInterval \in Nat \ {0}
  /\ MaxIssues \in Nat /\ MaxKisFaults \in Nat
  /\ WaitLimit < SafetyMargin /\ LockTtl <= WaitLimit
BY KisAssumption

\* The credentials are numbered in the order in which KIS issued them.
LEMMA IssuedAreNumbers ==
  ASSUME NEW lives \in Seq(0 .. Lifetime)
  PROVE  /\ DOMAIN lives = 1 .. Len(lives) /\ Len(lives) \in Nat
         /\ \A c \in DOMAIN lives : lives[c] \in 0 .. Lifetime
         /\ LET longer == Append(lives, Lifetime) IN
              /\ longer \in Seq(0 .. Lifetime) /\ Len(longer) = Len(lives) + 1
              /\ DOMAIN longer = 1 .. Len(lives) + 1
              /\ \A c \in DOMAIN lives : longer[c] = lives[c]
<1>1. DOMAIN lives = 1 .. Len(lives) /\ Len(lives) \in Nat
  BY LenProperties
<1>2. \A c \in 1 .. Len(lives) : lives[c] \in 0 .. Lifetime
  BY LenProperties
<1>3. Lifetime \in 0 .. Lifetime
  BY TimesAreNumbers
<1>4. LET longer == Append(lives, Lifetime) IN
        /\ longer \in Seq(0 .. Lifetime) /\ Len(longer) = Len(lives) + 1
        /\ \A c \in 1 .. Len(lives) : longer[c] = lives[c]
  BY <1>3, AppendProperties
<1>5. LET longer == Append(lives, Lifetime) IN DOMAIN longer = 1 .. Len(lives) + 1
  BY <1>4, LenProperties
<1> QED
  BY <1>1, <1>2, <1>4, <1>5

LEMMA DownFacts ==
  ASSUME NEW n \in Nat
  PROVE  /\ Down(n) \in Nat /\ Down(n) <= n
         /\ n > 0 => Down(n) = n - 1
         /\ Down(n) > 0 => n > 1
BY DEF Down

LEMMA CountsAreNumbers ==
  ASSUME KisTypeOK
  PROVE  /\ \A c \in Issued : life[c] \in Nat
         /\ \A p \in KisProcesses :
              kind[p] \in CredentialKinds /\ patience[p] \in Nat /\ lease[p] \in Nat
<1>1. \A c \in Issued : life[c] \in 0 .. Lifetime
  BY IssuedAreNumbers DEF KisTypeOK, Issued
<1>2. \A p \in KisProcesses : patience[p] \in 0 .. WaitLimit /\ lease[p] \in 0 .. LockTtl
  BY DEF KisTypeOK
<1> QED
  BY <1>1, <1>2, TimesAreNumbers DEF KisTypeOK

\* Going on with a known credential, waiting, staying or ending keeps the types of a call.
CallTypes ==
  /\ memory \in [KisProcesses -> Known] /\ using \in [KisProcesses -> Known]
  /\ stage \in [KisProcesses -> Stages] /\ patience \in [KisProcesses -> 0 .. WaitLimit]

LEMMA CallStep ==
  ASSUME KisTypeOK, NEW p \in KisProcesses, NEW cred \in Known, Known \subseteq Known'
  PROVE  /\ GoOn(p, cred) => CallTypes'
         /\ \A where \in Stages :
              /\ WaitsFor(p, where, Nothing) /\ UNCHANGED memory => CallTypes'
              /\ Stays(p, where) => CallTypes'
         /\ Ends(p) /\ memory' \in [KisProcesses -> Known'] => CallTypes'
<1>1. WaitLimit \in 0 .. WaitLimit /\ 0 \in 0 .. WaitLimit /\ Nothing \in Known
  BY TimesAreNumbers DEF Known
<1>2. ASSUME GoOn(p, cred) PROVE CallTypes'
  BY <1>1, <1>2 DEF KisTypeOK, CallTypes, GoOn, WaitsFor, Stages
<1>3. ASSUME NEW where \in Stages, WaitsFor(p, where, Nothing), UNCHANGED memory
      PROVE  CallTypes'
  BY <1>1, <1>3 DEF KisTypeOK, CallTypes, WaitsFor
<1>4. ASSUME NEW where \in Stages, Stays(p, where) PROVE CallTypes'
  BY <1>4 DEF KisTypeOK, CallTypes, Stays
<1>5. ASSUME Ends(p), memory' \in [KisProcesses -> Known'] PROVE CallTypes'
  BY <1>1, <1>5 DEF KisTypeOK, CallTypes, Ends, Stages
<1> QED
  BY <1>2, <1>3, <1>4, <1>5

LockTypes ==
  /\ lock \in [CredentialKinds -> [owner : KisProcesses \cup {"nobody"}, left : 0 .. LockTtl]]
  /\ lease \in [KisProcesses -> 0 .. LockTtl]

LEMMA LockStep ==
  ASSUME KisTypeOK, NEW p \in KisProcesses
  PROVE  /\ Released(kind[p], p) \in
              [CredentialKinds -> [owner : KisProcesses \cup {"nobody"}, left : 0 .. LockTtl]]
         /\ [lease EXCEPT ![p] = 0] \in [KisProcesses -> 0 .. LockTtl]
BY TimesAreNumbers DEF KisTypeOK, Released, FreeLock

LEMMA LeaveStep ==
  ASSUME KisTypeOK, NEW p \in KisProcesses, NEW cred \in Known, UNCHANGED life, Leave(p, cred)
  PROVE  CallTypes' /\ LockTypes'
<1>1. Known' = Known
  BY DEF Known, Issued
<1>2. LockTypes'
  BY LockStep DEF Leave, LockTypes
<1>3. CallTypes'
  <2>1. CASE Holds(kind[p], p)
    BY <1>1, <2>1, CallStep DEF Leave
  <2>2. CASE ~ Holds(kind[p], p)
    <3>1. Ends(p) /\ memory' \in [KisProcesses -> Known']
      BY <1>1, <2>2 DEF Leave, KisTypeOK
    <3> QED
      BY <1>1, <3>1, CallStep
  <2> QED
    BY <2>1, <2>2
<1> QED
  BY <1>2, <1>3

LEMMA CleanedIsKnown ==
  ASSUME KisTypeOK, NEW k \in CredentialKinds
  PROVE  Cleaned(k) \in [CredentialKinds -> Known]
BY DEF KisTypeOK, Cleaned, Known

LEMMA AfterLife ==
  ASSUME KisTypeOK, CallTypes', LockTypes', UNCHANGED <<kind, life>>,
         shared' \in [CredentialKinds -> Known], latest' \in Known,
         gate' \in 0 .. SlotInterval, overran' = overran, kisFaults' \in 0 .. MaxKisFaults,
         refusedKeys' \in [KisProcesses -> SUBSET Issued]
  PROVE  KisTypeOK'
<1>1. Known' = Known /\ Issued' = Issued
  BY DEF Known, Issued
<1> QED
  BY <1>1 DEF KisTypeOK, CallTypes, LockTypes

\* A call that is to store, to send or to subscribe has a credential in hand.
HasCredential ==
  \A p \in KisProcesses :
    stage[p] \in {"store", "waitToSend", "subscribe"} => using[p] \in Issued

LEMMA KisTypeStep ==
  ASSUME KisTypeOK, HasCredential, [KisNext]_kisVars
  PROVE  KisTypeOK'
<1>1. CASE UNCHANGED kisVars
  BY <1>1 DEF kisVars, KisTypeOK, Known, Issued
<1>2. CASE SharedKeyExpires
  <2>1. Known' = Known /\ Issued' = Issued /\ Nothing \in Known
    BY <1>2 DEF SharedKeyExpires, Known, Issued
  <2> QED
    BY <1>2, <2>1 DEF SharedKeyExpires, KisTypeOK
<1>3. CASE KisTick
  <2>1. /\ Issued = 1 .. Len(life) /\ Len(life) \in Nat
        /\ \A c \in Issued : life[c] \in 0 .. Lifetime
    BY IssuedAreNumbers DEF KisTypeOK, Issued
  <2>2. life' = [c \in 1 .. Len(life) |-> Down(life[c])]
    BY <1>3, <2>1 DEF KisTick
  <2>3. \A c \in 1 .. Len(life) : Down(life[c]) \in 0 .. Lifetime
    BY <2>1, TimesAreNumbers DEF Down
  <2>4. life' \in Seq(0 .. Lifetime) /\ Len(life') = Len(life)
    BY <2>1, <2>2, <2>3
  <2>5. Issued' = Issued /\ Known' = Known
    BY <2>1, <2>4, IssuedAreNumbers DEF Known, Issued
  <2>6. gate' \in 0 .. SlotInterval
    BY <1>3, TimesAreNumbers DEF KisTick, Down, KisTypeOK
  <2>7. patience' \in [KisProcesses -> 0 .. WaitLimit] /\ lease' \in [KisProcesses -> 0 .. LockTtl]
    <3>1. ASSUME NEW top \in Nat, NEW n \in 0 .. top PROVE Down(n) \in 0 .. top
      BY DEF Down
    <3> QED
      BY <1>3, <3>1, TimesAreNumbers DEF KisTick, KisTypeOK
  <2>8. lock' \in [CredentialKinds -> [owner : KisProcesses \cup {"nobody"}, left : 0 .. LockTtl]]
    <3>1. ASSUME NEW k \in CredentialKinds
          PROVE  (IF lock[k].left > 1 THEN [lock[k] EXCEPT !.left = @ - 1] ELSE FreeLock)
                   \in [owner : KisProcesses \cup {"nobody"}, left : 0 .. LockTtl]
      <4>1. lock[k] \in [owner : KisProcesses \cup {"nobody"}, left : 0 .. LockTtl]
        BY DEF KisTypeOK
      <4> QED
        BY <4>1, TimesAreNumbers DEF FreeLock
    <3> QED
      BY <1>3, <3>1 DEF KisTick
  <2>9. overran' \in BOOLEAN
    BY <1>3 DEF KisTick, KisTypeOK
  <2> QED
    BY <1>3, <2>4, <2>5, <2>6, <2>7, <2>8, <2>9 DEF KisTick, KisTypeOK
<1>4. ASSUME NEW p \in KisProcesses, KisAnswers(p) PROVE KisTypeOK'
  <2>1. /\ Issued = 1 .. Len(life) /\ Len(life) \in Nat
        /\ Known = 0 .. Len(life) /\ latest \in Known
    BY IssuedAreNumbers DEF KisTypeOK, Issued, Known, Nothing
  <2>2. ASSUME NewCredential /\ using' = [using EXCEPT ![p] = Len(life')]
        PROVE  /\ life' \in Seq(0 .. Lifetime) /\ Len(life') <= MaxIssues
               /\ Issued \subseteq Issued' /\ using' \in [KisProcesses -> Known']
    <3>1. life' = Append(life, Lifetime) /\ Len(life) < MaxIssues
      BY <2>2 DEF NewCredential
    <3>2. /\ life' \in Seq(0 .. Lifetime) /\ Len(life') = Len(life) + 1
          /\ Issued' = 1 .. Len(life) + 1
      BY <3>1, IssuedAreNumbers DEF KisTypeOK, Issued
    <3>3. Known' = 0 .. Len(life) + 1 /\ Len(life') <= MaxIssues
      BY <2>1, <3>1, <3>2, TimesAreNumbers DEF Known, Nothing
    <3>4. using' \in [KisProcesses -> Known']
      BY <2>1, <2>2, <3>2, <3>3, SMTT(20) DEF KisTypeOK
    <3> QED
      BY <2>1, <3>2, <3>3, <3>4
  <2>3. ASSUME UNCHANGED life /\ using' = [using EXCEPT ![p] = latest]
        PROVE  /\ life' \in Seq(0 .. Lifetime) /\ Len(life') <= MaxIssues
               /\ Issued \subseteq Issued' /\ using' \in [KisProcesses -> Known']
    <3>1. Issued' = Issued /\ Known' = Known
      BY <2>3 DEF Issued, Known
    <3> QED
      BY <2>1, <2>3, <3>1 DEF KisTypeOK
  <2>4. /\ life' \in Seq(0 .. Lifetime) /\ Len(life') <= MaxIssues
        /\ Known \subseteq Known' /\ Issued \subseteq Issued'
        /\ using' \in [KisProcesses -> Known']
    <3>1. ASSUME life' \in Seq(0 .. Lifetime), Len(life') <= MaxIssues, Issued \subseteq Issued',
                 using' \in [KisProcesses -> Known']
          PROVE  Known \subseteq Known'
      BY <3>1 DEF Known
    <3>2. CASE NewCredential /\ using' = [using EXCEPT ![p] = Len(life')]
      BY <2>2, <3>1, <3>2
    <3>3. CASE UNCHANGED life /\ using' = [using EXCEPT ![p] = latest]
      BY <2>3, <3>1, <3>3
    <3> QED
      BY <1>4, <3>2, <3>3 DEF KisAnswers
  <2>5. latest' \in Known'
    BY <1>4, <2>1, <2>4 DEF KisAnswers, KisTypeOK
  <2>6. stage' \in [KisProcesses -> Stages]
    BY <1>4 DEF KisAnswers, KisTypeOK, Stages
  <2> QED
    BY <1>4, <2>4, <2>5, <2>6 DEF KisAnswers, KisTypeOK
<1>5. ASSUME NEW p \in KisProcesses,
             \/ AskCredential(p) \/ TakeLock(p) \/ LookAgain(p) \/ BeginIssue(p) \/ Store(p)
             \/ Send(p) \/ SessionEnds(p) \/ SubscriptionRefused(p) \/ GiveUp(p)
             \/ KisCallFails(p) \/ ProcessDies(p)
      PROVE  KisTypeOK'
  <2>1. UNCHANGED <<kind, life, overran>> /\ latest' = latest
    BY <1>5 DEF AskCredential, TakeLock, LookAgain, BeginIssue, Store, Send, SessionEnds,
                SubscriptionRefused, GiveUp, KisCallFails, ProcessDies
  <2>2. Known' = Known /\ Nothing \in Known /\ kind[p] \in CredentialKinds
    BY <2>1 DEF Known, Issued, KisTypeOK
  <2>3. memory \in [KisProcesses -> Known'] /\ [memory EXCEPT ![p] = Nothing] \in [KisProcesses -> Known']
    BY <2>2 DEF KisTypeOK
  <2>4. /\ shared[kind[p]] \in Known /\ memory[p] \in Known /\ using[p] \in Known
        /\ Cleaned(kind[p]) \in [CredentialKinds -> Known]
    BY <2>2, CleanedIsKnown DEF KisTypeOK
  <2>5. CallTypes'
    <3>1. CASE AskCredential(p)
      BY <2>2, <2>4, <3>1, CallStep DEF AskCredential, Stages
    <3>2. CASE TakeLock(p) \/ BeginIssue(p)
      BY <2>2, <3>2, CallStep DEF TakeLock, BeginIssue, Stages
    <3>3. CASE LookAgain(p)
      BY <2>1, <2>2, <2>4, <3>3, CallStep, LeaveStep DEF LookAgain, Stages
    <3>4. CASE Store(p)
      BY <2>1, <2>2, <2>3, <2>4, <3>4, CallStep, LeaveStep DEF Store
    <3>5. CASE Send(p) \/ SessionEnds(p) \/ SubscriptionRefused(p) \/ GiveUp(p)
               \/ KisCallFails(p) \/ ProcessDies(p)
      <4>1. Ends(p) /\ memory' \in {memory, [memory EXCEPT ![p] = Nothing]}
        BY <3>5 DEF Send, SessionEnds, SubscriptionRefused, GiveUp, KisCallFails, ProcessDies
      <4> QED
        BY <2>2, <2>3, <4>1, CallStep
    <3> QED
      BY <1>5, <3>1, <3>2, <3>3, <3>4, <3>5
  <2>6. LockTypes'
    <3>1. LockTypes
      BY DEF LockTypes, KisTypeOK
    <3>2. CASE UNCHANGED <<lock, lease>>
      BY <3>1, <3>2 DEF LockTypes
    <3>3. CASE TakeLock(p)
      <4>1. LockTtl \in 0 .. LockTtl
        BY TimesAreNumbers
      <4> QED
        BY <2>2, <3>1, <3>3, <4>1 DEF TakeLock, LockTypes
    <3>4. CASE LookAgain(p) \/ Store(p)
      BY <2>1, <2>4, <3>2, <3>4, LeaveStep, LockStep DEF LookAgain, Store, LockTypes
    <3>5. CASE GiveUp(p) \/ KisCallFails(p) \/ ProcessDies(p)
      BY <3>1, <3>5, LockStep DEF GiveUp, KisCallFails, ProcessDies, LockTypes
    <3> QED
      BY <1>5, <3>2, <3>3, <3>4, <3>5
      DEF AskCredential, BeginIssue, Send, SessionEnds, SubscriptionRefused
  <2>7. shared' \in [CredentialKinds -> Known]
    <3>1. shared \in [CredentialKinds -> Known]
      BY DEF KisTypeOK
    <3>2. shared' \in {shared, Cleaned(kind[p]), Emptied("approval"),
                       [shared EXCEPT ![kind[p]] = using[p]]}
      BY <1>5 DEF AskCredential, TakeLock, LookAgain, BeginIssue, Store, Send, SessionEnds,
                SubscriptionRefused, GiveUp, KisCallFails, ProcessDies
    <3> QED
      BY <2>2, <2>4, <3>1, <3>2 DEF Emptied
  <2>8. gate' \in 0 .. SlotInterval
    <3>1. gate' \in {gate, SlotInterval}
      BY <1>5 DEF SlotReserved, AskCredential, TakeLock, LookAgain, BeginIssue, Store, Send,
        SessionEnds, SubscriptionRefused, GiveUp, KisCallFails, ProcessDies
    <3> QED
      BY <3>1, TimesAreNumbers DEF KisTypeOK
  <2>9. kisFaults' \in 0 .. MaxKisFaults
    <3>1. kisFaults' = kisFaults \/ (kisFaults < MaxKisFaults /\ kisFaults' = kisFaults + 1)
      BY <1>5 DEF AskCredential, TakeLock, LookAgain, BeginIssue, Store, Send, SessionEnds,
        SubscriptionRefused, GiveUp, KisCallFails, ProcessDies
    <3> QED
      BY <3>1, TimesAreNumbers DEF KisTypeOK
  <2>10. refusedKeys' \in [KisProcesses -> SUBSET Issued]
    <3>1. CASE SubscriptionRefused(p)
      <4>1. using[p] \in Issued
        BY <3>1 DEF SubscriptionRefused, HasCredential
      <4> QED
        BY <3>1, <4>1 DEF SubscriptionRefused, KisTypeOK
    <3>2. CASE UNCHANGED refusedKeys
      BY <3>2 DEF KisTypeOK
    <3> QED
      BY <1>5, <3>1, <3>2
      DEF AskCredential, TakeLock, LookAgain, BeginIssue, Store, Send, SessionEnds, GiveUp,
          KisCallFails, ProcessDies
  <2> QED
    BY <2>1, <2>5, <2>6, <2>7, <2>8, <2>9, <2>10, AfterLife DEF KisTypeOK
<1> QED
  BY <1>1, <1>2, <1>3, <1>4, <1>5 DEF KisNext
-----------------------------------------------------------------------------
(* The inductive invariant.                                              *)

\* A request that waits for its slot keeps of its token at least what the wait may
\* still take and one unit more.
TokenOutlastsWait ==
  \A p \in KisProcesses : stage[p] = "waitToSend" =>
    /\ kind[p] = "token"
    /\ patience[p] > 0 => life[using[p]] + WaitLimit > SafetyMargin + patience[p]

\* A lease that runs is the lock: nobody else has taken it, nobody released it.
LeaseIsLock ==
  \A p \in KisProcesses : InTheLock(p) /\ lease[p] > 0 =>
    lock[kind[p]] = [owner |-> p, left |-> lease[p]]

\* As long as nobody overran its lease, every process between the lock and its
\* release has time left, and what it found missing is still missing.
OnTime == \A p \in KisProcesses : InTheLock(p) /\ ~ overran => lease[p] > 0

MissingStaysMissing ==
  \A p \in KisProcesses :
    stage[p] \in {"waitToIssue", "issuing", "store"} /\ ~ overran =>
      ~ IsValidAt(kind[p], shared[kind[p]])

\* A key that a process had refused is neither in its memory nor in Valkey.
RefusedIsNowhere ==
  \A p \in KisProcesses :
    /\ stage[p] = "subscribe" => kind[p] = "approval" /\ using[p] \notin refusedKeys[p]
    /\ kind[p] = "approval" =>
         memory[p] \notin refusedKeys[p] /\ shared["approval"] \notin refusedKeys[p]

\* A key that is not stored yet is known to the process that asked for it alone.
NewKeyIsUnknown ==
  \A q \in KisProcesses : stage[q] = "store" /\ kind[q] = "approval" =>
    /\ using[q] # shared["approval"]
    /\ \A p \in KisProcesses : kind[p] = "approval" =>
         /\ using[q] \notin refusedKeys[p] /\ using[q] # memory[p]
         /\ p # q => using[q] # using[p]

KisStep(p) ==
  \/ AskCredential(p) \/ TakeLock(p) \/ LookAgain(p) \/ BeginIssue(p) \/ KisAnswers(p)
  \/ Store(p) \/ Send(p) \/ SessionEnds(p) \/ SubscriptionRefused(p) \/ GiveUp(p)
  \/ KisCallFails(p) \/ ProcessDies(p)

\* A step of one process leaves the calls of the others, their leases and all kinds.
LEMMA OthersStay ==
  ASSUME KisTypeOK, NEW p \in KisProcesses, KisStep(p), NEW q \in KisProcesses, q # p
  PROVE  /\ stage'[q] = stage[q] /\ using'[q] = using[q] /\ memory'[q] = memory[q]
         /\ patience'[q] = patience[q] /\ lease'[q] = lease[q]
         /\ refusedKeys'[q] = refusedKeys[q]
BY DEF KisTypeOK, KisStep, AskCredential, TakeLock, LookAgain, BeginIssue, KisAnswers, Store,
       Send, SessionEnds, SubscriptionRefused, GiveUp, KisCallFails, ProcessDies, Leave, GoOn,
       WaitsFor, Stays, Ends

LEMMA KindsStay == [KisNext]_kisVars => kind' = kind
BY DEF KisNext, kisVars, KisTick, SharedKeyExpires, AskCredential, TakeLock, LookAgain,
       BeginIssue, KisAnswers, Store, Send, SessionEnds, SubscriptionRefused, GiveUp,
       KisCallFails, ProcessDies

\* What a step of a process does to its own call: it goes on with a credential that
\* is good, or it waits, stays or ends, or KIS answers it.
GoesOn(p) ==
  /\ stage'[p] = IF kind[p] = "token" THEN "waitToSend" ELSE "subscribe"
  /\ patience'[p] = WaitLimit /\ memory'[p] = using'[p]
  /\ IsValidAt(kind[p], using'[p]) /\ using'[p] \in Issued
  /\ using'[p] \in {memory[p], shared[kind[p]]} \/ (Store(p) /\ using'[p] = using[p])

WaitsOrEnds(p) ==
  /\ stage'[p] \in Stages \ {"store", "waitToSend", "subscribe"}
  /\ using'[p] \in {using[p], Nothing}
  /\ memory'[p] \in {memory[p], Nothing, shared[kind[p]]} \/ (Store(p) /\ memory'[p] = using[p])

LEMMA CredentialOutcome ==
  ASSUME KisTypeOK, HasCredential, NEW p \in KisProcesses, KisStep(p)
  PROVE  GoesOn(p) \/ WaitsOrEnds(p) \/ KisAnswers(p)
<1>1. /\ kind[p] \in CredentialKinds /\ memory[p] \in Known /\ using[p] \in Known
      /\ shared[kind[p]] \in Known
  BY DEF KisTypeOK
<1>2. \A cred \in Known : IsValidAt(kind[p], cred) => cred \in Issued
  BY DEF IsValidAt, Known
<1>3. ASSUME NEW cred \in Known, GoOn(p, cred)
      PROVE  /\ stage'[p] = IF kind[p] = "token" THEN "waitToSend" ELSE "subscribe"
             /\ patience'[p] = WaitLimit /\ memory'[p] = cred /\ using'[p] = cred
  BY <1>1, <1>3 DEF GoOn, WaitsFor, KisTypeOK
<1>4. ASSUME Ends(p) PROVE stage'[p] = "idle" /\ using'[p] = Nothing
  BY <1>4 DEF Ends, KisTypeOK
<1>5. ASSUME AskCredential(p) PROVE GoesOn(p) \/ WaitsOrEnds(p)
  <2>1. CASE IsValidAt(kind[p], memory[p])
    BY <1>1, <1>2, <1>3, <1>5, <2>1 DEF AskCredential, GoesOn
  <2>2. CASE ~ IsValidAt(kind[p], memory[p]) /\ IsValidAt(kind[p], shared[kind[p]])
    BY <1>1, <1>2, <1>3, <1>5, <2>2 DEF AskCredential, GoesOn
  <2>3. CASE ~ IsValidAt(kind[p], memory[p]) /\ ~ IsValidAt(kind[p], shared[kind[p]])
    <3>1. WaitsFor(p, "waitForLock", Nothing) /\ UNCHANGED memory
      BY <1>5, <2>3 DEF AskCredential
    <3>2. stage'[p] = "waitForLock" /\ memory'[p] = memory[p] /\ using'[p] = Nothing
      BY <3>1 DEF WaitsFor, KisTypeOK
    <3> QED
      BY <3>2 DEF WaitsOrEnds, Stages
  <2> QED
    BY <2>1, <2>2, <2>3
<1>6. ASSUME TakeLock(p) \/ BeginIssue(p) PROVE GoesOn(p) \/ WaitsOrEnds(p)
  <2>1. stage'[p] \in {"lookAgain", "issuing"} /\ memory'[p] = memory[p] /\ using'[p] = using[p]
    BY <1>6 DEF TakeLock, BeginIssue, Stays, KisTypeOK
  <2> QED
    BY <2>1 DEF WaitsOrEnds, Stages
<1>7. ASSUME LookAgain(p) PROVE GoesOn(p) \/ WaitsOrEnds(p)
  <2>1. CASE StillMissing(kind[p])
    <3>1. WaitsFor(p, "waitToIssue", Nothing) /\ UNCHANGED memory
      BY <1>7, <2>1 DEF LookAgain
    <3>2. stage'[p] = "waitToIssue" /\ memory'[p] = memory[p] /\ using'[p] = Nothing
      BY <3>1 DEF WaitsFor, KisTypeOK
    <3> QED
      BY <3>2 DEF WaitsOrEnds, Stages
  <2>2. CASE ~ StillMissing(kind[p]) /\ Holds(kind[p], p)
    BY <1>1, <1>2, <1>3, <1>7, <2>2 DEF LookAgain, Leave, StillMissing, GoesOn
  <2>3. CASE ~ StillMissing(kind[p]) /\ ~ Holds(kind[p], p)
    <3>1. Ends(p) /\ memory' = [memory EXCEPT ![p] = shared[kind[p]]]
      BY <1>7, <2>3 DEF LookAgain, Leave
    <3>2. memory'[p] = shared[kind[p]]
      BY <3>1 DEF KisTypeOK
    <3> QED
      BY <1>4, <3>1, <3>2 DEF WaitsOrEnds, Stages
  <2> QED
    BY <2>1, <2>2, <2>3
<1>8. ASSUME Store(p) PROVE GoesOn(p) \/ WaitsOrEnds(p)
  <2>1. CASE IsValidAt(kind[p], using[p]) /\ Holds(kind[p], p)
    BY <1>1, <1>2, <1>3, <1>8, <2>1 DEF Store, Leave, GoesOn
  <2>2. CASE IsValidAt(kind[p], using[p]) /\ ~ Holds(kind[p], p)
    <3>1. Ends(p) /\ memory' = [memory EXCEPT ![p] = using[p]]
      BY <1>8, <2>2 DEF Store, Leave
    <3>2. memory'[p] = using[p]
      BY <3>1 DEF KisTypeOK
    <3> QED
      BY <1>4, <1>8, <3>1, <3>2 DEF WaitsOrEnds, Stages
  <2>3. CASE ~ IsValidAt(kind[p], using[p])
    <3>1. Ends(p) /\ UNCHANGED memory
      BY <1>8, <2>3 DEF Store
    <3> QED
      BY <1>4, <3>1 DEF WaitsOrEnds, Stages
  <2> QED
    BY <2>1, <2>2, <2>3
<1>9. ASSUME Send(p) \/ SessionEnds(p) \/ SubscriptionRefused(p) \/ GiveUp(p)
             \/ KisCallFails(p) \/ ProcessDies(p)
      PROVE  GoesOn(p) \/ WaitsOrEnds(p)
  <2>1. Ends(p) /\ memory' \in {memory, [memory EXCEPT ![p] = Nothing]}
    BY <1>9 DEF Send, SessionEnds, SubscriptionRefused, GiveUp, KisCallFails, ProcessDies
  <2>2. memory'[p] \in {memory[p], Nothing}
    BY <2>1 DEF KisTypeOK
  <2> QED
    BY <1>4, <2>1, <2>2 DEF WaitsOrEnds, Stages
<1> QED
  BY <1>5, <1>6, <1>7, <1>8, <1>9 DEF KisStep

LEMMA HasCredentialStep ==
  ASSUME KisTypeOK, HasCredential, [KisNext]_kisVars
  PROVE  HasCredential'
<1>1. ASSUME NEW p \in KisProcesses, KisStep(p) PROVE HasCredential'
  <2>1. Issued \subseteq Issued'
    <3>1. CASE UNCHANGED life
      BY <3>1 DEF Issued
    <3>2. CASE KisAnswers(p) /\ NewCredential
      <4>1. Issued = 1 .. Len(life) /\ Issued' = 1 .. Len(life) + 1 /\ Len(life) \in Nat
        BY <3>2, IssuedAreNumbers DEF NewCredential, Issued, KisTypeOK
      <4> QED
        BY <4>1
    <3> QED
      BY <1>1, <3>1, <3>2
      DEF KisStep, AskCredential, TakeLock, LookAgain, BeginIssue, KisAnswers, Store, Send,
          SessionEnds, SubscriptionRefused, GiveUp, KisCallFails, ProcessDies
  <2>2. stage'[p] \in {"store", "waitToSend", "subscribe"} => using'[p] \in Issued'
    <3>1. CASE KisAnswers(p)
      <4>1. CASE NewCredential /\ using' = [using EXCEPT ![p] = Len(life')]
        <5>1. Issued' = 1 .. Len(life) + 1 /\ Len(life') = Len(life) + 1 /\ Len(life) \in Nat
          BY <4>1, IssuedAreNumbers DEF NewCredential, Issued, KisTypeOK
        <5>2. using'[p] = Len(life')
          BY <4>1 DEF KisTypeOK
        <5>3. Len(life') \in Issued'
          BY <5>1
        <5> QED
          BY <5>2, <5>3
      <4>2. CASE UNCHANGED life /\ latest # Nothing /\ using' = [using EXCEPT ![p] = latest]
        <5>1. latest \in Issued /\ using'[p] = latest
          BY <4>2 DEF KisTypeOK, Known
        <5> QED
          BY <2>1, <5>1
      <4> QED
        BY <3>1, <4>1, <4>2 DEF KisAnswers
    <3>2. CASE ~ KisAnswers(p)
      BY <1>1, <2>1, <3>2, CredentialOutcome DEF GoesOn, WaitsOrEnds
    <3> QED
      BY <3>1, <3>2
  <2>3. \A q \in KisProcesses : q # p => stage'[q] = stage[q] /\ using'[q] = using[q]
    BY <1>1, OthersStay
  <2> QED
    BY <2>1, <2>2, <2>3 DEF HasCredential
<1>2. CASE KisTick
  <2>1. Issued' = Issued
    BY <1>2, IssuedAreNumbers DEF KisTick, Issued, KisTypeOK
  <2> QED
    BY <1>2, <2>1 DEF KisTick, HasCredential
<1>3. CASE SharedKeyExpires \/ UNCHANGED kisVars
  BY <1>3 DEF SharedKeyExpires, kisVars, HasCredential, Issued
<1> QED
  BY <1>1, <1>2, <1>3 DEF KisNext, KisStep

LEMMA KisInitTypes ==
  ASSUME KisInit
  PROVE  KisTypeOK /\ HasCredential
<1>1. life \in Seq(0 .. Lifetime) /\ Len(life) = 0
  BY EmptySeq DEF KisInit
<1>2. Issued = {}
  BY <1>1, IssuedAreNumbers DEF Issued
<1>3. /\ 0 \in 0 .. SlotInterval /\ 0 \in 0 .. WaitLimit /\ 0 \in 0 .. LockTtl
        /\ 0 \in 0 .. MaxKisFaults /\ Len(life) <= MaxIssues
  BY <1>1, TimesAreNumbers
<1>4. lock \in [CredentialKinds -> [owner : KisProcesses \cup {"nobody"}, left : 0 .. LockTtl]]
  BY <1>3 DEF KisInit, FreeLock
<1>5. Nothing \in Known /\ "idle" \in Stages
  BY DEF Known, Stages
<1>6. KisTypeOK
  BY <1>1, <1>2, <1>3, <1>4, <1>5 DEF KisInit, KisTypeOK
<1> QED
  BY <1>6 DEF KisInit, HasCredential

-----------------------------------------------------------------------------
(* A token outlasts the wait for its slot.                               *)

LEMMA TokenStep ==
  ASSUME KisTypeOK, HasCredential, TokenOutlastsWait, [KisNext]_kisVars
  PROVE  TokenOutlastsWait'
<1>1. kind' = kind
  BY KindsStay
<1>2. ASSUME NEW p \in KisProcesses, KisStep(p) PROVE TokenOutlastsWait'
  <2>1. \A c \in Issued : life'[c] = life[c]
    <3>1. CASE KisAnswers(p)
      BY <3>1, IssuedAreNumbers DEF KisAnswers, NewCredential, Issued, KisTypeOK
    <3>2. CASE UNCHANGED life
      BY <3>2
    <3> QED
      BY <1>2, <3>1, <3>2
      DEF KisStep, AskCredential, TakeLock, LookAgain, BeginIssue, Store, Send,
          SessionEnds, SubscriptionRefused, GiveUp, KisCallFails, ProcessDies
  <2>2. ASSUME stage'[p] = "waitToSend"
        PROVE  /\ kind[p] = "token"
               /\ patience'[p] > 0 => life'[using'[p]] + WaitLimit > SafetyMargin + patience'[p]
    <3>1. GoesOn(p)
      BY <1>2, <2>2, CredentialOutcome DEF WaitsOrEnds, KisAnswers, KisTypeOK
    <3>2. kind[p] = "token" /\ patience'[p] = WaitLimit /\ life[using'[p]] > SafetyMargin
      BY <2>2, <3>1 DEF GoesOn, IsValidAt
    <3>3. life'[using'[p]] \in Nat /\ life'[using'[p]] > SafetyMargin
      <4>1. using'[p] \in Issued
        BY <3>1 DEF GoesOn
      <4> QED
        BY <2>1, <3>2, <4>1, CountsAreNumbers
    <3> QED
      BY <3>2, <3>3, TimesAreNumbers
  <2>3. ASSUME NEW q \in KisProcesses, q # p, stage'[q] = "waitToSend"
        PROVE  /\ kind[q] = "token"
               /\ patience'[q] > 0 => life'[using'[q]] + WaitLimit > SafetyMargin + patience'[q]
    <3>1. stage[q] = "waitToSend" /\ using'[q] = using[q] /\ patience'[q] = patience[q]
      BY <1>2, <2>3, OthersStay
    <3> QED
      BY <2>1, <3>1 DEF TokenOutlastsWait, HasCredential
  <2> QED
    BY <1>1, <2>2, <2>3 DEF TokenOutlastsWait
<1>3. CASE KisTick
  <2> SUFFICES ASSUME NEW p \in KisProcesses, stage[p] = "waitToSend", patience'[p] > 0
               PROVE  life'[using[p]] + WaitLimit > SafetyMargin + patience'[p]
    BY <1>1, <1>3 DEF KisTick, TokenOutlastsWait
  <2>1. /\ using[p] \in Issued /\ life[using[p]] \in Nat /\ patience[p] \in Nat
        /\ life'[using[p]] = Down(life[using[p]]) /\ patience'[p] = Down(patience[p])
    <3>1. using[p] \in Issued
      BY DEF HasCredential
    <3> QED
      BY <1>3, <3>1, CountsAreNumbers DEF KisTick
  <2>2. patience[p] > 0 => life[using[p]] + WaitLimit > SafetyMargin + patience[p]
    BY DEF TokenOutlastsWait
  <2>3. patience[p] > 1 /\ patience'[p] = patience[p] - 1
    BY <2>1, DownFacts
  <2>4. life[using[p]] + WaitLimit > SafetyMargin + patience[p]
    BY <2>1, <2>2, <2>3
  <2>5. life[using[p]] > 0
    BY <2>1, <2>3, <2>4, TimesAreNumbers
  <2>6. life'[using[p]] = life[using[p]] - 1
    BY <2>1, <2>5, DownFacts
  <2> QED
    BY <2>1, <2>3, <2>4, <2>6, TimesAreNumbers
<1>4. CASE SharedKeyExpires \/ UNCHANGED kisVars
  BY <1>4 DEF SharedKeyExpires, kisVars, TokenOutlastsWait
<1> QED
  BY <1>2, <1>3, <1>4 DEF KisNext, KisStep

-----------------------------------------------------------------------------
(* One issuer at a time.                                                 *)

Locking == LeaseIsLock /\ OnTime

\* What a step of a process does to the lock: it takes a free one, keeps what it
\* holds, or leaves after giving back at most its own.
LEMMA LockOutcome ==
  ASSUME KisTypeOK, NEW p \in KisProcesses, KisStep(p)
  PROVE  \/ /\ lock[kind[p]] = FreeLock /\ stage'[p] = "lookAgain" /\ lease'[p] = LockTtl
            /\ lock' = [lock EXCEPT ![kind[p]] = [owner |-> p, left |-> LockTtl]]
         \/ /\ lock' = lock /\ lease'[p] = lease[p]
            /\ InTheLock(p)' => InTheLock(p)
         \/ lock' \in {lock, Released(kind[p], p)} /\ ~ InTheLock(p)'
<1>1. ASSUME NEW where \in Stages, NEW cred, WaitsFor(p, where, cred) PROVE stage'[p] = where
  BY <1>1 DEF WaitsFor, KisTypeOK
<1>2. ASSUME NEW cred, Leave(p, cred)
      PROVE  lock' = Released(kind[p], p) /\ ~ InTheLock(p)'
  <2>1. stage'[p] \in {"waitToSend", "subscribe", "idle"}
    BY <1>2 DEF Leave, GoOn, WaitsFor, Ends, KisTypeOK
  <2> QED
    BY <1>2, <2>1 DEF Leave, InTheLock
<1>3. CASE AskCredential(p)
  <2>1. stage'[p] \in {"waitToSend", "subscribe", "waitForLock"}
    BY <1>3 DEF AskCredential, GoOn, WaitsFor, KisTypeOK
  <2> QED
    BY <1>3, <2>1 DEF AskCredential, InTheLock
<1>4. CASE TakeLock(p)
  BY <1>4 DEF TakeLock, Stays, KisTypeOK
<1>5. CASE LookAgain(p)
  <2>1. CASE StillMissing(kind[p])
    BY <1>5, <2>1 DEF LookAgain, InTheLock
  <2>2. CASE ~ StillMissing(kind[p])
    BY <1>2, <1>5, <2>2 DEF LookAgain
  <2> QED
    BY <2>1, <2>2
<1>6. CASE BeginIssue(p) \/ KisAnswers(p)
  BY <1>6 DEF BeginIssue, KisAnswers, InTheLock
<1>7. CASE Store(p)
  <2>1. CASE IsValidAt(kind[p], using[p])
    BY <1>2, <1>7, <2>1 DEF Store
  <2>2. CASE ~ IsValidAt(kind[p], using[p])
    BY <1>7, <2>2 DEF Store, Ends, InTheLock, KisTypeOK
  <2> QED
    BY <2>1, <2>2
<1>8. CASE Send(p) \/ SessionEnds(p) \/ SubscriptionRefused(p) \/ GiveUp(p)
           \/ KisCallFails(p) \/ ProcessDies(p)
  <2>1. Ends(p) /\ lock' \in {lock, Released(kind[p], p)}
    BY <1>8 DEF Send, SessionEnds, SubscriptionRefused, GiveUp, KisCallFails, ProcessDies
  <2>2. ~ InTheLock(p)'
    BY <2>1 DEF Ends, InTheLock, KisTypeOK
  <2> QED
    BY <2>1, <2>2
<1> QED
  BY <1>3, <1>4, <1>5, <1>6, <1>7, <1>8 DEF KisStep

LEMMA LockingStep ==
  ASSUME KisTypeOK, Locking, [KisNext]_kisVars
  PROVE  Locking'
<1> USE DEF Locking
<1>1. kind' = kind
  BY KindsStay
<1>2. ASSUME NEW p \in KisProcesses, KisStep(p) PROVE Locking'
  <2>1. overran' = overran
    BY <1>2 DEF KisStep, AskCredential, TakeLock, LookAgain, BeginIssue, KisAnswers, Store, Send,
                SessionEnds, SubscriptionRefused, GiveUp, KisCallFails, ProcessDies
  <2>2. \A q \in KisProcesses : q # p =>
          InTheLock(q)' = InTheLock(q) /\ lease'[q] = lease[q] /\ lease[q] \in Nat
    <3> SUFFICES ASSUME NEW q \in KisProcesses, q # p
                 PROVE  InTheLock(q)' = InTheLock(q) /\ lease'[q] = lease[q]
      BY CountsAreNumbers
    <3>1. stage'[q] = stage[q] /\ lease'[q] = lease[q]
      BY <1>2, OthersStay
    <3> QED
      BY <3>1 DEF InTheLock
  <2>3. lock \in [CredentialKinds -> [owner : KisProcesses \cup {"nobody"}, left : 0 .. LockTtl]]
        /\ kind \in [KisProcesses -> CredentialKinds] /\ LockTtl \in Nat /\ LockTtl > 0
    BY TimesAreNumbers DEF KisTypeOK
  <2>4. CASE /\ lock[kind[p]] = FreeLock /\ stage'[p] = "lookAgain" /\ lease'[p] = LockTtl
             /\ lock' = [lock EXCEPT ![kind[p]] = [owner |-> p, left |-> LockTtl]]
    <3>1. \A q \in KisProcesses : InTheLock(q) /\ lease[q] > 0 =>
            kind[q] # kind[p]
      <4> SUFFICES ASSUME NEW q \in KisProcesses, InTheLock(q), lease[q] > 0, kind[q] = kind[p]
                   PROVE  FALSE
        OBVIOUS
      <4>1. lock[kind[p]] = [owner |-> q, left |-> lease[q]]
        BY DEF LeaseIsLock
      <4>2. lock[kind[p]] = [owner |-> "nobody", left |-> 0]
        BY <2>4 DEF FreeLock
      <4> QED
        BY <4>1, <4>2
    <3>2. \A q \in KisProcesses : q # p /\ InTheLock(q) /\ lease[q] > 0 =>
            lock'[kind[q]] = [owner |-> q, left |-> lease[q]]
      BY <2>3, <2>4, <3>1 DEF LeaseIsLock
    <3>3. lock'[kind[p]] = [owner |-> p, left |-> lease'[p]] /\ lease'[p] > 0
      BY <2>3, <2>4
    <3> QED
      BY <1>1, <2>1, <2>2, <3>2, <3>3 DEF LeaseIsLock, OnTime
  <2>5. CASE lock' = lock /\ lease'[p] = lease[p] /\ (InTheLock(p)' => InTheLock(p))
    BY <1>1, <2>1, <2>2, <2>5 DEF LeaseIsLock, OnTime
  <2>6. CASE lock' \in {lock, Released(kind[p], p)} /\ ~ InTheLock(p)'
    <3>1. \A q \in KisProcesses : q # p /\ InTheLock(q) /\ lease[q] > 0 =>
            lock'[kind[q]] = [owner |-> q, left |-> lease[q]]
      BY <2>3, <2>6 DEF LeaseIsLock, Released, Holds
    <3> QED
      BY <1>1, <2>1, <2>2, <2>6, <3>1 DEF LeaseIsLock, OnTime
  <2> QED
    BY <1>2, <2>4, <2>5, <2>6, LockOutcome
<1>3. CASE KisTick
  <2> SUFFICES ASSUME NEW p \in KisProcesses, InTheLock(p)
               PROVE  /\ lease'[p] > 0 => lock'[kind[p]] = [owner |-> p, left |-> lease'[p]]
                      /\ ~ overran' => lease'[p] > 0
    BY <1>1, <1>3 DEF LeaseIsLock, OnTime, KisTick, InTheLock
  <2>1. lease[p] \in Nat /\ kind[p] \in CredentialKinds
    BY TimesAreNumbers DEF KisTypeOK
  <2>2. lease'[p] = Down(lease[p])
    BY <1>3 DEF KisTick
  <2>3. ASSUME lease'[p] > 0 PROVE lock'[kind[p]] = [owner |-> p, left |-> lease'[p]]
    <3>1. lease[p] > 1 /\ lease'[p] = lease[p] - 1
      BY <2>1, <2>2, <2>3 DEF Down
    <3>2. lock[kind[p]] = [owner |-> p, left |-> lease[p]]
      BY <2>1, <3>1 DEF LeaseIsLock
    <3>3. lock'[kind[p]] = [lock[kind[p]] EXCEPT !.left = lock[kind[p]].left - 1]
      BY <1>3, <2>1, <3>1, <3>2 DEF KisTick
    <3> QED
      BY <3>1, <3>2, <3>3
  <2>4. ASSUME ~ overran' PROVE lease'[p] > 0
    <3>1. ~ (lease[p] <= 1)
      BY <1>3, <2>4 DEF KisTick
    <3> QED
      BY <2>1, <2>2, <3>1 DEF Down
  <2> QED
    BY <2>3, <2>4
<1>4. CASE SharedKeyExpires \/ UNCHANGED kisVars
  <2>1. UNCHANGED <<stage, kind, lease, lock, overran>>
    BY <1>4 DEF SharedKeyExpires, kisVars
  <2> QED
    BY <2>1 DEF LeaseIsLock, OnTime, InTheLock
<1> QED
  BY <1>2, <1>3, <1>4 DEF KisNext, KisStep

\* Two processes cannot both hold a running lease of one lock.
LEMMA LeasesExclude == KisTypeOK /\ LeaseIsLock => OneIssuerAtATime
<1> SUFFICES ASSUME KisTypeOK, LeaseIsLock, NEW p \in KisProcesses, NEW q \in KisProcesses,
                    kind[p] = kind[q], InTheLock(p), InTheLock(q), lease[p] # 0, lease[q] # 0
             PROVE  p = q
  BY DEF OneIssuerAtATime
<1>1. lease[p] > 0 /\ lease[q] > 0
  BY CountsAreNumbers
<1>2. /\ lock[kind[p]] = [owner |-> p, left |-> lease[p]]
      /\ lock[kind[p]] = [owner |-> q, left |-> lease[q]]
  BY <1>1 DEF LeaseIsLock
<1> QED
  BY <1>2

-----------------------------------------------------------------------------
(* Nothing is issued needlessly.                                         *)

\* While nobody overran its lease no two processes are in the same lock.
LEMMA AloneInTheLock ==
  ASSUME KisTypeOK, Locking, ~ overran, NEW p \in KisProcesses, NEW q \in KisProcesses,
         kind[p] = kind[q], InTheLock(p), InTheLock(q)
  PROVE  p = q
<1>1. OneIssuerAtATime
  BY LeasesExclude DEF Locking
<1>2. lease[p] # 0 /\ lease[q] # 0
  BY CountsAreNumbers DEF Locking, OnTime
<1> QED
  BY <1>1, <1>2 DEF OneIssuerAtATime

\* A step of a process puts no good credential into Valkey but the one it has issued.
LEMMA SharedOutcome ==
  ASSUME KisTypeOK, NEW p \in KisProcesses, KisStep(p), NEW k \in CredentialKinds
  PROVE  \/ shared'[k] \in {shared[k], Nothing}
         \/ /\ Store(p) /\ k = kind[p] /\ shared'[k] = using[p]
            /\ stage'[p] \notin {"waitToIssue", "issuing", "store"}
<1>1. shared \in [CredentialKinds -> Known] /\ kind[p] \in CredentialKinds
  BY DEF KisTypeOK
<1>2. CASE Store(p) /\ IsValidAt(kind[p], using[p])
  <2>1. shared' = [shared EXCEPT ![kind[p]] = using[p]] /\ Leave(p, using[p])
    BY <1>2 DEF Store
  <2>2. stage'[p] \in {"waitToSend", "subscribe", "idle"}
    BY <2>1 DEF Leave, GoOn, WaitsFor, Ends, KisTypeOK
  <2> QED
    BY <1>1, <1>2, <2>1, <2>2
<1>3. CASE ~ (Store(p) /\ IsValidAt(kind[p], using[p]))
  <2>1. shared' \in {shared, Cleaned(kind[p]), Emptied("approval")}
    BY <1>3 DEF KisStep, AskCredential, TakeLock, LookAgain, BeginIssue, KisAnswers, Store, Send,
                SessionEnds, SubscriptionRefused, GiveUp, KisCallFails, ProcessDies
  <2> QED
    BY <1>1, <2>1 DEF Cleaned, Emptied
<1> QED
  BY <1>2, <1>3

LEMMA MissingStep ==
  ASSUME KisTypeOK, HasCredential, Locking, MissingStaysMissing, [KisNext]_kisVars
  PROVE  MissingStaysMissing'
<1> DEFINE Asking(p) == stage[p] \in {"waitToIssue", "issuing", "store"}
<1>1. kind' = kind /\ \A p \in KisProcesses : kind[p] \in CredentialKinds
  BY KindsStay, CountsAreNumbers
<1>2. ASSUME NEW p \in KisProcesses, KisStep(p) PROVE MissingStaysMissing'
  <2>1. /\ overran' = overran
        /\ \A c \in Issued : life'[c] = life[c]
    <3>1. CASE KisAnswers(p)
      BY <3>1, IssuedAreNumbers DEF KisAnswers, NewCredential, Issued, KisTypeOK
    <3>2. CASE UNCHANGED <<life, overran>>
      BY <3>2
    <3> QED
      BY <1>2, <3>1, <3>2
      DEF KisStep, AskCredential, TakeLock, LookAgain, BeginIssue, Store, Send,
          SessionEnds, SubscriptionRefused, GiveUp, KisCallFails, ProcessDies
  <2>2. ASSUME NEW k \in CredentialKinds, ~ IsValidAt(k, shared[k]), shared'[k] = shared[k]
        PROVE  ~ IsValidAt(k, shared[k])'
    <3>1. shared[k] \in Known
      BY DEF KisTypeOK
    <3>2. CASE shared[k] = Nothing
      BY <2>2, <3>2 DEF IsValidAt
    <3>3. CASE shared[k] \in Issued
      BY <2>1, <2>2, <3>3 DEF IsValidAt
    <3> QED
      BY <3>1, <3>2, <3>3 DEF Known
  <2> SUFFICES ASSUME NEW q \in KisProcesses, Asking(q)', ~ overran
               PROVE  ~ IsValidAt(kind[q], shared[kind[q]])'
    BY <1>1, <2>1 DEF MissingStaysMissing
  <2>3. CASE shared'[kind[q]] = Nothing
    BY <1>1, <2>3 DEF IsValidAt
  <2>4. ASSUME Store(p), kind[q] = kind[p], stage'[p] \notin {"waitToIssue", "issuing", "store"}
        PROVE  FALSE
    <3>1. q # p
      BY <2>4
    <3>2. InTheLock(q) /\ InTheLock(p)
      BY <1>2, <2>4, <3>1, OthersStay DEF InTheLock, Store
    <3> QED
      BY <2>4, <3>1, <3>2, AloneInTheLock
  <2>5. CASE shared'[kind[q]] = shared[kind[q]]
    <3>1. CASE Asking(q)
      BY <1>1, <2>2, <2>5, <3>1 DEF MissingStaysMissing
    <3>2. CASE ~ Asking(q)
      <4>1. q = p
        BY <1>2, <3>2, OthersStay
      <4>2. LookAgain(p) /\ StillMissing(kind[p])
        <5>1. ~ GoesOn(p)
          BY <4>1 DEF GoesOn
        <5>2. stage'[p] # stage[p]
          BY <3>2, <4>1
        <5>3. ~ KisAnswers(p) /\ ~ TakeLock(p) /\ ~ BeginIssue(p)
          BY <3>2, <4>1 DEF KisAnswers, TakeLock, BeginIssue, Stays, KisTypeOK
        <5>4. \A cred : Leave(p, cred) => stage'[p] \in {"waitToSend", "subscribe", "idle"}
          BY DEF Leave, GoOn, WaitsFor, Ends, KisTypeOK
        <5>5. ~ Store(p)
          BY <4>1, <5>4 DEF Store, Ends, KisTypeOK
        <5>6. ~ AskCredential(p)
          BY <4>1 DEF AskCredential, GoOn, WaitsFor, KisTypeOK
        <5>7. ~ Ends(p)
          BY <4>1 DEF Ends, KisTypeOK
        <5>8. LookAgain(p)
          BY <1>2, <5>3, <5>5, <5>6, <5>7
          DEF KisStep, Send, SessionEnds, SubscriptionRefused, GiveUp, KisCallFails, ProcessDies
        <5> QED
          BY <4>1, <5>4, <5>8 DEF LookAgain
      <4> QED
        BY <1>1, <2>2, <2>5, <4>1, <4>2 DEF StillMissing
    <3> QED
      BY <3>1, <3>2
  <2> QED
    BY <1>1, <1>2, <2>3, <2>4, <2>5, SharedOutcome
<1>3. CASE KisTick
  <2> SUFFICES ASSUME NEW p \in KisProcesses, Asking(p), ~ overran
               PROVE  ~ IsValidAt(kind[p], shared[kind[p]])'
    BY <1>1, <1>3 DEF MissingStaysMissing, KisTick, IsValidAt
  <2>1. ~ IsValidAt(kind[p], shared[kind[p]]) /\ shared[kind[p]] \in Known
    BY <1>1 DEF MissingStaysMissing, KisTypeOK
  <2>2. UNCHANGED <<kind, shared>>
    BY <1>3 DEF KisTick
  <2>3. CASE shared[kind[p]] = Nothing
    BY <2>2, <2>3 DEF IsValidAt
  <2>4. CASE shared[kind[p]] \in Issued
    <3>1. /\ life[shared[kind[p]]] \in Nat
          /\ life'[shared[kind[p]]] = Down(life[shared[kind[p]]])
      BY <1>3, <2>4, CountsAreNumbers DEF KisTick
    <3>2. /\ life'[shared[kind[p]]] \in Nat
          /\ life'[shared[kind[p]]] <= life[shared[kind[p]]]
      BY <3>1, DownFacts
    <3>3. shared[kind[p]] # Nothing
      BY <2>4, IssuedAreNumbers DEF KisTypeOK, Issued, Nothing
    <3>4. kind[p] = "token" /\ ~ (life[shared[kind[p]]] > SafetyMargin)
      BY <2>1, <3>3 DEF IsValidAt
    <3>5. ~ (life'[shared[kind[p]]] > SafetyMargin)
      BY <3>1, <3>2, <3>4, TimesAreNumbers
    <3> QED
      BY <2>2, <3>4, <3>5 DEF IsValidAt
  <2> QED
    BY <2>1, <2>3, <2>4 DEF Known
<1>4. CASE SharedKeyExpires
  <2>1. /\ UNCHANGED <<stage, kind, overran, life>>
        /\ \A k \in CredentialKinds : shared'[k] \in {shared[k], Nothing}
    BY <1>4 DEF SharedKeyExpires, KisTypeOK
  <2> QED
    BY <1>1, <2>1 DEF MissingStaysMissing, IsValidAt
<1>5. CASE UNCHANGED kisVars
  <2>1. UNCHANGED <<stage, kind, overran, life, shared>>
    BY <1>5 DEF kisVars
  <2> QED
    BY <2>1 DEF MissingStaysMissing, IsValidAt
<1> QED
  BY <1>2, <1>3, <1>4, <1>5 DEF KisNext, KisStep

-----------------------------------------------------------------------------
(* A refused key is gone.                                                *)

KeysOK == RefusedIsNowhere /\ NewKeyIsUnknown

LEMMA KeysStep ==
  ASSUME KisTypeOK, HasCredential, KeysOK, [KisNext]_kisVars
  PROVE  KeysOK'
<1> USE DEF KeysOK
<1>1. kind' = kind /\ \A p \in KisProcesses : kind[p] \in CredentialKinds
  BY KindsStay, CountsAreNumbers
<1>2. \A p \in KisProcesses : Nothing \notin refusedKeys[p] /\ refusedKeys[p] \subseteq Issued
  BY IssuedAreNumbers DEF KisTypeOK, Issued, Nothing
<1>3. ASSUME NEW p \in KisProcesses, KisStep(p) PROVE KeysOK'
  <2>1. \A q \in KisProcesses : q # p =>
          /\ stage'[q] = stage[q] /\ using'[q] = using[q] /\ memory'[q] = memory[q]
          /\ refusedKeys'[q] = refusedKeys[q]
    BY <1>3, OthersStay
  <2>2. \A q \in KisProcesses : using[q] \in Known /\ memory[q] \in Known
    BY DEF KisTypeOK
  <2>3. CASE SubscriptionRefused(p)
    <3>1. /\ shared' = Emptied("approval") /\ shared'["approval"] = Nothing
          /\ memory'[p] = Nothing /\ stage'[p] = "idle" /\ using'[p] = Nothing
          /\ stage[p] = "subscribe" /\ refusedKeys'[p] = refusedKeys[p] \cup {using[p]}
      BY <2>3 DEF SubscriptionRefused, Emptied, Ends, KisTypeOK, CredentialKinds
    <3>2. kind[p] = "approval" /\ using[p] # Nothing /\ using[p] \in Issued
      BY <3>1, IssuedAreNumbers
      DEF RefusedIsNowhere, HasCredential, KisTypeOK, Issued, Nothing
    <3>3. RefusedIsNowhere'
      BY <1>1, <1>2, <2>1, <3>1, <3>2 DEF RefusedIsNowhere
    <3>4. ASSUME NEW q \in KisProcesses, stage'[q] = "store", kind[q] = "approval"
          PROVE  /\ using'[q] # shared'["approval"]
                 /\ \A r \in KisProcesses : kind[r] = "approval" =>
                      /\ using'[q] \notin refusedKeys'[r] /\ using'[q] # memory'[r]
                      /\ r # q => using'[q] # using'[r]
      <4>1. q # p /\ stage[q] = "store" /\ using'[q] = using[q]
        BY <2>1, <3>1, <3>4
      <4>2. using[q] \in Issued /\ using[q] # Nothing
        BY <4>1, IssuedAreNumbers DEF HasCredential, KisTypeOK, Issued, Nothing
      <4>3. using[q] # using[p] /\ using[q] \notin refusedKeys[p]
        BY <3>2, <3>4, <4>1 DEF NewKeyIsUnknown
      <4> QED
        BY <2>1, <3>1, <3>4, <4>1, <4>2, <4>3 DEF NewKeyIsUnknown
    <3> QED
      BY <1>1, <3>3, <3>4 DEF NewKeyIsUnknown
  <2>4. CASE KisAnswers(p)
    <3>1. UNCHANGED <<shared, memory, refusedKeys>> /\ stage'[p] = "store"
      BY <2>4 DEF KisAnswers, KisTypeOK
    <3>2. RefusedIsNowhere'
      BY <1>1, <2>1, <3>1 DEF RefusedIsNowhere
    <3>3. kind[p] = "approval" => using'[p] \notin Known
      <4>1. kind[p] = "approval" => NewCredential /\ using' = [using EXCEPT ![p] = Len(life')]
        BY <2>4 DEF KisAnswers
      <4>2. NewCredential => Len(life') \notin Known
        BY IssuedAreNumbers DEF NewCredential, KisTypeOK, Known, Issued, Nothing
      <4> QED
        BY <4>1, <4>2 DEF KisTypeOK
    <3>4. shared["approval"] \in Known /\ \A r \in KisProcesses : refusedKeys[r] \subseteq Known
      BY DEF KisTypeOK, CredentialKinds, Known
    <3>5. ASSUME NEW q \in KisProcesses, stage'[q] = "store", kind[q] = "approval"
          PROVE  /\ using'[q] # shared'["approval"]
                 /\ \A r \in KisProcesses : kind[r] = "approval" =>
                      /\ using'[q] \notin refusedKeys'[r] /\ using'[q] # memory'[r]
                      /\ r # q => using'[q] # using'[r]
      <4>1. CASE q = p
        BY <2>1, <2>2, <3>1, <3>3, <3>4, <3>5, <4>1
      <4>2. CASE q # p
        BY <2>1, <2>2, <3>1, <3>3, <3>5, <4>2 DEF NewKeyIsUnknown
      <4> QED
        BY <4>1, <4>2
    <3> QED
      BY <1>1, <3>2, <3>5 DEF NewKeyIsUnknown
  <2>5. CASE GoesOn(p) /\ ~ SubscriptionRefused(p) /\ ~ KisAnswers(p)
    <3>1. UNCHANGED refusedKeys
      BY <1>3, <2>5
      DEF KisStep, AskCredential, TakeLock, LookAgain, BeginIssue, Store, Send, SessionEnds,
          GiveUp, KisCallFails, ProcessDies
    <3>2. /\ stage'[p] \in {"waitToSend", "subscribe"} /\ memory'[p] = using'[p]
          /\ stage'[p] = "subscribe" => kind[p] = "approval"
      BY <1>1, <2>5 DEF GoesOn, CredentialKinds
    <3>3. CASE using'[p] \in {memory[p], shared[kind[p]]} /\ ~ Store(p)
      <4>1. shared'["approval"] \in {shared["approval"], Nothing}
        BY <1>3, <3>3, SharedOutcome DEF CredentialKinds
      <4>2. RefusedIsNowhere'
        BY <1>1, <1>2, <2>1, <3>1, <3>2, <3>3, <4>1 DEF RefusedIsNowhere
      <4>3. ASSUME NEW q \in KisProcesses, stage'[q] = "store", kind[q] = "approval"
            PROVE  /\ using'[q] # shared'["approval"]
                   /\ \A r \in KisProcesses : kind[r] = "approval" =>
                        /\ using'[q] \notin refusedKeys'[r] /\ using'[q] # memory'[r]
                        /\ r # q => using'[q] # using'[r]
        <5>1. q # p /\ stage[q] = "store" /\ using'[q] = using[q]
          BY <2>1, <3>2, <4>3
        <5>2. using[q] # Nothing
          BY <5>1, IssuedAreNumbers DEF HasCredential, KisTypeOK, Issued, Nothing
        <5> QED
          BY <2>1, <3>1, <3>2, <3>3, <4>1, <4>3, <5>1, <5>2 DEF NewKeyIsUnknown
      <4> QED
        BY <1>1, <4>2, <4>3 DEF NewKeyIsUnknown
    <3>4. CASE Store(p)
      <4>1. stage[p] = "store" /\ stage'[p] # "store"
        BY <3>2, <3>4 DEF Store
      <4>2. IsValidAt(kind[p], using[p]) /\ shared' = [shared EXCEPT ![kind[p]] = using[p]]
            /\ using'[p] = using[p]
        <5>1. CASE IsValidAt(kind[p], using[p])
          <6>1. shared' = [shared EXCEPT ![kind[p]] = using[p]] /\ Leave(p, using[p])
            BY <3>4, <5>1 DEF Store
          <6>2. using'[p] = using[p]
            BY <3>2, <6>1 DEF Leave, GoOn, WaitsFor, Ends, KisTypeOK
          <6> QED
            BY <5>1, <6>1, <6>2
        <5>2. CASE ~ IsValidAt(kind[p], using[p])
          BY <3>2, <3>4, <5>2 DEF Store, Ends, KisTypeOK
        <5> QED
          BY <5>1, <5>2
      <4>3. /\ kind[p] = "approval" => shared'["approval"] = using[p]
            /\ kind[p] # "approval" => shared'["approval"] = shared["approval"]
        BY <1>1, <4>2 DEF KisTypeOK, CredentialKinds
      <4>4. RefusedIsNowhere'
        BY <1>1, <2>1, <3>1, <3>2, <4>1, <4>2, <4>3 DEF RefusedIsNowhere, NewKeyIsUnknown
      <4>5. ASSUME NEW q \in KisProcesses, stage'[q] = "store", kind[q] = "approval"
            PROVE  /\ using'[q] # shared'["approval"]
                   /\ \A r \in KisProcesses : kind[r] = "approval" =>
                        /\ using'[q] \notin refusedKeys'[r] /\ using'[q] # memory'[r]
                        /\ r # q => using'[q] # using'[r]
        <5>1. q # p /\ stage[q] = "store" /\ using'[q] = using[q]
          BY <2>1, <4>1, <4>5
        <5> QED
          BY <2>1, <3>1, <3>2, <4>2, <4>3, <4>5, <5>1 DEF NewKeyIsUnknown
      <4> QED
        BY <1>1, <4>4, <4>5 DEF NewKeyIsUnknown
    <3> QED
      BY <2>5, <3>3, <3>4 DEF GoesOn
  <2>6. CASE WaitsOrEnds(p) /\ ~ SubscriptionRefused(p) /\ ~ KisAnswers(p)
    <3>1. UNCHANGED refusedKeys
      BY <1>3, <2>6
      DEF KisStep, AskCredential, TakeLock, LookAgain, BeginIssue, Store, Send, SessionEnds,
          GiveUp, KisCallFails, ProcessDies
    <3>2. /\ stage'[p] \notin {"store", "waitToSend", "subscribe"}
          /\ using'[p] \in {using[p], Nothing}
      BY <2>6 DEF WaitsOrEnds
    <3>3. CASE ~ Store(p)
      <4>1. shared'["approval"] \in {shared["approval"], Nothing}
        BY <1>3, <3>3, SharedOutcome DEF CredentialKinds
      <4>2. memory'[p] \in {memory[p], Nothing, shared[kind[p]]}
        BY <2>6, <3>3 DEF WaitsOrEnds
      <4>3. RefusedIsNowhere'
        BY <1>1, <1>2, <2>1, <3>1, <3>2, <4>1, <4>2 DEF RefusedIsNowhere
      <4>4. ASSUME NEW q \in KisProcesses, stage'[q] = "store", kind[q] = "approval"
            PROVE  /\ using'[q] # shared'["approval"]
                   /\ \A r \in KisProcesses : kind[r] = "approval" =>
                        /\ using'[q] \notin refusedKeys'[r] /\ using'[q] # memory'[r]
                        /\ r # q => using'[q] # using'[r]
        <5>1. q # p /\ stage[q] = "store" /\ using'[q] = using[q]
          BY <2>1, <3>2, <4>4
        <5>2. using[q] # Nothing
          BY <5>1, IssuedAreNumbers DEF HasCredential, KisTypeOK, Issued, Nothing
        <5> QED
          BY <2>1, <3>1, <3>2, <4>1, <4>2, <4>4, <5>1, <5>2 DEF NewKeyIsUnknown
      <4> QED
        BY <1>1, <4>3, <4>4 DEF NewKeyIsUnknown
    <3>4. CASE Store(p)
      <4>1. stage[p] = "store" /\ shared' \in {shared, [shared EXCEPT ![kind[p]] = using[p]]}
            /\ memory'[p] \in {memory[p], using[p]}
        <5>1. CASE IsValidAt(kind[p], using[p])
          <6>1. shared' = [shared EXCEPT ![kind[p]] = using[p]] /\ Leave(p, using[p])
            BY <3>4, <5>1 DEF Store
          <6>2. memory'[p] = using[p]
            BY <6>1 DEF Leave, GoOn, KisTypeOK
          <6> QED
            BY <3>4, <6>1, <6>2 DEF Store
        <5>2. CASE ~ IsValidAt(kind[p], using[p])
          BY <3>4, <5>2 DEF Store
        <5> QED
          BY <5>1, <5>2
      <4>2. /\ kind[p] = "approval" => shared'["approval"] \in {shared["approval"], using[p]}
            /\ kind[p] # "approval" => shared'["approval"] = shared["approval"]
        BY <1>1, <4>1 DEF KisTypeOK, CredentialKinds
      <4>3. RefusedIsNowhere'
        BY <1>1, <2>1, <3>1, <3>2, <4>1, <4>2 DEF RefusedIsNowhere, NewKeyIsUnknown
      <4>4. ASSUME NEW q \in KisProcesses, stage'[q] = "store", kind[q] = "approval"
            PROVE  /\ using'[q] # shared'["approval"]
                   /\ \A r \in KisProcesses : kind[r] = "approval" =>
                        /\ using'[q] \notin refusedKeys'[r] /\ using'[q] # memory'[r]
                        /\ r # q => using'[q] # using'[r]
        <5>1. q # p /\ stage[q] = "store" /\ using'[q] = using[q]
          BY <2>1, <3>2, <4>4
        <5>2. using[q] # Nothing
          BY <5>1, IssuedAreNumbers DEF HasCredential, KisTypeOK, Issued, Nothing
        <5> QED
          BY <2>1, <3>1, <3>2, <4>1, <4>2, <4>4, <5>1, <5>2 DEF NewKeyIsUnknown
      <4> QED
        BY <1>1, <4>3, <4>4 DEF NewKeyIsUnknown
    <3> QED
      BY <3>3, <3>4
  <2> QED
    BY <1>3, <2>3, <2>4, <2>5, <2>6, CredentialOutcome
<1>4. CASE KisTick
  <2>1. UNCHANGED <<kind, stage, using, memory, shared, refusedKeys>>
    BY <1>4 DEF KisTick
  <2> QED
    BY <2>1 DEF RefusedIsNowhere, NewKeyIsUnknown
<1>5. CASE SharedKeyExpires
  <2>1. /\ UNCHANGED <<kind, stage, using, memory, refusedKeys>>
        /\ shared'["approval"] = Nothing
    BY <1>5 DEF SharedKeyExpires, KisTypeOK, CredentialKinds
  <2>2. \A q \in KisProcesses : stage[q] = "store" => using[q] # Nothing
    BY IssuedAreNumbers DEF HasCredential, KisTypeOK, Issued, Nothing
  <2> QED
    BY <1>2, <2>1, <2>2 DEF RefusedIsNowhere, NewKeyIsUnknown
<1>6. CASE UNCHANGED kisVars
  <2>1. UNCHANGED <<kind, stage, using, memory, shared, refusedKeys>>
    BY <1>6 DEF kisVars
  <2> QED
    BY <2>1 DEF RefusedIsNowhere, NewKeyIsUnknown
<1> QED
  BY <1>3, <1>4, <1>5, <1>6 DEF KisNext, KisStep

-----------------------------------------------------------------------------
(* The contract.                                                         *)

KisInv ==
  KisTypeOK /\ HasCredential /\ TokenOutlastsWait /\ Locking /\ MissingStaysMissing /\ KeysOK

\* The invariant holds in every state.
LEMMA KisInvariant == KisSpec => []KisInv
<1>1. KisInit => TokenOutlastsWait /\ Locking /\ MissingStaysMissing /\ KeysOK
  BY DEF KisInit, TokenOutlastsWait, Locking, LeaseIsLock, OnTime, InTheLock,
         MissingStaysMissing, KeysOK, RefusedIsNowhere, NewKeyIsUnknown
<1>2. KisInv /\ [KisNext]_kisVars => KisInv'
  BY KisTypeStep, HasCredentialStep, TokenStep, LockingStep, MissingStep, KeysStep DEF KisInv
<1>3. KisInit => KisInv
  BY <1>1, KisInitTypes DEF KisInv
<1> QED
  BY <1>2, <1>3, PTL DEF KisSpec

\* The processes that share the credentials keep their promises, for any number of
\* processes, any lifetimes and margins, and any faults: no request goes out with a
\* token that ran out while it waited, no two processes issue at a time under leases
\* that run, nothing is issued needlessly, and a refused key is gone.
THEOREM CoordinationCorrect == KisSpec => CoordinationContract
<1>1. KisInv => NothingSentExpired /\ OneIssuerAtATime /\ RefusedIsGone
  <2> SUFFICES ASSUME KisInv PROVE NothingSentExpired /\ OneIssuerAtATime /\ RefusedIsGone
    OBVIOUS
  <2>1. ASSUME NEW p \in KisProcesses, stage[p] = "waitToSend", patience[p] > 0
        PROVE  life[using[p]] > 0
    <3>1. using[p] \in Issued /\ life[using[p]] + WaitLimit > SafetyMargin + patience[p]
      BY <2>1 DEF KisInv, HasCredential, TokenOutlastsWait
    <3>2. life[using[p]] \in Nat /\ patience[p] \in Nat
      BY <3>1, CountsAreNumbers DEF KisInv
    <3> QED
      BY <2>1, <3>1, <3>2, TimesAreNumbers
  <2> QED
    BY <2>1, LeasesExclude
    DEF KisInv, Locking, KeysOK, RefusedIsNowhere, NothingSentExpired, RefusedIsGone
<1>2. KisInv /\ [KisNext]_kisVars => NoNeedlessIssue
  <2> SUFFICES ASSUME KisInv, [KisNext]_kisVars, NEW p \in KisProcesses,
                      stage[p] = "waitToIssue", ~ overran
               PROVE  ~ IsValidAt(kind[p], shared[kind[p]])
    BY DEF NoNeedlessIssue
  <2> QED
    BY DEF KisInv, MissingStaysMissing
<1>3. (KisInv => NothingSentExpired /\ OneIssuerAtATime /\ RefusedIsGone)'
  BY <1>1, PTL
<1>4. KisInv /\ KisInv' /\ [KisNext]_kisVars =>
        [/\ NothingSentExpired' /\ OneIssuerAtATime' /\ RefusedIsGone'
         /\ NoNeedlessIssue]_kisVars
  BY <1>2, <1>3
<1> QED
  BY <1>4, KisInvariant, PTL DEF KisSpec, CoordinationContract

-----------------------------------------------------------------------------
(* Sweeps: their tasks.                                                  *)

FlatUpTo(seqs) ==
  CHOOSE upTo : upTo = [i \in 1..Len(seqs) |-> IF i = 1 THEN seqs[i] ELSE upTo[i-1] \o seqs[i]]

\* Each result is the one before, followed by one sequence more.
LEMMA FlattenRecurs ==
  ASSUME NEW S, NEW seqs \in Seq(Seq(S)), Len(seqs) # 0
  PROVE  /\ FlattenSeq(seqs) = FlatUpTo(seqs)[Len(seqs)]
         /\ \A i \in 1 .. Len(seqs) :
              FlatUpTo(seqs)[i] = IF i = 1 THEN seqs[i] ELSE FlatUpTo(seqs)[i - 1] \o seqs[i]
<1> DEFINE N == Len(seqs)
           joins(g, n) == g = [i \in 1..n |-> IF i = 1 THEN seqs[i] ELSE g[i - 1] \o seqs[i]]
<1>0. N \in Nat
  OBVIOUS
<1>1. \E g : joins(g, N)
  <2> DEFINE W == {n \in Nat : ~ \E g : joins(g, n)}
  <2> SUFFICES ASSUME W # {} PROVE FALSE
    BY <1>0
  <2>1. PICK n \in W : \A m \in W : n <= m
    <3>1. W \subseteq Nat /\ W # {}
      OBVIOUS
    <3> HIDE DEF W
    <3> QED
      BY <3>1, SmallestNumber
  <2>2. n \in Nat /\ ~ \E g : joins(g, n)
    OBVIOUS
  <2>3. n # 0
    <3>1. joins([i \in 1..0 |-> <<>>], 0)
      OBVIOUS
    <3> QED
      BY <2>2, <3>1
  <2>4. PICK f : joins(f, n - 1)
    <3>1. n - 1 \in Nat /\ ~ (n <= n - 1)
      BY <2>2, <2>3
    <3>2. n - 1 \notin W
      <4> HIDE DEF W
      <4> QED
        BY <2>1, <3>1
    <3> HIDE DEF joins
    <3> QED
      BY <3>1, <3>2
  <2> DEFINE h == [i \in 1..n |-> IF i = 1 THEN seqs[i] ELSE f[i - 1] \o seqs[i]]
  <2>5. \A k \in 1..(n - 1) : f[k] = h[k]
    <3>1. \A k \in 1..(n - 1) : f[k] = IF k = 1 THEN seqs[k] ELSE f[k - 1] \o seqs[k]
      BY <2>4, Zenon
    <3>2. \A k \in 1..(n - 1) : k \in 1..n
      BY <2>2
    <3> QED
      BY <3>1, <3>2, Zenon
  <2>6. \A k \in 1..n : k # 1 => k - 1 \in 1..(n - 1)
    BY <2>2
  <2>7. \A k \in 1..n : k # 1 => f[k - 1] = h[k - 1]
    <3> HIDE DEF h, joins
    <3> QED
      BY <2>5, <2>6, Zenon
  <2>8. joins(h, n)
    BY <2>7
  <2> QED
    BY <2>2, <2>8
<1>2. joins(FlatUpTo(seqs), N)
  BY <1>1 DEF FlatUpTo
<1>3. FlattenSeq(seqs) = FlatUpTo(seqs)[N]
  BY <1>0 DEF FlattenSeq, FlatUpTo
<1>4. \A k \in 1..N : FlatUpTo(seqs)[k] = IF k = 1 THEN seqs[k] ELSE FlatUpTo(seqs)[k - 1] \o seqs[k]
  <2> HIDE DEF N
  <2> QED
    BY <1>2, Zenon
<1> QED
  BY <1>3, <1>4

\* The joined sequence has every element, and no other.
LEMMA FlattenHasAll ==
  ASSUME NEW S, NEW seqs \in Seq(Seq(S))
  PROVE  /\ FlattenSeq(seqs) \in Seq(S)
         /\ \A i \in 1 .. Len(seqs) : \A j \in 1 .. Len(seqs[i]) :
              \E m \in 1 .. Len(FlattenSeq(seqs)) : FlattenSeq(seqs)[m] = seqs[i][j]
<1>1. CASE Len(seqs) = 0
  <2>1. seqs = <<>>
    BY <1>1
  <2>2. FlattenSeq(seqs) = <<>>
    BY <2>1, <1>1 DEF FlattenSeq
  <2> QED
    BY <1>1, <2>2
<1>2. CASE Len(seqs) # 0
  <2> DEFINE g == FlatUpTo(seqs)
             good(n) == /\ g[n] \in Seq(S)
                        /\ \A i \in 1..n : \A j \in 1..Len(seqs[i]) : \E m \in 1..Len(g[n]) : g[n][m] = seqs[i][j]
             W == {n \in 1 .. Len(seqs) : ~ good(n)}
  <2>0. Len(seqs) \in Nat /\ Len(seqs) \in 1 .. Len(seqs) /\ \A i \in 1 .. Len(seqs) : seqs[i] \in Seq(S)
    BY <1>2
  <2>1. W = {}
    <3> SUFFICES ASSUME W # {} PROVE FALSE
      OBVIOUS
    <3>1. PICK n \in W : \A m \in W : n <= m
      <4>1. W \subseteq Nat /\ W # {}
        <5> HIDE DEF good
        <5> QED
          BY <2>0
      <4> HIDE DEF W
      <4> QED
        BY <4>1, SmallestNumber
    <3>2. n \in 1 .. Len(seqs) /\ ~ good(n)
      BY <3>1
    <3>3. g[n] = IF n = 1 THEN seqs[n] ELSE g[n - 1] \o seqs[n]
      <4> HIDE DEF g
      <4> QED
        BY <1>2, <3>2, FlattenRecurs, Zenon DEF g
    <3>4. n # 1
      <4> SUFFICES ASSUME n = 1 PROVE good(n)
        BY <3>2
      <4>1. g[n] = seqs[n]
        BY <3>3
      <4>2. \A i \in 1 .. n : i = n
        OBVIOUS
      <4> HIDE DEF g
      <4> QED
        BY <4>1, <4>2, <2>0, <3>2
    <3>5. n - 1 \in 1 .. Len(seqs) /\ ~ (n <= n - 1)
      BY <2>0, <3>2, <3>4
    <3>6. good(n - 1)
      <4>1. n - 1 \notin W
        <5> HIDE DEF W
        <5> QED
          BY <3>1, <3>5
      <4> HIDE DEF good
      <4> QED
        BY <3>5, <4>1
    <3> DEFINE a == g[n - 1]
               b == seqs[n]
    <3>7. a \in Seq(S) /\ b \in Seq(S) /\ g[n] = a \o b
      BY <2>0, <3>2, <3>3, <3>4, <3>6
    <3>8. \A i \in 1..(n - 1) : \A j \in 1..Len(seqs[i]) : \E m \in 1..Len(a) : a[m] = seqs[i][j]
      BY <3>6
    <3> HIDE DEF g, a
    <3>9. /\ a \o b \in Seq(S) /\ Len(a) \in Nat /\ Len(b) \in Nat /\ Len(a \o b) = Len(a) + Len(b)
          /\ \A m \in 1..Len(a) : m \in 1..Len(a \o b) /\ (a \o b)[m] = a[m]
          /\ \A m \in 1..Len(b) : m + Len(a) \in 1..Len(a \o b) /\ (a \o b)[m + Len(a)] = b[m]
      <4> HIDE DEF b
      <4> QED
        BY <3>7
    <3>10. ASSUME NEW i \in 1..n, NEW j \in 1..Len(seqs[i])
           PROVE  \E m \in 1..Len(a \o b) : (a \o b)[m] = seqs[i][j]
      <4>1. CASE i = n
        BY <4>1, <3>9
      <4>2. CASE i # n
        <5>1. i \in 1..(n - 1)
          BY <3>2, <4>2
        <5> QED
          BY <5>1, <3>8, <3>9
      <4> QED
        BY <4>1, <4>2
    <3>11. g[n] \in Seq(S) /\ \A i \in 1..n : \A j \in 1..Len(seqs[i]) : \E m \in 1..Len(g[n]) : g[n][m] = seqs[i][j]
      <4> HIDE DEF b
      <4> QED
        BY <3>7, <3>9, <3>10
    <3>12. good(n)
      BY <3>11
    <3> HIDE DEF good
    <3> QED
      BY <3>2, <3>12
  <2>2. good(Len(seqs))
    <3> HIDE DEF good
    <3> QED
      BY <2>0, <2>1
  <2>3. FlattenSeq(seqs) = g[Len(seqs)]
    BY <1>2, FlattenRecurs
  <2> QED
    BY <2>2, <2>3
<1> QED
  BY <1>1, <1>2

\* The windows of days leave out no day.
LEMMA ChunksCover ==
  ASSUME NEW last \in Nat \ {0}, NEW n \in Nat \ {0}
  PROVE  /\ Chunks(1, last, n) \in Seq(SUBSET (1 .. last))
         /\ \A d \in 1 .. last : \E k \in 1 .. Len(Chunks(1, last, n)) : d \in Chunks(1, last, n)[k]
<1> DEFINE size == (last - 1) \div n + 1
<1>1. size \in Nat \ {0}
  OBVIOUS
<1>2. \A k \in 1 .. size : {d \in 1 + (k - 1) * n .. 1 + k * n - 1 : d <= last} \subseteq 1 .. last
  <2> SUFFICES ASSUME NEW k \in 1 .. size, NEW d \in 1 + (k - 1) * n .. 1 + k * n - 1, d <= last
               PROVE  d \in 1 .. last
    OBVIOUS
  <2>1. k - 1 \in Nat
    BY <1>1
  <2>2. (k - 1) * n \in Nat
    BY <2>1
  <2> QED
    BY <2>2
<1>3. Chunks(1, last, n) \in Seq(SUBSET (1 .. last)) /\ Len(Chunks(1, last, n)) = size
  <2> HIDE DEF size
  <2>1. Chunks(1, last, n) = [k \in 1 .. size |-> {d \in 1 + (k - 1) * n .. 1 + k * n - 1 : d <= last}]
    BY DEF Chunks, size
  <2> QED
    BY <1>1, <1>2, <2>1
<1>4. ASSUME NEW d \in 1 .. last
      PROVE  \E k \in 1 .. size : d \in 1 + (k - 1) * n .. 1 + k * n - 1
  <2> DEFINE q == (d - 1) \div n
             z == (last - 1) \div n
  <2>1. q \in Nat /\ n * q <= d - 1 /\ d - 1 < n * q + n
    OBVIOUS
  <2>2. z \in Nat /\ n * z <= last - 1 /\ last - 1 < n * z + n
    OBVIOUS
  <2> HIDE DEF q
  <2>3. q <= z
    <3> HIDE DEF z
    <3> SUFFICES ASSUME ~ (q <= z) PROVE FALSE
      OBVIOUS
    <3>1. q - z - 1 \in Nat
      BY <2>1, <2>2
    <3>2. n * (q - z - 1) >= 0
      BY <3>1
    <3>3. n * (q - z - 1) = n * q - n * z - n
      BY <2>1, <2>2
    <3>4. n * q \in Int /\ n * z \in Int
      BY <2>1, <2>2
    <3> QED
      BY <2>1, <2>2, <3>2, <3>3, <3>4
  <2> DEFINE k == q + 1
  <2>4. k \in 1 .. size
    BY <2>1, <2>2, <2>3
  <2>5. k - 1 = q /\ k \in Int /\ q \in Int /\ n \in Int
    BY <2>1
  <2> HIDE DEF k, size
  <2>6. (k - 1) * n = n * q /\ k * n = n * q + n
    <3>1. k * n = (q + 1) * n
      BY <2>5
    <3>2. (q + 1) * n = n * q + n
      BY <2>5
    <3> QED
      BY <2>5, <3>1, <3>2
  <2>7. n * q \in Nat
    BY <2>1
  <2>8. 1 + (k - 1) * n <= d /\ d <= 1 + k * n - 1
    BY <2>1, <2>6, <2>7
  <2>9. d \in 1 + (k - 1) * n .. 1 + k * n - 1
    BY <2>6, <2>7, <2>8
  <2> QED
    BY <2>4, <2>9
<1>5. ASSUME NEW d \in 1 .. last PROVE \E k \in 1 .. size : d \in Chunks(1, last, n)[k]
  <2>1. PICK k \in 1 .. size : d \in 1 + (k - 1) * n .. 1 + k * n - 1
    BY <1>4
  <2>2. Chunks(1, last, n)[k] = {e \in 1 + (k - 1) * n .. 1 + k * n - 1 : e <= last}
    BY DEF Chunks
  <2>3. d \in {e \in 1 + (k - 1) * n .. 1 + k * n - 1 : e <= last}
    BY <2>1
  <2> QED
    BY <2>2, <2>3
<1> QED
  BY <1>3, <1>5

\* What there is to do: every request is about facts of a listed symbol, and every fact of
\* every listed symbol is asked for.
Listed == Range(Universe)
SweepTask == [symbol : Listed, requests : Seq(SUBSET FactNumbers)]

\* What is asked for of one symbol: facts of the kind, and together all of them.
LEMMA RequestsAre ==
  ASSUME sweepKind \in SweepKinds
  PROVE  /\ Requests \in Seq(SUBSET FactNumbers) /\ Len(Requests) \in Nat \ {0}
         /\ \A c \in FactNumbers : \E r \in 1 .. Len(Requests) : c \in Requests[r]
<1>1. CASE sweepKind = "statements"
  <2>1. Requests = <<{1}, {2}>> /\ FactNumbers = {1, 2}
    BY <1>1 DEF Requests, FactNumbers
  <2> QED
    BY <2>1
<1>2. CASE sweepKind \in {"bars", "confirmations"}
  <2>1. Requests = Chunks(1, Days, ChunkDays) /\ FactNumbers = 1 .. Days
    BY <1>2 DEF Requests, FactNumbers
  <2>2. Days \in Nat \ {0} /\ ChunkDays \in Nat \ {0}
    BY SweepsAssumption
  <2>3. 1 \in 1 .. Days
    BY <2>2
  <2> HIDE DEF Chunks
  <2>4. /\ Requests \in Seq(SUBSET FactNumbers)
        /\ \A c \in FactNumbers : \E r \in 1 .. Len(Requests) : c \in Requests[r]
    BY <2>1, <2>2, ChunksCover
  <2> QED
    BY <2>1, <2>3, <2>4
<1>3. CASE sweepKind \notin {"statements", "bars", "confirmations"}
  <2>1. Requests = <<{1}>> /\ FactNumbers = {1}
    BY <1>3 DEF Requests, FactNumbers
  <2> QED
    BY <2>1
<1> QED
  BY <1>1, <1>2, <1>3

\* A task with something to ask for.
LEMMA FullTask ==
  ASSUME NEW requests \in Seq(SUBSET FactNumbers), Len(requests) # 0, NEW s \in Listed
  PROVE  [symbol |-> s, requests |-> requests] \in {t \in SweepTask : Len(t.requests) # 0}
BY DEF SweepTask

\* What membership in the tasks says of every single one.
LEMMA TasksFit ==
  ASSUME Tasks \in Seq({t \in SweepTask : Len(t.requests) # 0})
  PROVE  /\ Tasks \in Seq(SweepTask) /\ Len(Tasks) \in Nat /\ DOMAIN Tasks = 1 .. Len(Tasks)
         /\ \A i \in DOMAIN Tasks : /\ Tasks[i] \in SweepTask /\ Len(Tasks[i].requests) \in Nat \ {0}
                                    /\ DOMAIN Tasks[i].requests = 1 .. Len(Tasks[i].requests)
                                    /\ \A r \in DOMAIN Tasks[i].requests : Tasks[i].requests[r] \subseteq FactNumbers
<1> DEFINE Full == {t \in SweepTask : Len(t.requests) # 0}
           T == Tasks
<1>0. T \in Seq(Full)
  OBVIOUS
<1> HIDE DEF T
<1>1. ASSUME NEW t \in Full
      PROVE  /\ t \in SweepTask /\ Len(t.requests) \in Nat \ {0}
             /\ DOMAIN t.requests = 1 .. Len(t.requests)
             /\ \A r \in DOMAIN t.requests : t.requests[r] \subseteq FactNumbers
  <2> DEFINE q == t.requests
  <2>1. q \in Seq(SUBSET FactNumbers) /\ Len(q) # 0 /\ t \in SweepTask
    BY DEF SweepTask
  <2> HIDE DEF q
  <2>2. Len(q) \in Nat \ {0} /\ DOMAIN q = 1 .. Len(q) /\ \A r \in DOMAIN q : q[r] \subseteq FactNumbers
    BY <2>1
  <2> QED
    BY <2>1, <2>2 DEF q
<1>2. Full \subseteq SweepTask
  OBVIOUS
<1> HIDE DEF Full
<1>3. Len(T) \in Nat /\ DOMAIN T = 1 .. Len(T) /\ \A i \in DOMAIN T : T[i] \in Full
  BY <1>0
<1>4. T \in Seq(SweepTask)
  BY <1>0, <1>2
<1>5. /\ T \in Seq(SweepTask) /\ Len(T) \in Nat /\ DOMAIN T = 1 .. Len(T)
      /\ \A i \in DOMAIN T : /\ T[i] \in SweepTask /\ Len(T[i].requests) \in Nat \ {0}
                              /\ DOMAIN T[i].requests = 1 .. Len(T[i].requests)
                              /\ \A r \in DOMAIN T[i].requests : T[i].requests[r] \subseteq FactNumbers
  BY <1>1, <1>3, <1>4
<1> QED
  BY <1>5 DEF T

\* Every task is about a listed symbol, and every fact of every listed symbol is in a task.
LEMMA TasksAre ==
  ASSUME sweepKind \in SweepKinds
  PROVE  /\ Tasks \in Seq(SweepTask) /\ Len(Tasks) \in Nat /\ DOMAIN Tasks = 1 .. Len(Tasks)
         /\ \A i \in DOMAIN Tasks : /\ Tasks[i] \in SweepTask /\ Len(Tasks[i].requests) \in Nat \ {0}
                                    /\ DOMAIN Tasks[i].requests = 1 .. Len(Tasks[i].requests)
                                    /\ \A r \in DOMAIN Tasks[i].requests : Tasks[i].requests[r] \subseteq FactNumbers
         /\ \A s \in Listed, c \in FactNumbers :
              \E i \in DOMAIN Tasks : /\ Tasks[i].symbol = s
                                      /\ \E r \in DOMAIN Tasks[i].requests : c \in Tasks[i].requests[r]
<1> DEFINE Full == {t \in SweepTask : Len(t.requests) # 0}
<1>0. /\ Universe \in Seq(Listed) /\ Len(Universe) \in Nat /\ DOMAIN Universe = 1 .. Len(Universe)
      /\ \A i \in 1 .. Len(Universe) : Universe[i] \in Listed
      /\ \A s \in Listed : \E i \in 1 .. Len(Universe) : Universe[i] = s
  <2>1. Universe \in Seq(Listed)
    BY SweepsAssumption DEF Listed
  <2>2. \A s \in Listed : \E i \in DOMAIN Universe : Universe[i] = s
    BY DEF Listed, Range
  <2> HIDE DEF Listed
  <2> QED
    BY <2>1, <2>2
<1>1. CASE sweepKind \in {"bars", "confirmations"}
  <2> DEFINE all == [i \in DOMAIN Universe |->
                [k \in DOMAIN Requests |-> [symbol |-> Universe[i], requests |-> <<Requests[k]>>]]]
  <2>1. Tasks = FlattenSeq(all)
    BY <1>1 DEF Tasks
  <2>2. \A i \in 1 .. Len(Universe), k \in 1 .. Len(Requests) :
          [symbol |-> Universe[i], requests |-> <<Requests[k]>>] \in Full
    <3>1. \A k \in 1 .. Len(Requests) : <<Requests[k]>> \in Seq(SUBSET FactNumbers) /\ Len(<<Requests[k]>>) # 0
      BY RequestsAre
    <3> QED
      BY <1>0, <3>1, FullTask
  <2>3. DOMAIN Requests = 1 .. Len(Requests) /\ Len(Requests) \in Nat
    BY RequestsAre
  <2> HIDE DEF Full
  <2>4. \A i \in 1 .. Len(Universe) : all[i] \in Seq(Full) /\ Len(all[i]) = Len(Requests)
    BY <1>0, <2>2, <2>3
  <2>5. all \in Seq(Seq(Full)) /\ Len(all) = Len(Universe)
    BY <1>0, <2>4
  <2> HIDE DEF all
  <2>6. /\ FlattenSeq(all) \in Seq(Full)
        /\ \A i \in 1 .. Len(all) : \A j \in 1 .. Len(all[i]) :
             \E m \in 1 .. Len(FlattenSeq(all)) : FlattenSeq(all)[m] = all[i][j]
    BY <2>5, FlattenHasAll
  <2>7. ASSUME NEW s \in Listed, NEW c \in FactNumbers
        PROVE  \E i \in DOMAIN Tasks : /\ Tasks[i].symbol = s
                                       /\ \E r \in DOMAIN Tasks[i].requests : c \in Tasks[i].requests[r]
    <3>1. PICK u \in 1 .. Len(Universe) : Universe[u] = s
      BY <1>0
    <3>2. PICK k \in 1 .. Len(Requests) : c \in Requests[k]
      BY RequestsAre
    <3>3. PICK m \in 1 .. Len(FlattenSeq(all)) : FlattenSeq(all)[m] = all[u][k]
      BY <2>4, <2>5, <2>6
    <3>4. all[u][k] = [symbol |-> s, requests |-> <<Requests[k]>>]
      BY <1>0, <2>3, <3>1 DEF all
    <3>5. m \in DOMAIN Tasks /\ Tasks[m].symbol = s /\ Tasks[m].requests = <<Requests[k]>>
      BY <2>1, <2>6, <3>3, <3>4
    <3> QED
      BY <3>2, <3>5
  <2>8. Tasks \in Seq(Full)
    BY <2>1, <2>6
  <2> QED
    BY <2>7, <2>8, TasksFit DEF Full
<1>2. CASE sweepKind \notin {"bars", "confirmations"}
  <2>1. Tasks = [i \in DOMAIN Universe |-> [symbol |-> Universe[i], requests |-> Requests]]
    BY <1>2 DEF Tasks
  <2>2. \A i \in 1 .. Len(Universe) : [symbol |-> Universe[i], requests |-> Requests] \in Full
    <3>1. Requests \in Seq(SUBSET FactNumbers) /\ Len(Requests) # 0
      BY RequestsAre
    <3> QED
      BY <1>0, <3>1, FullTask
  <2>3. Tasks \in Seq(Full) /\ DOMAIN Tasks = DOMAIN Universe
    <3> HIDE DEF Full
    <3> QED
      BY <1>0, <2>1, <2>2
  <2>4. ASSUME NEW s \in Listed, NEW c \in FactNumbers
        PROVE  \E i \in DOMAIN Tasks : /\ Tasks[i].symbol = s
                                       /\ \E r \in DOMAIN Tasks[i].requests : c \in Tasks[i].requests[r]
    <3>1. PICK u \in 1 .. Len(Universe) : Universe[u] = s
      BY <1>0
    <3>2. PICK k \in 1 .. Len(Requests) : c \in Requests[k]
      BY RequestsAre
    <3>3. DOMAIN Requests = 1 .. Len(Requests)
      BY RequestsAre
    <3>4. u \in DOMAIN Tasks /\ Tasks[u].symbol = s /\ Tasks[u].requests = Requests
      BY <1>0, <2>1, <3>1
    <3> QED
      BY <3>2, <3>3, <3>4
  <2> QED
    BY <2>3, <2>4, TasksFit DEF Full
<1> QED
  BY <1>1, <1>2
-----------------------------------------------------------------------------
(* What is known of one sweep, as a matter of values: its entry w, the   *)
(* tasks T, and the editions stored (K) and at the source (F).           *)

SweepEntry(N) ==
  [at : {"idle", "take", "fetch", "save", "mark", "fail", "refused", "record", "done"},
   task : Nat \ {0}, request : Nat \ {0}, skip : SUBSET N, seen : [N -> Nat], only : BOOLEAN,
   failed : SUBSET Listed, left : SUBSET Listed, asked : [Listed -> [N -> Nat]]]

Working == {"take", "fetch", "save", "mark", "fail", "refused"}

There(w, K, s, c) == K[s][c] >= w.asked[s][c] \/ (w.only /\ K[s][c] # 0)
RequestDone(w, T, K, i, r) == \A c \in T[i].requests[r] : There(w, K, T[i].symbol, c)
TaskDone(w, T, K, i) ==
  T[i].symbol \in w.failed \/ \A r \in DOMAIN T[i].requests : RequestDone(w, T, K, i, r)

\* Where it is, and what only a sweep of statements does.
Place(w, T, swept) ==
  /\ w.at \in Working => w.task \in DOMAIN T
  /\ w.at = "take" => w.request = 1
  /\ w.at \in {"fetch", "save"} => w.request \in DOMAIN T[w.task].requests
  /\ w.only \/ w.at \in {"mark", "refused"} \/ w.left # {} => swept = "statements"

\* What it has fetched answers the request and is no older than what there was at first.
Answers(w, N, T) ==
  w.at = "save" =>
    \A c \in N : LET asked == c \in T[w.task].requests[w.request] IN
      /\ w.seen[c] # 0 => asked
      /\ asked => w.seen[c] >= w.asked[T[w.task].symbol][c]

AskedFor(w, N, F) == \A s \in Listed, c \in N : w.asked[s][c] <= F[s][c]

\* What it skips is there.
SkipsFit(w, T, K) ==
  w.at \in {"fetch", "save"} /\ w.only => \A c \in w.skip : K[T[w.task].symbol][c] # 0

\* The tasks behind it are done or failed, or left at the end.
SoFar(w, T, K) ==
  /\ w.at \in Working => \A i \in DOMAIN T : i < w.task => TaskDone(w, T, K, i)
  /\ w.at \in {"fetch", "save"} =>
       \A r \in DOMAIN T[w.task].requests : r < w.request => RequestDone(w, T, K, w.task, r)
  /\ w.at = "mark" => \A r \in DOMAIN T[w.task].requests : RequestDone(w, T, K, w.task, r)
  /\ w.at \in {"record", "done"} => \A i \in DOMAIN T : TaskDone(w, T, K, i) \/ T[i].symbol \in w.left

Good(w, N, T, K, F, swept, alone) ==
  /\ w \in SweepEntry(N)
  /\ Place(w, T, swept) /\ Answers(w, N, T) /\ AskedFor(w, N, F) /\ SkipsFit(w, T, K)
  /\ alone => SoFar(w, T, K)

TasksOK(T, N) ==
  /\ Len(T) \in Nat /\ DOMAIN T = 1 .. Len(T)
  /\ \A i \in DOMAIN T : /\ T[i].symbol \in Listed /\ Len(T[i].requests) \in Nat \ {0}
                         /\ DOMAIN T[i].requests = 1 .. Len(T[i].requests)
                         /\ \A r \in DOMAIN T[i].requests : T[i].requests[r] \subseteq N
  /\ \A s \in Listed, c \in N :
       \E i \in DOMAIN T : T[i].symbol = s /\ \E r \in DOMAIN T[i].requests : c \in T[i].requests[r]

\* What is stored and published goes on: what was there still is.
LEMMA GoodGrows ==
  ASSUME NEW w, NEW N, NEW T, NEW K, NEW K2, NEW F, NEW F2, NEW swept, NEW alone, NEW alone2,
         TasksOK(T, N), Good(w, N, T, K, F, swept, alone),
         {K, K2, F, F2} \subseteq [Listed -> [N -> Nat]],
         \A s \in Listed, c \in N : F2[s][c] >= F[s][c],
         swept \notin Overwritten => \A s \in Listed, c \in N : K2[s][c] >= K[s][c],
         swept \in Overwritten /\ alone2 /\ w.at # "idle" =>
           \A s \in Listed, c \in N : There(w, K, s, c) => There(w, K2, s, c),
         alone2 /\ w.at # "idle" => alone
  PROVE  Good(w, N, T, K2, F2, swept, alone2)
<1>0. w \in SweepEntry(N) /\ w.asked \in [Listed -> [N -> Nat]] /\ w.skip \subseteq N
  BY DEF Good, SweepEntry
<1>1. \A s \in Listed, c \in N : {K[s][c], K2[s][c], F[s][c], F2[s][c], w.asked[s][c]} \subseteq Nat
  BY <1>0
<1>2. swept \notin Overwritten => \A s \in Listed, c \in N : There(w, K, s, c) => There(w, K2, s, c)
  BY <1>1 DEF There
<1>3. Place(w, T, swept) /\ Answers(w, N, T)
  BY DEF Good
<1>4. AskedFor(w, N, F2)
  BY <1>1 DEF AskedFor, Good
<1>5. SkipsFit(w, T, K2)
  <2> SUFFICES ASSUME w.at \in {"fetch", "save"}, w.only, NEW c \in w.skip
               PROVE  K2[T[w.task].symbol][c] # 0
    BY DEF SkipsFit
  <2>1. swept = "statements" /\ w.task \in DOMAIN T
    BY <1>3 DEF Place, Working
  <2>2. swept \notin Overwritten /\ T[w.task].symbol \in Listed /\ c \in N
    BY <1>0, <2>1 DEF Overwritten, TasksOK
  <2>3. K[T[w.task].symbol][c] # 0
    BY DEF SkipsFit, Good
  <2> QED
    BY <1>1, <2>2, <2>3
<1>6. ASSUME alone2 PROVE SoFar(w, T, K2)
  <2>1. CASE w.at = "idle"
    BY <2>1 DEF SoFar, Working
  <2>2. CASE w.at # "idle"
    <3>1. SoFar(w, T, K)
      BY <1>6, <2>2 DEF Good
    <3>2. \A s \in Listed, c \in N : There(w, K, s, c) => There(w, K2, s, c)
      BY <1>2, <1>6, <2>2
    <3>3. \A i \in DOMAIN T : \A r \in DOMAIN T[i].requests : RequestDone(w, T, K, i, r) => RequestDone(w, T, K2, i, r)
      BY <3>2 DEF RequestDone, TasksOK
    <3>4. \A i \in DOMAIN T : TaskDone(w, T, K, i) => TaskDone(w, T, K2, i)
      BY <3>3 DEF TaskDone
    <3>5. w.at \in {"fetch", "save", "mark"} => w.task \in DOMAIN T
      BY <1>3 DEF Place, Working
    <3> QED
      BY <3>1, <3>3, <3>4, <3>5 DEF SoFar
  <2> QED
    BY <2>1, <2>2
<1> QED
  BY <1>0, <1>3, <1>4, <1>5, <1>6 DEF Good

\* The failures of an entry, or its place, say nothing of what is there.
LEMMA SameRequests ==
  ASSUME NEW w, NEW e, NEW T, NEW K, e.asked = w.asked, e.only = w.only, w.failed \subseteq e.failed
  PROVE  /\ \A i, r : RequestDone(w, T, K, i, r) => RequestDone(e, T, K, i, r)
         /\ \A i : TaskDone(w, T, K, i) => TaskDone(e, T, K, i)
<1>1. \A s, c : There(w, K, s, c) => There(e, K, s, c)
  BY DEF There
<1>2. \A i, r : RequestDone(w, T, K, i, r) => RequestDone(e, T, K, i, r)
  BY <1>1 DEF RequestDone
<1> QED
  BY <1>2 DEF TaskDone

\* A task that is done, or has failed, is followed by the next, or by the end.
LEMMA GoodNext ==
  ASSUME NEW w, NEW e, NEW N, NEW T, NEW K, NEW F, NEW swept, NEW alone,
         TasksOK(T, N), Good(w, N, T, K, F, swept, alone), w.at \in Working,
         e \in SweepEntry(N), e.task = w.task + 1, e.at = IF w.task = Len(T) THEN "record" ELSE "take",
         e.request = 1, e.only = w.only, e.asked = w.asked, e.left = w.left, w.failed \subseteq e.failed,
         alone => TaskDone(e, T, K, w.task)
  PROVE  Good(e, N, T, K, F, swept, alone)
<1>1. w.task \in DOMAIN T /\ DOMAIN T = 1 .. Len(T) /\ Len(T) \in Nat /\ w.task \in Nat
  BY DEF Good, Place, TasksOK
<1>2. Place(e, T, swept)
  BY <1>1 DEF Place, Good, Working
<1>3. Answers(e, N, T) /\ SkipsFit(e, T, K)
  BY DEF Answers, SkipsFit
<1>4. AskedFor(e, N, F)
  BY DEF AskedFor, Good
<1>5. ASSUME alone PROVE SoFar(e, T, K)
  <2>1. \A i \in DOMAIN T : i < w.task => TaskDone(w, T, K, i)
    BY <1>5 DEF Good, SoFar
  <2>2. \A i \in DOMAIN T : i < w.task + 1 => TaskDone(e, T, K, i)
    <3>1. \A i \in DOMAIN T : i < w.task + 1 => i < w.task \/ i = w.task
      BY <1>1
    <3>2. \A i \in DOMAIN T : TaskDone(w, T, K, i) => TaskDone(e, T, K, i)
      BY SameRequests
    <3> QED
      BY <1>5, <2>1, <3>1, <3>2
  <2>3. w.task = Len(T) => \A i \in DOMAIN T : i < w.task + 1
    BY <1>1
  <2> QED
    BY <2>2, <2>3 DEF SoFar
<1> QED
  BY <1>2, <1>3, <1>4, <1>5 DEF Good

\* A request that is done is followed by the next one, or by the end of the task.
LEMMA GoodAfter ==
  ASSUME NEW w, NEW e, NEW N, NEW T, NEW K, NEW F, NEW swept, NEW alone,
         TasksOK(T, N), Good(w, N, T, K, F, swept, alone), w.at \in {"fetch", "save"},
         alone => RequestDone(w, T, K, w.task, w.request),
         e \in SweepEntry(N), e.only = w.only, e.asked = w.asked, e.left = w.left, e.failed = w.failed,
         IF w.request < Len(T[w.task].requests)
         THEN e.at = "fetch" /\ e.task = w.task /\ e.request = w.request + 1 /\ e.skip = w.skip
         ELSE IF swept = "statements" THEN e.at = "mark" /\ e.task = w.task
         ELSE e.task = w.task + 1 /\ e.request = 1 /\ e.at = IF w.task = Len(T) THEN "record" ELSE "take"
  PROVE  Good(e, N, T, K, F, swept, alone)
<1>1. /\ w.task \in DOMAIN T /\ DOMAIN T[w.task].requests = 1 .. Len(T[w.task].requests)
      /\ w.request \in DOMAIN T[w.task].requests /\ Len(T[w.task].requests) \in Nat
  BY DEF Good, Place, TasksOK, Working
<1>2. AskedFor(e, N, F)
  BY DEF AskedFor, Good
<1>3. ASSUME alone
      PROVE  /\ \A i \in DOMAIN T : i < w.task => TaskDone(e, T, K, i)
             /\ \A r \in DOMAIN T[w.task].requests : r < w.request + 1 => RequestDone(e, T, K, w.task, r)
  <2>1. /\ \A i \in DOMAIN T : i < w.task => TaskDone(w, T, K, i)
        /\ \A r \in DOMAIN T[w.task].requests : r < w.request => RequestDone(w, T, K, w.task, r)
    BY <1>3 DEF Good, SoFar, Working
  <2>2. \A r \in DOMAIN T[w.task].requests : r < w.request + 1 => r < w.request \/ r = w.request
    BY <1>1
  <2> QED
    BY <1>3, <2>1, <2>2, SameRequests
<1>4. CASE w.request < Len(T[w.task].requests)
  <2>1. Place(e, T, swept)
    BY <1>1, <1>4 DEF Place, Good
  <2>2. Answers(e, N, T)
    BY <1>4 DEF Answers
  <2>3. SkipsFit(e, T, K)
    BY <1>4 DEF SkipsFit, Good
  <2>4. alone => SoFar(e, T, K)
    BY <1>3, <1>4 DEF SoFar
  <2> QED
    BY <1>2, <2>1, <2>2, <2>3, <2>4 DEF Good
<1>5. ASSUME ~ (w.request < Len(T[w.task].requests)), alone
      PROVE  \A r \in DOMAIN T[w.task].requests : RequestDone(e, T, K, w.task, r)
  <2>1. \A r \in DOMAIN T[w.task].requests : r < w.request + 1
    BY <1>1, <1>5
  <2> QED
    BY <1>3, <1>5, <2>1
<1>6. CASE ~ (w.request < Len(T[w.task].requests)) /\ swept = "statements"
  <2>1. e.at = "mark" /\ e.task = w.task
    BY <1>6
  <2>2. Place(e, T, swept)
    BY <1>1, <1>6, <2>1 DEF Place
  <2>3. Answers(e, N, T) /\ SkipsFit(e, T, K)
    BY <2>1 DEF Answers, SkipsFit
  <2>4. alone => SoFar(e, T, K)
    BY <1>3, <1>5, <1>6, <2>1 DEF SoFar
  <2> QED
    BY <1>2, <2>2, <2>3, <2>4 DEF Good
<1>7. CASE ~ (w.request < Len(T[w.task].requests)) /\ swept # "statements"
  <2>1. alone => TaskDone(e, T, K, w.task)
    BY <1>5, <1>7 DEF TaskDone
  <2>2. w.at \in Working /\ w.failed \subseteq e.failed
    BY DEF Working
  <2>3. e.task = w.task + 1 /\ e.request = 1 /\ e.at = IF w.task = Len(T) THEN "record" ELSE "take"
    BY <1>7
  <2> QED
    BY <2>1, <2>2, <2>3, GoodNext
<1> QED
  BY <1>4, <1>6, <1>7

-----------------------------------------------------------------------------
(* Sweeps: the invariant.                                                *)

Editions == [Listed -> [FactNumbers -> Nat]]
Alone == sweepKind \in Overwritten => sweepsBegun = 1
Fine(p) == Good(sweep[p], FactNumbers, Tasks, kept, filed, sweepKind, Alone)

SwTypes ==
  /\ sweepKind \in SweepKinds
  /\ filed \in Editions /\ kept \in Editions
  /\ symbolState \in [Listed -> {"none", "RUNNING", "SUCCESS", "FAILED"}]
  /\ {sweepsBegun, sweepFaults, refusals} \subseteq Nat
  /\ sweep \in [Sweepers -> SweepEntry(FactNumbers)]

\* The first sweep of all is the only one as long as no other begins.
FirstIsAlone ==
  /\ sweepsBegun = 0 => \A p \in Sweepers : sweep[p].at = "idle"
  /\ sweepsBegun = 1 => \A p, q \in Sweepers : sweep[p].at # "idle" /\ sweep[q].at # "idle" => p = q

\* The sweeps that may still meet a refusal.
Knocking == {p \in Sweepers : sweep[p].at \in {"take", "fetch", "save", "mark", "fail"}}
KnocksFit ==
  /\ IsFiniteSet(Knocking)
  /\ refusals + Cardinality(Knocking) <= sweepsBegun + sweepFaults

StatusFits ==
  /\ RunningIsExplained
  /\ sweepKind \notin Announced => \A s \in Listed : symbolState[s] # "RUNNING"

SwInv == SwTypes /\ (\A p \in Sweepers : Fine(p)) /\ FirstIsAlone /\ KnocksFit /\ StatusFits

\* The tasks of the kind that is kind are such tasks.
LEMMA TasksFine ==
  ASSUME SwTypes PROVE TasksOK(Tasks, FactNumbers)
<1> DEFINE T == Tasks
<1>1. /\ Len(T) \in Nat /\ DOMAIN T = 1 .. Len(T)
      /\ \A i \in DOMAIN T : /\ T[i] \in SweepTask /\ Len(T[i].requests) \in Nat \ {0}
                             /\ DOMAIN T[i].requests = 1 .. Len(T[i].requests)
                             /\ \A r \in DOMAIN T[i].requests : T[i].requests[r] \subseteq FactNumbers
      /\ \A s \in Listed, c \in FactNumbers :
           \E i \in DOMAIN T : T[i].symbol = s /\ \E r \in DOMAIN T[i].requests : c \in T[i].requests[r]
  BY TasksAre DEF SwTypes
<1> HIDE DEF T
<1>2. TasksOK(T, FactNumbers)
  BY <1>1 DEF TasksOK, SweepTask
<1> QED
  BY <1>2 DEF T

\* What there is to do depends on the kind alone.
LEMMA KindStays ==
  ASSUME sweepKind' = sweepKind
  PROVE  FactNumbers' = FactNumbers /\ Tasks' = Tasks /\ Editions' = Editions
<1>1. FactNumbers' = FactNumbers
  BY DEF FactNumbers
<1>2. Requests' = Requests
  BY DEF Requests
<1> QED
  BY <1>1, <1>2 DEF Tasks, Editions

\* A step of one sweep that stores nothing leaves the others as they are.
LEMMA OneMoves ==
  ASSUME SwTypes, \A q \in Sweepers : Fine(q), NEW p \in Sweepers,
         NEW e, sweep' = [sweep EXCEPT ![p] = e],
         UNCHANGED <<sweepKind, filed, kept, sweepsBegun>>,
         Good(e, FactNumbers, Tasks, kept, filed, sweepKind, Alone)
  PROVE  /\ sweep'[p] = e /\ \A q \in Sweepers : q # p => sweep'[q] = sweep[q]
         /\ (sweep \in [Sweepers -> SweepEntry(FactNumbers)])'
         /\ (\A q \in Sweepers : Fine(q))'
<1>0. e \in SweepEntry(FactNumbers)
  BY DEF Good
<1>1. sweep'[p] = e /\ \A q \in Sweepers : q # p => sweep'[q] = sweep[q]
  BY DEF SwTypes
<1>2. FactNumbers' = FactNumbers /\ Tasks' = Tasks /\ Alone' = Alone
  BY KindStays DEF Alone
<1>3. sweep' \in [Sweepers -> SweepEntry(FactNumbers)]
  BY <1>0 DEF SwTypes
<1>4. \A q \in Sweepers : Good(sweep'[q], FactNumbers, Tasks, kept, filed, sweepKind, Alone)
  BY <1>1 DEF Fine
<1> QED
  BY <1>1, <1>2, <1>3, <1>4 DEF Fine

\* Who may still meet a refusal, when one sweep moves.
LEMMA KnocksMove ==
  ASSUME KnocksFit, {sweepsBegun, sweepFaults, refusals, sweepsBegun', sweepFaults', refusals'} \subseteq Nat,
         NEW p \in Sweepers, \A q \in Sweepers : q # p => sweep'[q] = sweep[q],
         \/ /\ p \in Knocking' => p \in Knocking
            /\ refusals' = refusals /\ sweepsBegun' + sweepFaults' >= sweepsBegun + sweepFaults
         \/ /\ refusals' = refusals /\ sweepsBegun' + sweepFaults' >= sweepsBegun + sweepFaults + 1
         \/ /\ p \in Knocking /\ p \notin Knocking'
            /\ refusals' = refusals + 1 /\ sweepsBegun' + sweepFaults' >= sweepsBegun + sweepFaults
  PROVE  KnocksFit'
<1> DEFINE A == Knocking
           B == Knocking'
<1>0. IsFiniteSet(A) /\ refusals + Cardinality(A) <= sweepsBegun + sweepFaults
  BY DEF KnocksFit
<1>1. \A q \in Sweepers : q # p => (q \in A <=> q \in B)
  BY DEF Knocking
<1>2. A \subseteq Sweepers /\ B \subseteq Sweepers
  BY DEF Knocking
<1>3. \/ /\ p \in B => p \in A
         /\ refusals' = refusals /\ sweepsBegun' + sweepFaults' >= sweepsBegun + sweepFaults
      \/ /\ refusals' = refusals /\ sweepsBegun' + sweepFaults' >= sweepsBegun + sweepFaults + 1
      \/ /\ p \in A /\ p \notin B
         /\ refusals' = refusals + 1 /\ sweepsBegun' + sweepFaults' >= sweepsBegun + sweepFaults
  OBVIOUS
<1>4. SUFFICES IsFiniteSet(B) /\ refusals' + Cardinality(B) <= sweepsBegun' + sweepFaults'
  BY DEF KnocksFit
<1> HIDE DEF A, B
<1>5. /\ IsFiniteSet(A \cup {p}) /\ Cardinality(A) \in Nat
      /\ Cardinality(A \cup {p}) = IF p \in A THEN Cardinality(A) ELSE Cardinality(A) + 1
  BY <1>0, FS_AddElement, FS_CardinalityType
<1>6. B \subseteq A \cup {p}
  BY <1>1, <1>2
<1>7. IsFiniteSet(B) /\ Cardinality(B) \in Nat /\ Cardinality(B) <= Cardinality(A) + 1
  BY <1>5, <1>6, FS_Subset, FS_CardinalityType
<1>8. ASSUME p \in B => p \in A PROVE Cardinality(B) <= Cardinality(A)
  <2>1. B \subseteq A
    BY <1>1, <1>2, <1>8
  <2> QED
    BY <1>0, <2>1, FS_Subset
<1>9. ASSUME p \in A, p \notin B PROVE Cardinality(B) + 1 <= Cardinality(A)
  <2>1. B \subseteq A \ {p}
    BY <1>1, <1>2, <1>9
  <2>2. IsFiniteSet(A \ {p}) /\ Cardinality(A \ {p}) = Cardinality(A) - 1
    BY <1>0, <1>9, FS_RemoveElement
  <2>3. Cardinality(B) <= Cardinality(A \ {p})
    BY <2>1, <2>2, FS_Subset
  <2> QED
    BY <1>5, <1>7, <2>2, <2>3
<1> QED
  BY <1>0, <1>3, <1>5, <1>7, <1>8, <1>9

\* How the status of a symbol moves: whoever leaves a symbol has marked it or is cut off.
LEMMA StatusMoves ==
  ASSUME SwTypes, StatusFits, NEW p \in Sweepers, sweepKind' = sweepKind,
         \A q \in Sweepers : q # p => sweep'[q] = sweep[q],
         symbolState' \in [Listed -> {"none", "RUNNING", "SUCCESS", "FAILED"}],
         \A s \in Listed : symbolState'[s] = "RUNNING" =>
           \/ AtTask(p)' /\ SymbolOf(p)' = s
           \/ symbolState[s] = "RUNNING" /\ (s \in cut => s \in cut') /\ (AtTask(p) /\ SymbolOf(p) = s => s \in cut'),
         sweepKind \notin Announced => \A s \in Listed : symbolState'[s] = "RUNNING" => symbolState[s] = "RUNNING"
  PROVE  StatusFits'
<1>1. Tasks' = Tasks
  BY KindStays
<1>2. \A q \in Sweepers : q # p => (AtTask(q) <=> AtTask(q)') /\ SymbolOf(q)' = SymbolOf(q)
  BY <1>1 DEF AtTask, SymbolOf, TaskOf
<1>3. \A s \in Listed : symbolState[s] = "RUNNING" => s \in cut \/ \E q \in Sweepers : AtTask(q) /\ SymbolOf(q) = s
  BY DEF StatusFits, RunningIsExplained, Listed
<1>4. \A s \in Listed : symbolState'[s] = "RUNNING" => s \in cut' \/ \E q \in Sweepers : AtTask(q)' /\ SymbolOf(q)' = s
  BY <1>2, <1>3
<1>5. RunningIsExplained'
  BY <1>4 DEF RunningIsExplained, Listed
<1> QED
  BY <1>5 DEF StatusFits

-----------------------------------------------------------------------------
(* Step by step.                                                         *)

\* What a step of one sweep needs to know.
LEMMA AtWork ==
  ASSUME SwInv, NEW p \in Sweepers
  PROVE  /\ TasksOK(Tasks, FactNumbers)
         /\ sweep[p] \in SweepEntry(FactNumbers)
         /\ Good(sweep[p], FactNumbers, Tasks, kept, filed, sweepKind, Alone)
         /\ Place(sweep[p], Tasks, sweepKind)
         /\ sweep[p].at \in Working =>
              sweep[p].task \in DOMAIN Tasks /\ SymbolOf(p) = Tasks[sweep[p].task].symbol /\ SymbolOf(p) \in Listed
<1>1. TasksOK(Tasks, FactNumbers) /\ Good(sweep[p], FactNumbers, Tasks, kept, filed, sweepKind, Alone)
  BY TasksFine DEF SwInv, Fine
<1>2. sweep[p] \in SweepEntry(FactNumbers) /\ Place(sweep[p], Tasks, sweepKind)
  BY <1>1 DEF Good
<1>3. sweep[p].at \in Working => sweep[p].task \in DOMAIN Tasks
  BY <1>2 DEF Place
<1>4. \A i \in DOMAIN Tasks : Tasks[i].symbol \in Listed
  BY <1>1 DEF TasksOK
<1> QED
  BY <1>1, <1>2, <1>3, <1>4 DEF SymbolOf, TaskOf

\* The fields of an entry that goes on to the next task.
LEMMA NextTaskIs ==
  ASSUME NEW w \in SweepEntry(FactNumbers), TasksOK(Tasks, FactNumbers)
  PROVE  LET e == NextTask(w) IN
           /\ e \in SweepEntry(FactNumbers)
           /\ e.task = w.task + 1 /\ e.request = 1 /\ e.at = IF w.task = Len(Tasks) THEN "record" ELSE "take"
           /\ e.only = w.only /\ e.asked = w.asked /\ e.left = w.left /\ e.failed = w.failed
<1> DEFINE here == IF w.task = Len(Tasks) THEN "record" ELSE "take"
           t == w.task + 1
           none == NoEdition
           a == [w EXCEPT !.task = t]
           first == 1
           b == [a EXCEPT !.request = first]
           c == [b EXCEPT !.skip = {}]
           d == [c EXCEPT !.seen = none]
           e == [d EXCEPT !.at = here]
<1>1. none \in [FactNumbers -> Nat] /\ here \in {"record", "take"} /\ t \in Nat \ {0}
      /\ first \in Nat \ {0}
  BY DEF NoEdition, SweepEntry
<1>2. NextTask(w) = e
  BY DEF NextTask
<1> HIDE DEF here, t, none, first
<1>3. a \in SweepEntry(FactNumbers)
  BY <1>1 DEF SweepEntry
<1>4. /\ a.task = t /\ a.only = w.only /\ a.asked = w.asked /\ a.left = w.left /\ a.failed = w.failed
  BY DEF SweepEntry
<1> HIDE DEF a
<1>5. b \in SweepEntry(FactNumbers)
  BY <1>1, <1>3 DEF SweepEntry
<1>6. /\ b.request = first /\ b.task = t
      /\ b.only = w.only /\ b.asked = w.asked /\ b.left = w.left /\ b.failed = w.failed
  BY <1>3, <1>4 DEF SweepEntry
<1> HIDE DEF b
<1>7. c \in SweepEntry(FactNumbers)
  BY <1>5 DEF SweepEntry
<1>8. /\ c.request = first /\ c.task = t
      /\ c.only = w.only /\ c.asked = w.asked /\ c.left = w.left /\ c.failed = w.failed
  BY <1>5, <1>6 DEF SweepEntry
<1> HIDE DEF c
<1>9. d \in SweepEntry(FactNumbers)
  BY <1>1, <1>7 DEF SweepEntry
<1>10. /\ d.request = first /\ d.task = t
       /\ d.only = w.only /\ d.asked = w.asked /\ d.left = w.left /\ d.failed = w.failed
  BY <1>7, <1>8 DEF SweepEntry
<1> HIDE DEF d
<1>11. e \in SweepEntry(FactNumbers)
  BY <1>1, <1>9 DEF SweepEntry
<1>12. /\ e.request = first /\ e.task = t /\ e.at = here
       /\ e.only = w.only /\ e.asked = w.asked /\ e.left = w.left /\ e.failed = w.failed
  BY <1>9, <1>10 DEF SweepEntry
<1> QED
  BY <1>2, <1>11, <1>12 DEF here, t, first

\* A failure of the task at work.
LEMMA FailedIs ==
  ASSUME SwInv, NEW p \in Sweepers, sweep[p].at \in Working
  PROVE  /\ Good(Failed(p), FactNumbers, Tasks, kept, filed, sweepKind, Alone)
         /\ Failed(p).at \in {"take", "record"}
<1> DEFINE w == sweep[p]
           f == [w EXCEPT !.failed = @ \cup {SymbolOf(p)}]
           e == NextTask(f)
<1>1. /\ TasksOK(Tasks, FactNumbers) /\ w \in SweepEntry(FactNumbers)
      /\ Good(w, FactNumbers, Tasks, kept, filed, sweepKind, Alone)
      /\ w.task \in DOMAIN Tasks /\ SymbolOf(p) = Tasks[w.task].symbol /\ SymbolOf(p) \in Listed
  BY AtWork
<1>2. /\ f \in SweepEntry(FactNumbers) /\ f.task = w.task /\ f.only = w.only /\ f.asked = w.asked /\ f.left = w.left
      /\ f.failed = w.failed \cup {SymbolOf(p)}
  BY <1>1 DEF SweepEntry
<1> HIDE DEF w, f
<1>3. /\ e \in SweepEntry(FactNumbers) /\ e.task = w.task + 1 /\ e.request = 1
      /\ e.at = IF w.task = Len(Tasks) THEN "record" ELSE "take"
      /\ e.only = w.only /\ e.asked = w.asked /\ e.left = w.left /\ e.failed = w.failed \cup {SymbolOf(p)}
  BY <1>1, <1>2, NextTaskIs
<1> HIDE DEF e
<1>4. TaskDone(e, Tasks, kept, w.task)
  BY <1>1, <1>3 DEF TaskDone
<1>5. Good(e, FactNumbers, Tasks, kept, filed, sweepKind, Alone)
  BY <1>1, <1>3, <1>4, GoodNext DEF w
<1>6. Failed(p) = e
  BY DEF Failed, e, f, w
<1> QED
  BY <1>3, <1>5, <1>6

\* The invariant after a quiet step of one sweep: one that publishes, stores and begins nothing.
LEMMA QuietStep ==
  ASSUME SwInv, NEW p \in Sweepers, NEW e, Step(p, e),
         UNCHANGED <<sweepKind, filed, kept, sweepsBegun>>,
         Good(e, FactNumbers, Tasks, kept, filed, sweepKind, Alone),
         e.at # "idle" => sweep[p].at # "idle",
         \/ /\ e.at \in {"take", "fetch", "save", "mark", "fail"} =>
                 sweep[p].at \in {"take", "fetch", "save", "mark", "fail"} \/ sweepFaults' >= sweepFaults + 1
            /\ refusals' = refusals
         \/ /\ sweep[p].at = "fetch" /\ e.at = "refused"
            /\ refusals' = refusals + 1,
         sweepFaults' \in Nat, sweepFaults' >= sweepFaults,
         symbolState' \in [Listed -> {"none", "RUNNING", "SUCCESS", "FAILED"}],
         \A s \in Listed : symbolState'[s] = "RUNNING" =>
           \/ e.at \in Working \ {"take"} /\ Tasks[e.task].symbol = s
           \/ symbolState[s] = "RUNNING" /\ (s \in cut => s \in cut') /\ (AtTask(p) /\ SymbolOf(p) = s => s \in cut'),
         sweepKind \notin Announced => \A s \in Listed : symbolState'[s] = "RUNNING" => symbolState[s] = "RUNNING"
  PROVE  SwInv'
<1>0. SwTypes /\ (\A q \in Sweepers : Fine(q)) /\ FirstIsAlone /\ KnocksFit /\ StatusFits
  BY DEF SwInv
<1>1. /\ sweep'[p] = e /\ \A q \in Sweepers : q # p => sweep'[q] = sweep[q]
      /\ (sweep \in [Sweepers -> SweepEntry(FactNumbers)])'
      /\ (\A q \in Sweepers : Fine(q))'
  BY <1>0, OneMoves DEF Step
<1>2. FactNumbers' = FactNumbers /\ Tasks' = Tasks /\ Editions' = Editions
  BY KindStays
<1>3. refusals' \in Nat
  BY <1>0 DEF SwTypes
<1>4. SwTypes'
  BY <1>0, <1>1, <1>2, <1>3 DEF SwTypes
<1>5. FirstIsAlone'
  BY <1>0, <1>1 DEF FirstIsAlone
<1>6. KnocksFit'
  <2>1. {sweepsBegun, sweepFaults, refusals, sweepsBegun', sweepFaults', refusals'} \subseteq Nat
    BY <1>0, <1>3 DEF SwTypes
  <2>2. (p \in Knocking' <=> e.at \in {"take", "fetch", "save", "mark", "fail"})
        /\ (p \in Knocking <=> sweep[p].at \in {"take", "fetch", "save", "mark", "fail"})
    BY <1>1 DEF Knocking
  <2> QED
    BY <1>0, <1>1, <2>1, <2>2, KnocksMove
<1>7. StatusFits'
  <2>1. (AtTask(p)' <=> e.at \in Working \ {"take"}) /\ SymbolOf(p)' = Tasks[e.task].symbol
    BY <1>1, <1>2 DEF AtTask, SymbolOf, TaskOf, Working
  <2> QED
    BY <1>0, <1>1, <2>1, StatusMoves
<1> QED
  BY <1>1, <1>4, <1>5, <1>6, <1>7 DEF SwInv

\* Taking a task begins its first request; what is skipped is already there.
LEMMA TakeKeeps ==
  ASSUME SwInv, NEW p \in Sweepers, Take(p)
  PROVE  SwInv'
<1> DEFINE w == sweep[p]
           e == [w EXCEPT !.at = "fetch", !.skip = Existing(p)]
<1>1. /\ TasksOK(Tasks, FactNumbers) /\ w \in SweepEntry(FactNumbers) /\ w.at = "take"
      /\ Good(w, FactNumbers, Tasks, kept, filed, sweepKind, Alone) /\ Place(w, Tasks, sweepKind)
      /\ w.task \in DOMAIN Tasks /\ SymbolOf(p) = Tasks[w.task].symbol /\ SymbolOf(p) \in Listed
  BY AtWork DEF Take, Working
<1>2. /\ e \in SweepEntry(FactNumbers) /\ e.at = "fetch" /\ e.task = w.task /\ e.request = w.request /\ e.skip = Existing(p)
      /\ e.only = w.only /\ e.asked = w.asked /\ e.left = w.left /\ e.failed = w.failed
  BY <1>1 DEF SweepEntry, Existing
<1>3. w.only => e.skip = {c \in FactNumbers : kept[Tasks[w.task].symbol][c] # 0}
  BY <1>1, <1>2 DEF Existing
<1>4. Step(p, e)
  BY DEF Take
<1>5. Good(e, FactNumbers, Tasks, kept, filed, sweepKind, Alone)
  <2> HIDE DEF e, w
  <2>1. w.request = 1 /\ 1 \in DOMAIN Tasks[w.task].requests /\ \A r \in DOMAIN Tasks[w.task].requests : ~ (r < 1)
    BY <1>1 DEF Place, TasksOK
  <2>2. Place(e, Tasks, sweepKind)
    BY <1>1, <1>2, <2>1 DEF Place, Working
  <2>3. Answers(e, FactNumbers, Tasks) /\ AskedFor(e, FactNumbers, filed)
    BY <1>1, <1>2 DEF Answers, AskedFor, Good
  <2>4. SkipsFit(e, Tasks, kept)
    BY <1>2, <1>3 DEF SkipsFit
  <2>5. Alone => SoFar(e, Tasks, kept)
    <3> SUFFICES ASSUME Alone PROVE SoFar(e, Tasks, kept)
      OBVIOUS
    <3>1. \A i \in DOMAIN Tasks : i < w.task => TaskDone(w, Tasks, kept, i)
      BY <1>1 DEF Good, SoFar, Working
    <3>2. \A i \in DOMAIN Tasks : i < w.task => TaskDone(e, Tasks, kept, i)
      BY <1>2, <3>1, SameRequests
    <3> QED
      BY <1>2, <2>1, <3>2 DEF SoFar
  <2> QED
    BY <1>2, <2>2, <2>3, <2>4, <2>5 DEF Good
<1>6. SwTypes
  BY DEF SwInv
<1>7. /\ symbolState' \in [Listed -> {"none", "RUNNING", "SUCCESS", "FAILED"}]
      /\ \A s \in Listed : symbolState'[s] = "RUNNING" =>
           s = SymbolOf(p) \/ (symbolState[s] = "RUNNING" /\ (s \in cut => s \in cut'))
      /\ sweepKind \notin Announced => symbolState' = symbolState
  <2>0. symbolState \in [Listed -> {"none", "RUNNING", "SUCCESS", "FAILED"}]
    BY <1>6 DEF SwTypes
  <2>1. CASE sweepKind \in Announced
    <3>1. symbolState' = [symbolState EXCEPT ![SymbolOf(p)] = "RUNNING"] /\ cut' = cut \ {SymbolOf(p)}
      BY <2>1 DEF Take, Marked
    <3>2. SymbolOf(p) \in Listed
      BY <1>1
    <3>3. symbolState' \in [Listed -> {"none", "RUNNING", "SUCCESS", "FAILED"}]
      BY <2>0, <3>1, <3>2
    <3>4. \A s \in Listed : s # SymbolOf(p) => symbolState'[s] = symbolState[s] /\ (s \in cut => s \in cut')
      BY <2>0, <3>1, <3>2
    <3> QED
      BY <2>1, <3>3, <3>4
  <2>2. CASE sweepKind \notin Announced
    <3>1. symbolState' = symbolState /\ cut' = cut
      BY <2>2 DEF Take
    <3> QED
      BY <2>0, <2>2, <3>1
  <2> QED
    BY <2>1, <2>2
<1>8. ~ AtTask(p)
  BY <1>1 DEF AtTask
<1>9. sweepFaults' = sweepFaults /\ sweepFaults \in Nat /\ refusals' = refusals
      /\ UNCHANGED <<sweepKind, filed, kept, sweepsBegun>>
  BY <1>6 DEF Take, SwTypes
<1>10. e.at \in Working \ {"take"} /\ Tasks[e.task].symbol = SymbolOf(p)
  BY <1>1, <1>2 DEF Working
<1> QED
  <2> HIDE DEF e
  <2> QED
    BY <1>1, <1>2, <1>4, <1>5, <1>7, <1>8, <1>9, <1>10, QuietStep

\* After a request that is done: the next one, the mark, or the next task.
LEMMA AfterIs ==
  ASSUME NEW p \in Sweepers, sweep[p] \in SweepEntry(FactNumbers), TasksOK(Tasks, FactNumbers)
  PROVE  LET w == sweep[p]
             e == AfterRequest(p)
         IN  /\ e \in SweepEntry(FactNumbers)
             /\ e.only = w.only /\ e.asked = w.asked /\ e.left = w.left /\ e.failed = w.failed
             /\ IF w.request < Len(Tasks[w.task].requests)
                THEN e.at = "fetch" /\ e.task = w.task /\ e.request = w.request + 1 /\ e.skip = w.skip
                ELSE IF sweepKind = "statements" THEN e.at = "mark" /\ e.task = w.task
                ELSE e.task = w.task + 1 /\ e.request = 1 /\ e.at = IF w.task = Len(Tasks) THEN "record" ELSE "take"
<1> DEFINE w == sweep[p]
           none == NoEdition
           a == [w EXCEPT !.seen = none]
           m == a.request + 1
           further == [a EXCEPT !.request = m]
           b == [further EXCEPT !.at = "fetch"]
           c == [a EXCEPT !.at = "mark"]
<1>1. none \in [FactNumbers -> Nat]
  BY DEF NoEdition
<1> HIDE DEF none
<1>2. a \in SweepEntry(FactNumbers)
  BY <1>1 DEF SweepEntry
<1>3. /\ a.task = w.task /\ a.request = w.request /\ a.skip = w.skip
      /\ a.only = w.only /\ a.asked = w.asked /\ a.left = w.left /\ a.failed = w.failed
  BY DEF SweepEntry
<1>4. AfterRequest(p) = IF a.request < Len(Tasks[w.task].requests) THEN b
                        ELSE IF sweepKind = "statements" THEN c ELSE NextTask(a)
  BY DEF AfterRequest, TaskOf, none
<1> HIDE DEF a, w
<1>5. m \in Nat \ {0}
  BY <1>2 DEF SweepEntry
<1> HIDE DEF m
<1>6. further \in SweepEntry(FactNumbers)
  BY <1>2, <1>5 DEF SweepEntry
<1>7. /\ further.only = a.only /\ further.asked = a.asked /\ further.left = a.left /\ further.failed = a.failed
      /\ further.task = a.task /\ further.request = m /\ further.skip = a.skip
  BY <1>2 DEF SweepEntry
<1> HIDE DEF further
<1>8. b \in SweepEntry(FactNumbers) /\ c \in SweepEntry(FactNumbers)
  BY <1>2, <1>6 DEF SweepEntry
<1>9. /\ b.only = a.only /\ b.asked = a.asked /\ b.left = a.left /\ b.failed = a.failed
      /\ b.at = "fetch" /\ b.task = a.task /\ b.request = a.request + 1 /\ b.skip = a.skip
  BY <1>6, <1>7 DEF SweepEntry, m
<1>10. /\ c.only = a.only /\ c.asked = a.asked /\ c.left = a.left /\ c.failed = a.failed
       /\ c.at = "mark" /\ c.task = a.task
  BY <1>2 DEF SweepEntry
<1> HIDE DEF b, c
<1>11. LET e == NextTask(a) IN
        /\ e \in SweepEntry(FactNumbers) /\ e.task = a.task + 1 /\ e.request = 1
        /\ e.at = IF a.task = Len(Tasks) THEN "record" ELSE "take"
        /\ e.only = a.only /\ e.asked = a.asked /\ e.left = a.left /\ e.failed = a.failed
  BY <1>2, NextTaskIs
<1> DEFINE n == NextTask(a)
           e == AfterRequest(p)
<1>12. /\ n \in SweepEntry(FactNumbers) /\ n.task = a.task + 1 /\ n.request = 1
       /\ n.at = IF a.task = Len(Tasks) THEN "record" ELSE "take"
       /\ n.only = a.only /\ n.asked = a.asked /\ n.left = a.left /\ n.failed = a.failed
  BY <1>11
<1>13. e = IF a.request < Len(Tasks[w.task].requests) THEN b ELSE IF sweepKind = "statements" THEN c ELSE n
  BY <1>4
<1> HIDE DEF n, e
<1>14. /\ e \in SweepEntry(FactNumbers)
       /\ e.only = w.only /\ e.asked = w.asked /\ e.left = w.left /\ e.failed = w.failed
       /\ IF w.request < Len(Tasks[w.task].requests)
          THEN e.at = "fetch" /\ e.task = w.task /\ e.request = w.request + 1 /\ e.skip = w.skip
          ELSE IF sweepKind = "statements" THEN e.at = "mark" /\ e.task = w.task
          ELSE e.task = w.task + 1 /\ e.request = 1 /\ e.at = IF w.task = Len(Tasks) THEN "record" ELSE "take"
  BY <1>3, <1>8, <1>9, <1>10, <1>12, <1>13
<1> QED
  BY <1>14 DEF e, w

\* A skipped request is about facts that are there.
LEMMA SkipKeeps ==
  ASSUME SwInv, NEW p \in Sweepers, SkipRequest(p)
  PROVE  SwInv'
<1> DEFINE w == sweep[p]
           e == AfterRequest(p)
<1>1. /\ TasksOK(Tasks, FactNumbers) /\ w \in SweepEntry(FactNumbers) /\ w.at = "fetch"
      /\ Good(w, FactNumbers, Tasks, kept, filed, sweepKind, Alone) /\ Place(w, Tasks, sweepKind)
      /\ w.task \in DOMAIN Tasks /\ SymbolOf(p) = Tasks[w.task].symbol /\ SymbolOf(p) \in Listed
  BY AtWork DEF SkipRequest, Working
<1>2. sweepKind = "statements" /\ w.only /\ Tasks[w.task].requests[w.request] \subseteq w.skip
  BY <1>1 DEF SkipRequest, HasIt, Place, RequestOf, TaskOf
<1>3. RequestDone(w, Tasks, kept, w.task, w.request)
  <2>1. \A c \in w.skip : kept[Tasks[w.task].symbol][c] # 0
    BY <1>1, <1>2 DEF Good, SkipsFit
  <2> QED
    BY <1>2, <2>1 DEF RequestDone, There
<1>4. /\ e \in SweepEntry(FactNumbers)
      /\ e.only = w.only /\ e.asked = w.asked /\ e.left = w.left /\ e.failed = w.failed
      /\ IF w.request < Len(Tasks[w.task].requests)
         THEN e.at = "fetch" /\ e.task = w.task /\ e.request = w.request + 1 /\ e.skip = w.skip
         ELSE IF sweepKind = "statements" THEN e.at = "mark" /\ e.task = w.task
         ELSE e.task = w.task + 1 /\ e.request = 1 /\ e.at = IF w.task = Len(Tasks) THEN "record" ELSE "take"
  BY <1>1, AfterIs
<1>5. Step(p, e) /\ UNCHANGED <<sweepKind, filed, kept, symbolState, sweepsBegun, sweepFaults, refusals, cut>>
  BY DEF SkipRequest
<1>6. sweepFaults \in Nat /\ symbolState \in [Listed -> {"none", "RUNNING", "SUCCESS", "FAILED"}]
  BY DEF SwInv, SwTypes
<1> HIDE DEF e
<1>7. Good(e, FactNumbers, Tasks, kept, filed, sweepKind, Alone)
  <2> HIDE DEF w
  <2> QED
    BY <1>1, <1>3, <1>4, GoodAfter
<1>8. e.at \in {"fetch", "mark"} /\ e.task = w.task
  BY <1>2, <1>4
<1>9. e.at \in Working \ {"take"} /\ Tasks[e.task].symbol = SymbolOf(p)
  BY <1>1, <1>8 DEF Working
<1> QED
  BY <1>1, <1>5, <1>6, <1>7, <1>8, <1>9, QuietStep

\* An answer has what the source had when the sweep began, or something later.
LEMMA FetchFactsKeeps ==
  ASSUME SwInv, NEW p \in Sweepers, FetchFacts(p)
  PROVE  SwInv'
<1> DEFINE w == sweep[p]
           seen == Observed(p)
           at == IF sweepKind = "flows" /\ seen = NoEdition THEN "fail" ELSE "save"
           e == [w EXCEPT !.seen = seen, !.at = at]
<1>1. /\ TasksOK(Tasks, FactNumbers) /\ w \in SweepEntry(FactNumbers) /\ w.at = "fetch"
      /\ Good(w, FactNumbers, Tasks, kept, filed, sweepKind, Alone) /\ Place(w, Tasks, sweepKind)
      /\ w.task \in DOMAIN Tasks /\ SymbolOf(p) = Tasks[w.task].symbol /\ SymbolOf(p) \in Listed
  BY AtWork DEF FetchFacts, Working
<1>2. filed \in [Listed -> [FactNumbers -> Nat]] /\ symbolState \in [Listed -> {"none", "RUNNING", "SUCCESS", "FAILED"}]
      /\ sweepFaults \in Nat
  BY DEF SwInv, SwTypes, Editions
<1>3. seen = [c \in FactNumbers |-> IF c \in Tasks[w.task].requests[w.request] THEN filed[SymbolOf(p)][c] ELSE 0]
  BY DEF Observed, RequestOf, TaskOf
<1>4. seen \in [FactNumbers -> Nat]
  BY <1>1, <1>2, <1>3
<1>5. at \in {"fail", "save"}
  OBVIOUS
<1>6. Step(p, e) /\ UNCHANGED <<sweepKind, filed, kept, symbolState, sweepsBegun, sweepFaults, refusals, cut>>
  BY DEF FetchFacts
<1> HIDE DEF seen, at
<1>7. /\ e \in SweepEntry(FactNumbers) /\ e.at = at /\ e.seen = seen
      /\ e.task = w.task /\ e.request = w.request /\ e.skip = w.skip
      /\ e.only = w.only /\ e.asked = w.asked /\ e.left = w.left /\ e.failed = w.failed
  <2> DEFINE a == [w EXCEPT !.seen = seen]
  <2>1. /\ a \in SweepEntry(FactNumbers) /\ a.seen = seen
        /\ a.task = w.task /\ a.request = w.request /\ a.skip = w.skip
        /\ a.only = w.only /\ a.asked = w.asked /\ a.left = w.left /\ a.failed = w.failed
    BY <1>1, <1>4 DEF SweepEntry
  <2> HIDE DEF a
  <2>2. LET b == [a EXCEPT !.at = at] IN
        /\ b \in SweepEntry(FactNumbers) /\ b.at = at /\ b.seen = a.seen
        /\ b.task = a.task /\ b.request = a.request /\ b.skip = a.skip
        /\ b.only = a.only /\ b.asked = a.asked /\ b.left = a.left /\ b.failed = a.failed
    BY <1>5, <2>1 DEF SweepEntry
  <2>3. e = [a EXCEPT !.at = at]
    BY DEF a
  <2> HIDE DEF e
  <2> QED
    BY <2>1, <2>2, <2>3
<1> HIDE DEF e
<1>8. Good(e, FactNumbers, Tasks, kept, filed, sweepKind, Alone)
  <2> HIDE DEF w
  <2>1. Place(e, Tasks, sweepKind)
    BY <1>1, <1>5, <1>7 DEF Place, Working
  <2>2. AskedFor(e, FactNumbers, filed)
    BY <1>1, <1>7 DEF AskedFor, Good
  <2>3. Answers(e, FactNumbers, Tasks)
    <3>1. \A c \in FactNumbers : w.asked[SymbolOf(p)][c] <= filed[SymbolOf(p)][c]
      BY <1>1 DEF AskedFor, Good
    <3>2. \A c \in FactNumbers : w.asked[SymbolOf(p)][c] \in Nat /\ filed[SymbolOf(p)][c] \in Nat
      BY <1>1, <1>2 DEF SweepEntry
    <3> QED
      BY <1>1, <1>3, <1>7, <3>1, <3>2 DEF Answers
  <2>4. SkipsFit(e, Tasks, kept)
    BY <1>1, <1>7 DEF SkipsFit, Good
  <2>5. Alone => SoFar(e, Tasks, kept)
    <3> SUFFICES ASSUME Alone PROVE SoFar(e, Tasks, kept)
      OBVIOUS
    <3>1. /\ \A i \in DOMAIN Tasks : i < w.task => TaskDone(w, Tasks, kept, i)
          /\ \A q \in DOMAIN Tasks[w.task].requests : q < w.request => RequestDone(w, Tasks, kept, w.task, q)
      BY <1>1 DEF Good, SoFar, Working
    <3>2. /\ \A i \in DOMAIN Tasks : i < w.task => TaskDone(e, Tasks, kept, i)
          /\ \A q \in DOMAIN Tasks[w.task].requests : q < w.request => RequestDone(e, Tasks, kept, w.task, q)
      BY <1>7, <3>1, SameRequests
    <3> QED
      BY <1>5, <1>7, <3>2 DEF SoFar
  <2> QED
    BY <1>7, <2>1, <2>2, <2>3, <2>4, <2>5 DEF Good
<1>9. e.at \in Working \ {"take"} /\ Tasks[e.task].symbol = SymbolOf(p) /\ e.at \in {"save", "fail"}
  BY <1>1, <1>5, <1>7 DEF Working
<1> QED
  BY <1>1, <1>2, <1>6, <1>8, <1>9, QuietStep

\* A sweep that goes on at the same task, in a place that says nothing of its requests.
LEMMA GoodStays ==
  ASSUME NEW w, NEW e, NEW N, NEW T, NEW K, NEW F, NEW swept, NEW alone,
         TasksOK(T, N), Good(w, N, T, K, F, swept, alone), w.at \in Working,
         e \in SweepEntry(N), e.at \in {"fail", "refused"}, e.at = "refused" => swept = "statements",
         e.task = w.task, e.only = w.only, e.asked = w.asked, e.left = w.left, e.failed = w.failed
  PROVE  Good(e, N, T, K, F, swept, alone)
<1>1. Place(e, T, swept)
  BY DEF Good, Place
<1>2. Answers(e, N, T) /\ AskedFor(e, N, F) /\ SkipsFit(e, T, K)
  BY DEF Good, Answers, AskedFor, SkipsFit
<1>3. ASSUME alone PROVE SoFar(e, T, K)
  <2>1. \A i \in DOMAIN T : i < w.task => TaskDone(w, T, K, i)
    BY <1>3 DEF Good, SoFar
  <2>2. \A i \in DOMAIN T : i < w.task => TaskDone(e, T, K, i)
    BY <2>1, SameRequests
  <2> QED
    BY <2>2 DEF SoFar
<1> QED
  BY <1>1, <1>2, <1>3 DEF Good

\* Only the place of an entry changes.
LEMMA OnlyPlace ==
  ASSUME NEW N, NEW w \in SweepEntry(N), NEW at \in {"idle", "take", "fetch", "save", "mark", "fail", "refused", "record", "done"}
  PROVE  LET e == [w EXCEPT !.at = at] IN
           /\ e \in SweepEntry(N) /\ e.at = at
           /\ e.task = w.task /\ e.only = w.only /\ e.asked = w.asked /\ e.left = w.left /\ e.failed = w.failed
BY DEF SweepEntry

\* Each refusal takes a sweep out of those that may still meet one.
LEMMA RefuseKeeps ==
  ASSUME SwInv, NEW p \in Sweepers, RefuseByQuota(p)
  PROVE  SwInv'
<1> DEFINE w == sweep[p]
           e == [w EXCEPT !.at = "refused"]
<1>1. /\ TasksOK(Tasks, FactNumbers) /\ w \in SweepEntry(FactNumbers) /\ w.at = "fetch" /\ w.at \in Working
      /\ Good(w, FactNumbers, Tasks, kept, filed, sweepKind, Alone)
      /\ SymbolOf(p) = Tasks[w.task].symbol
  BY AtWork DEF RefuseByQuota, Working
<1>2. /\ e \in SweepEntry(FactNumbers) /\ e.at = "refused"
      /\ e.task = w.task /\ e.only = w.only /\ e.asked = w.asked /\ e.left = w.left /\ e.failed = w.failed
  BY <1>1, OnlyPlace
<1>3. /\ Step(p, e) /\ UNCHANGED <<sweepKind, filed, kept, symbolState, sweepsBegun, sweepFaults, cut>>
      /\ refusals' = refusals + 1 /\ sweepKind = "statements"
  BY DEF RefuseByQuota, QuotaIsOver
<1>4. sweepFaults \in Nat /\ symbolState \in [Listed -> {"none", "RUNNING", "SUCCESS", "FAILED"}]
  BY DEF SwInv, SwTypes
<1> HIDE DEF e
<1>5. Good(e, FactNumbers, Tasks, kept, filed, sweepKind, Alone)
  <2> HIDE DEF w
  <2> QED
    BY <1>1, <1>2, <1>3, GoodStays
<1>6. e.at \in Working \ {"take"} /\ Tasks[e.task].symbol = SymbolOf(p)
  BY <1>1, <1>2 DEF Working
<1> QED
  BY <1>1, <1>2, <1>3, <1>4, <1>5, <1>6, QuietStep

\* A failed request leads to the failure of its task.
LEMMA RequestFailsKeeps ==
  ASSUME SwInv, NEW p \in Sweepers, RequestFails(p)
  PROVE  SwInv'
<1> DEFINE w == sweep[p]
           e == [w EXCEPT !.at = "fail"]
<1>1. /\ TasksOK(Tasks, FactNumbers) /\ w \in SweepEntry(FactNumbers) /\ w.at \in {"fetch", "save"} /\ w.at \in Working
      /\ Good(w, FactNumbers, Tasks, kept, filed, sweepKind, Alone)
      /\ SymbolOf(p) = Tasks[w.task].symbol
  BY AtWork DEF RequestFails, Working
<1>2. /\ e \in SweepEntry(FactNumbers) /\ e.at = "fail"
      /\ e.task = w.task /\ e.only = w.only /\ e.asked = w.asked /\ e.left = w.left /\ e.failed = w.failed
  BY <1>1, OnlyPlace
<1>3. /\ Step(p, e) /\ UNCHANGED <<sweepKind, filed, kept, symbolState, sweepsBegun, refusals, cut>>
      /\ sweepFaults' = sweepFaults + 1
  BY DEF RequestFails, Faulty
<1>4. sweepFaults \in Nat /\ symbolState \in [Listed -> {"none", "RUNNING", "SUCCESS", "FAILED"}]
  BY DEF SwInv, SwTypes
<1> HIDE DEF e
<1>5. Good(e, FactNumbers, Tasks, kept, filed, sweepKind, Alone)
  <2> HIDE DEF w
  <2> QED
    BY <1>1, <1>2, GoodStays
<1>6. e.at \in Working \ {"take"} /\ Tasks[e.task].symbol = SymbolOf(p)
  BY <1>1, <1>2 DEF Working
<1>7. sweepFaults' \in Nat /\ sweepFaults' >= sweepFaults
  BY <1>3, <1>4
<1> QED
  BY <1>1, <1>2, <1>3, <1>4, <1>5, <1>6, <1>7, QuietStep

\* The state of one symbol.
LEMMA MarkedIs ==
  ASSUME SwInv, NEW p \in Sweepers, SymbolOf(p) \in Listed, NEW state \in {"SUCCESS", "FAILED"}, Marked(p, state)
  PROVE  /\ symbolState' \in [Listed -> {"none", "RUNNING", "SUCCESS", "FAILED"}]
         /\ symbolState'[SymbolOf(p)] # "RUNNING"
         /\ \A s \in Listed : symbolState'[s] = "RUNNING" => symbolState[s] = "RUNNING"
<1>1. symbolState \in [Listed -> {"none", "RUNNING", "SUCCESS", "FAILED"}]
  BY DEF SwInv, SwTypes
<1> QED
  BY <1>1 DEF Marked

\* A symbol is marked after its last request was stored.
LEMMA MarkSucceededKeeps ==
  ASSUME SwInv, NEW p \in Sweepers, MarkSucceeded(p)
  PROVE  SwInv'
<1> DEFINE w == sweep[p]
           e == NextTask(w)
<1>1. /\ TasksOK(Tasks, FactNumbers) /\ w \in SweepEntry(FactNumbers) /\ w.at = "mark" /\ w.at \in Working
      /\ Good(w, FactNumbers, Tasks, kept, filed, sweepKind, Alone)
      /\ SymbolOf(p) = Tasks[w.task].symbol /\ SymbolOf(p) \in Listed
  BY AtWork DEF MarkSucceeded, Working
<1>2. /\ e \in SweepEntry(FactNumbers)
      /\ e.task = w.task + 1 /\ e.request = 1 /\ e.at = IF w.task = Len(Tasks) THEN "record" ELSE "take"
      /\ e.only = w.only /\ e.asked = w.asked /\ e.left = w.left /\ e.failed = w.failed
  BY <1>1, NextTaskIs
<1>3. Step(p, e) /\ UNCHANGED <<sweepKind, filed, kept, sweepsBegun, sweepFaults, refusals, cut>> /\ Marked(p, "SUCCESS")
  BY DEF MarkSucceeded
<1>4. /\ symbolState' \in [Listed -> {"none", "RUNNING", "SUCCESS", "FAILED"}]
      /\ symbolState'[SymbolOf(p)] # "RUNNING"
      /\ \A s \in Listed : symbolState'[s] = "RUNNING" => symbolState[s] = "RUNNING"
  BY <1>1, <1>3, MarkedIs
<1>5. sweepFaults \in Nat
  BY DEF SwInv, SwTypes
<1> HIDE DEF e
<1>6. Good(e, FactNumbers, Tasks, kept, filed, sweepKind, Alone)
  <2> HIDE DEF w
  <2>1. Alone => \A q \in DOMAIN Tasks[w.task].requests : RequestDone(w, Tasks, kept, w.task, q)
    BY <1>1 DEF Good, SoFar
  <2>2. Alone => TaskDone(e, Tasks, kept, w.task)
    BY <1>2, <2>1, SameRequests DEF TaskDone
  <2> QED
    BY <1>1, <1>2, <2>2, GoodNext
<1> QED
  BY <1>1, <1>2, <1>3, <1>4, <1>5, <1>6, QuietStep

\* A symbol that failed is remembered by the sweep.
LEMMA MarkFailedKeeps ==
  ASSUME SwInv, NEW p \in Sweepers, MarkFailed(p)
  PROVE  SwInv'
<1> DEFINE w == sweep[p]
           e == Failed(p)
<1>1. w.at = "fail" /\ w.at \in Working /\ SymbolOf(p) \in Listed
  BY AtWork DEF MarkFailed, Working
<1>2. Good(e, FactNumbers, Tasks, kept, filed, sweepKind, Alone) /\ e.at \in {"take", "record"}
  BY <1>1, FailedIs
<1>3. /\ Step(p, e) /\ UNCHANGED <<sweepKind, filed, kept, sweepsBegun, sweepFaults, refusals, cut>>
      /\ IF sweepKind \in Announced THEN Marked(p, "FAILED") ELSE UNCHANGED symbolState
  BY DEF MarkFailed, FailedState
<1>4. sweepFaults \in Nat /\ symbolState \in [Listed -> {"none", "RUNNING", "SUCCESS", "FAILED"}] /\ StatusFits
  BY DEF SwInv, SwTypes
<1>5. /\ symbolState' \in [Listed -> {"none", "RUNNING", "SUCCESS", "FAILED"}]
      /\ symbolState'[SymbolOf(p)] # "RUNNING"
      /\ \A s \in Listed : symbolState'[s] = "RUNNING" => symbolState[s] = "RUNNING"
  <2>1. CASE sweepKind \in Announced
    BY <1>1, <1>3, <2>1, MarkedIs
  <2>2. CASE sweepKind \notin Announced
    BY <1>1, <1>3, <1>4, <2>2 DEF StatusFits
  <2> QED
    BY <2>1, <2>2
<1> HIDE DEF e
<1> QED
  BY <1>1, <1>2, <1>3, <1>4, <1>5, QuietStep

\* A task that is cut off counts as failed, and its symbol is remembered as cut off.
LEMMA CutOffKeeps ==
  ASSUME SwInv, NEW p \in Sweepers, CutOff(p)
  PROVE  SwInv'
<1> DEFINE w == sweep[p]
           e == Failed(p)
<1>1. w.at \in Working
  BY DEF CutOff, AtTask, Working
<1>2. Good(e, FactNumbers, Tasks, kept, filed, sweepKind, Alone) /\ e.at \in {"take", "record"}
  BY <1>1, FailedIs
<1>3. /\ Step(p, e) /\ UNCHANGED <<sweepKind, filed, kept, symbolState, sweepsBegun, refusals>>
      /\ sweepFaults' = sweepFaults + 1
      /\ cut' = IF sweepKind \in Announced /\ AtTask(p) THEN cut \cup {SymbolOf(p)} ELSE cut
  BY DEF CutOff, Faulty
<1>4. sweepFaults \in Nat /\ symbolState \in [Listed -> {"none", "RUNNING", "SUCCESS", "FAILED"}] /\ StatusFits
  BY DEF SwInv, SwTypes
<1>5. sweepFaults' \in Nat /\ sweepFaults' >= sweepFaults /\ sweepFaults' >= sweepFaults + 1
  BY <1>3, <1>4
<1>6. \A s \in Listed : symbolState'[s] = "RUNNING" =>
        symbolState[s] = "RUNNING" /\ (s \in cut => s \in cut') /\ (AtTask(p) /\ SymbolOf(p) = s => s \in cut')
  BY <1>3, <1>4 DEF StatusFits
<1> HIDE DEF e
<1>7. w.at # "idle"
  BY <1>1 DEF Working
<1> QED
  BY <1>2, <1>3, <1>4, <1>5, <1>6, <1>7, QuietStep

\* A sweep that stops names every symbol it did not come to.
LEMMA StopKeeps ==
  ASSUME SwInv, NEW p \in Sweepers, StopSweep(p)
  PROVE  SwInv'
<1> DEFINE w == sweep[p]
           left == Left(p)
           a == [w EXCEPT !.at = "record"]
           e == [a EXCEPT !.left = left]
<1>1. /\ TasksOK(Tasks, FactNumbers) /\ w \in SweepEntry(FactNumbers) /\ w.at = "refused" /\ w.at \in Working
      /\ Good(w, FactNumbers, Tasks, kept, filed, sweepKind, Alone) /\ Place(w, Tasks, sweepKind)
      /\ w.task \in DOMAIN Tasks /\ SymbolOf(p) = Tasks[w.task].symbol /\ SymbolOf(p) \in Listed
  BY AtWork DEF StopSweep, Working
<1>2. left = {Tasks[i].symbol : i \in w.task .. Len(Tasks)}
  BY DEF Left
<1>3. /\ left \subseteq Listed
      /\ \A i \in DOMAIN Tasks : i < w.task \/ Tasks[i].symbol \in left
  <2>1. w.task \in Nat /\ DOMAIN Tasks = 1 .. Len(Tasks) /\ Len(Tasks) \in Nat
        /\ \A i \in DOMAIN Tasks : Tasks[i].symbol \in Listed
    BY <1>1 DEF TasksOK
  <2>2. \A i \in w.task .. Len(Tasks) : i \in DOMAIN Tasks
    BY <1>1, <2>1
  <2>3. \A i \in DOMAIN Tasks : i < w.task \/ i \in w.task .. Len(Tasks)
    BY <2>1
  <2> HIDE DEF w
  <2> QED
    BY <1>2, <2>1, <2>2, <2>3
<1>4. /\ a \in SweepEntry(FactNumbers) /\ a.at = "record"
      /\ a.task = w.task /\ a.only = w.only /\ a.asked = w.asked /\ a.failed = w.failed
  <2>1. w \in SweepEntry(FactNumbers)
    BY <1>1
  <2> QED
    BY <2>1 DEF SweepEntry
<1>5. Step(p, e) /\ UNCHANGED <<sweepKind, filed, kept, sweepsBegun, sweepFaults, refusals, cut>> /\ Marked(p, "FAILED")
  BY DEF StopSweep, FailedState
<1> HIDE DEF a, left
<1>6. /\ e \in SweepEntry(FactNumbers) /\ e.at = "record" /\ e.left = left
      /\ e.task = w.task /\ e.only = w.only /\ e.asked = w.asked /\ e.failed = w.failed
  BY <1>3, <1>4 DEF SweepEntry
<1>7. /\ symbolState' \in [Listed -> {"none", "RUNNING", "SUCCESS", "FAILED"}]
      /\ symbolState'[SymbolOf(p)] # "RUNNING"
      /\ \A s \in Listed : symbolState'[s] = "RUNNING" => symbolState[s] = "RUNNING"
  BY <1>1, <1>5, MarkedIs
<1>8. sweepFaults \in Nat
  BY DEF SwInv, SwTypes
<1> HIDE DEF e
<1>9. Good(e, FactNumbers, Tasks, kept, filed, sweepKind, Alone)
  <2> HIDE DEF w
  <2>1. Place(e, Tasks, sweepKind)
    BY <1>1, <1>6 DEF Place, Working
  <2>2. Answers(e, FactNumbers, Tasks) /\ AskedFor(e, FactNumbers, filed) /\ SkipsFit(e, Tasks, kept)
    BY <1>1, <1>6 DEF Answers, AskedFor, SkipsFit, Good
  <2>3. Alone => SoFar(e, Tasks, kept)
    <3> SUFFICES ASSUME Alone PROVE SoFar(e, Tasks, kept)
      OBVIOUS
    <3>1. \A i \in DOMAIN Tasks : i < w.task => TaskDone(w, Tasks, kept, i)
      BY <1>1 DEF Good, SoFar
    <3>2. \A i \in DOMAIN Tasks : i < w.task => TaskDone(e, Tasks, kept, i)
      BY <1>6, <3>1, SameRequests
    <3> QED
      BY <1>3, <1>6, <3>2 DEF SoFar, Working
  <2> QED
    BY <1>6, <2>1, <2>2, <2>3 DEF Good
<1> QED
  BY <1>1, <1>5, <1>6, <1>7, <1>8, <1>9, QuietStep

\* The end of a sweep changes nothing that is known of its tasks.
LEMMA RecordKeeps ==
  ASSUME SwInv, NEW p \in Sweepers, RecordSweep(p)
  PROVE  SwInv'
<1> DEFINE w == sweep[p]
           e == [w EXCEPT !.at = "done"]
<1>1. /\ TasksOK(Tasks, FactNumbers) /\ w \in SweepEntry(FactNumbers) /\ w.at = "record"
      /\ Good(w, FactNumbers, Tasks, kept, filed, sweepKind, Alone)
  BY AtWork DEF RecordSweep
<1>2. /\ e \in SweepEntry(FactNumbers) /\ e.at = "done"
      /\ e.task = w.task /\ e.only = w.only /\ e.asked = w.asked /\ e.left = w.left /\ e.failed = w.failed
  BY <1>1, OnlyPlace
<1>3. Step(p, e) /\ UNCHANGED <<sweepKind, filed, kept, symbolState, sweepsBegun, sweepFaults, refusals, cut>>
  BY DEF RecordSweep
<1>4. sweepFaults \in Nat /\ symbolState \in [Listed -> {"none", "RUNNING", "SUCCESS", "FAILED"}]
  BY DEF SwInv, SwTypes
<1>5. ~ AtTask(p)
  BY <1>1 DEF AtTask
<1> HIDE DEF e
<1>6. Good(e, FactNumbers, Tasks, kept, filed, sweepKind, Alone)
  <2> HIDE DEF w
  <2>1. Place(e, Tasks, sweepKind)
    BY <1>1, <1>2 DEF Place, Good, Working
  <2>2. Answers(e, FactNumbers, Tasks) /\ AskedFor(e, FactNumbers, filed) /\ SkipsFit(e, Tasks, kept)
    BY <1>1, <1>2 DEF Answers, AskedFor, SkipsFit, Good
  <2>3. Alone => SoFar(e, Tasks, kept)
    <3> SUFFICES ASSUME Alone PROVE SoFar(e, Tasks, kept)
      OBVIOUS
    <3>1. \A i \in DOMAIN Tasks : TaskDone(w, Tasks, kept, i) \/ Tasks[i].symbol \in w.left
      BY <1>1 DEF Good, SoFar
    <3>2. \A i \in DOMAIN Tasks : TaskDone(e, Tasks, kept, i) \/ Tasks[i].symbol \in e.left
      BY <1>2, <3>1, SameRequests
    <3> QED
      BY <1>2, <3>2 DEF SoFar, Working
  <2> QED
    BY <1>2, <2>1, <2>2, <2>3 DEF Good
<1> QED
  BY <1>1, <1>2, <1>3, <1>4, <1>5, <1>6, QuietStep

\* Nothing is known of a sweep that has not begun, and nothing needs to be.
LEMMA NothingYet ==
  ASSUME sweepKind \in SweepKinds
  PROVE  /\ NoSweep \in SweepEntry(FactNumbers) /\ NoSweep.at = "idle" /\ NoSweep.only = FALSE /\ NoSweep.left = {}
         /\ NoSweep.task = 1 /\ NoSweep.request = 1
         /\ \A s \in Listed, c \in FactNumbers : NoSweep.asked[s][c] = 0
<1>1. NoEdition \in [FactNumbers -> Nat] /\ \A c \in FactNumbers : NoEdition[c] = 0
  BY DEF NoEdition
<1> QED
  BY <1>1 DEF NoSweep, SweepEntry, Listed

\* An entry of no sweep claims nothing.
LEMMA IdleIsGood ==
  ASSUME SwTypes
  PROVE  Good(NoSweep, FactNumbers, Tasks, kept, filed, sweepKind, Alone)
<1> DEFINE e == NoSweep
<1>1. /\ e \in SweepEntry(FactNumbers) /\ e.at = "idle" /\ e.only = FALSE /\ e.left = {}
      /\ \A s \in Listed, c \in FactNumbers : e.asked[s][c] = 0
  BY NothingYet DEF SwTypes
<1>2. \A s \in Listed, c \in FactNumbers : filed[s][c] \in Nat
  BY DEF SwTypes, Editions
<1> HIDE DEF e
<1>3. Place(e, Tasks, sweepKind)
  BY <1>1 DEF Place, Working
<1>4. Answers(e, FactNumbers, Tasks) /\ AskedFor(e, FactNumbers, filed) /\ SkipsFit(e, Tasks, kept)
  BY <1>1, <1>2 DEF Answers, AskedFor, SkipsFit
<1>5. SoFar(e, Tasks, kept)
  BY <1>1 DEF SoFar, Working
<1>6. Good(e, FactNumbers, Tasks, kept, filed, sweepKind, Alone)
  BY <1>1, <1>3, <1>4, <1>5 DEF Good
<1> QED
  BY <1>6 DEF e

\* A process that dies leaves its symbol cut off and knows nothing any more.
LEMMA DiesKeeps ==
  ASSUME SwInv, NEW p \in Sweepers, SweepDies(p)
  PROVE  SwInv'
<1> DEFINE e == NoSweep
<1>1. /\ Step(p, e) /\ UNCHANGED <<sweepKind, filed, kept, symbolState, sweepsBegun, refusals>>
      /\ sweepFaults' = sweepFaults + 1
      /\ cut' = IF sweepKind \in Announced /\ AtTask(p) THEN cut \cup {SymbolOf(p)} ELSE cut
  BY DEF SweepDies, Faulty
<1>2. SwTypes /\ StatusFits
  BY DEF SwInv
<1>3. e.at = "idle" /\ Good(e, FactNumbers, Tasks, kept, filed, sweepKind, Alone)
  BY <1>2, NothingYet, IdleIsGood DEF SwTypes
<1>4. sweepFaults \in Nat /\ symbolState \in [Listed -> {"none", "RUNNING", "SUCCESS", "FAILED"}]
  BY <1>2 DEF SwTypes
<1>5. sweepFaults' \in Nat /\ sweepFaults' >= sweepFaults
  BY <1>1, <1>4
<1>6. \A s \in Listed : symbolState'[s] = "RUNNING" =>
        symbolState[s] = "RUNNING" /\ (s \in cut => s \in cut') /\ (AtTask(p) /\ SymbolOf(p) = s => s \in cut')
  BY <1>1, <1>2 DEF StatusFits
<1> HIDE DEF e
<1> QED
  BY <1>1, <1>3, <1>4, <1>5, <1>6, QuietStep

-----------------------------------------------------------------------------
(* The steps that store, begin and publish.                              *)

\* A stored edition replaces an older one only, but for the kinds whose last writer wins.
LEMMA SaveGrows ==
  ASSUME SwInv, NEW p \in Sweepers, SaveFacts(p)
  PROVE  /\ kept' \in Editions
         /\ sweepKind \notin Overwritten =>
              \A s \in Listed, c \in FactNumbers : kept'[s][c] >= kept[s][c]
         /\ sweepKind \in Overwritten =>
              \A s \in Listed, c \in FactNumbers : There(sweep[p], kept, s, c) => There(sweep[p], kept', s, c)
         /\ ~ (sweepKind \in Guarded /\ IsOlder(p)) =>
              \A c \in RequestOf(p) : There(sweep[p], kept', SymbolOf(p), c)
<1> DEFINE w == sweep[p]
           s0 == SymbolOf(p)
           req == RequestOf(p)
<1>1. /\ TasksOK(Tasks, FactNumbers) /\ w \in SweepEntry(FactNumbers) /\ w.at = "save"
      /\ Good(w, FactNumbers, Tasks, kept, filed, sweepKind, Alone) /\ Place(w, Tasks, sweepKind)
      /\ w.task \in DOMAIN Tasks /\ s0 = Tasks[w.task].symbol /\ s0 \in Listed
  BY AtWork DEF SaveFacts, Working
<1>2. req = Tasks[w.task].requests[w.request] /\ req \subseteq FactNumbers
  BY <1>1 DEF RequestOf, TaskOf, Place, TasksOK
<1>3. \A c \in FactNumbers : (w.seen[c] # 0 => c \in req) /\ (c \in req => w.seen[c] >= w.asked[s0][c])
  BY <1>1, <1>2 DEF Good, Answers
<1>4. /\ kept \in [Listed -> [FactNumbers -> Nat]] /\ sweepKind \in SweepKinds
      /\ w.seen \in [FactNumbers -> Nat] /\ w.asked \in [Listed -> [FactNumbers -> Nat]]
  BY <1>1 DEF SwInv, SwTypes, Editions, SweepEntry
<1>5. CASE sweepKind \in Guarded /\ IsOlder(p)
  <2>1. kept' = kept
    BY <1>5 DEF SaveFacts
  <2> QED
    BY <1>4, <1>5, <2>1 DEF Editions
<1>6. CASE ~ (sweepKind \in Guarded /\ IsOlder(p))
  <2> DEFINE new == [c \in FactNumbers |-> IF Taken(p, c) THEN w.seen[c] ELSE kept[s0][c]]
  <2>1. kept' = [kept EXCEPT ![s0] = new]
    BY <1>6 DEF SaveFacts
  <2>2. \A c \in FactNumbers : new[c] = IF Taken(p, c) THEN w.seen[c] ELSE kept[s0][c]
    OBVIOUS
  <2>3. new \in [FactNumbers -> Nat]
    BY <1>1, <1>4
  <2> HIDE DEF new
  <2>4. kept' \in Editions /\ kept'[s0] = new /\ \A s \in Listed : s # s0 => kept'[s] = kept[s]
    BY <1>1, <1>4, <2>1, <2>3 DEF Editions
  <2>5. \A c \in FactNumbers : Taken(p, c) <=> w.seen[c] # 0 /\ (sweepKind \in Dropped => w.seen[c] >= kept[s0][c])
    BY DEF Taken
  <2>6. sweepKind \in Guarded => \A c \in req : ~ (w.seen[c] # 0 /\ w.seen[c] < kept[s0][c])
    BY <1>6 DEF IsOlder
  <2>7. \A c \in FactNumbers : {w.seen[c], kept[s0][c], w.asked[s0][c]} \subseteq Nat
    BY <1>1, <1>4
  <2>8. ASSUME sweepKind \notin Overwritten, NEW c \in FactNumbers PROVE new[c] >= kept[s0][c]
    <3>1. sweepKind \in Guarded \cup Dropped
      BY <1>4, <2>8 DEF SweepKinds, Guarded, Dropped, Overwritten
    <3> QED
      BY <1>3, <2>2, <2>5, <2>6, <2>7, <3>1
  <2>9. ASSUME NEW c \in req PROVE new[c] >= w.asked[s0][c]
    <3>1. c \in FactNumbers /\ w.seen[c] >= w.asked[s0][c]
      BY <1>2, <1>3
    <3> QED
      BY <2>2, <2>5, <2>7, <3>1
  <2>10. \A c \in req : There(w, kept', s0, c)
    BY <2>4, <2>9 DEF There
  <2>11. ASSUME sweepKind \in Overwritten, NEW s \in Listed, NEW c \in FactNumbers, There(w, kept, s, c)
         PROVE  There(w, kept', s, c)
    <3>1. ~ w.only
      BY <1>1, <2>11 DEF Place, Overwritten
    <3>2. CASE s = s0 /\ c \in req
      BY <2>10, <3>2
    <3>3. CASE s = s0 /\ c \notin req
      <4>1. new[c] = kept[s0][c]
        BY <1>3, <2>2, <2>5, <3>3
      <4> QED
        BY <2>4, <2>11, <3>3, <4>1 DEF There
    <3>4. CASE s # s0
      BY <2>4, <2>11, <3>4 DEF There
    <3> QED
      BY <3>2, <3>3, <3>4
  <2>12. sweepKind \notin Overwritten => \A s \in Listed, c \in FactNumbers : kept'[s][c] >= kept[s][c]
    <3> SUFFICES ASSUME sweepKind \notin Overwritten, NEW s \in Listed, NEW c \in FactNumbers
                 PROVE  kept'[s][c] >= kept[s][c]
      OBVIOUS
    <3>1. CASE s = s0
      BY <2>4, <2>8, <3>1
    <3>2. CASE s # s0
      <4>1. kept[s][c] \in Nat
        BY <1>4
      <4> QED
        BY <2>4, <3>2, <4>1
    <3> QED
      BY <3>1, <3>2
  <2> QED
    BY <2>4, <2>10, <2>11, <2>12
<1> QED
  BY <1>5, <1>6

\* Whoever does not move keeps what is known of it, as long as what is there stays there.
LEMMA OthersGrow ==
  ASSUME SwInv, sweepKind' = sweepKind, NEW q \in Sweepers, sweep'[q] = sweep[q],
         filed' \in Editions, kept' \in Editions,
         \A s \in Listed, c \in FactNumbers : filed'[s][c] >= filed[s][c],
         sweepKind \notin Overwritten => \A s \in Listed, c \in FactNumbers : kept'[s][c] >= kept[s][c],
         sweepKind \in Overwritten /\ Alone' /\ sweep[q].at # "idle" =>
           \A s \in Listed, c \in FactNumbers : There(sweep[q], kept, s, c) => There(sweep[q], kept', s, c),
         Alone' /\ sweep[q].at # "idle" => Alone
  PROVE  Fine(q)'
<1> DEFINE w == sweep[q]
           ok == Alone'
<1>1. /\ TasksOK(Tasks, FactNumbers)
      /\ Good(w, FactNumbers, Tasks, kept, filed, sweepKind, Alone)
  BY AtWork
<1>2. kept \in Editions /\ filed \in Editions
  BY DEF SwInv, SwTypes
<1>3. FactNumbers' = FactNumbers /\ Tasks' = Tasks
  BY KindStays
<1>4. {kept, kept', filed, filed'} \subseteq [Listed -> [FactNumbers -> Nat]]
  BY <1>2 DEF Editions
<1> HIDE DEF w, ok
<1>5. /\ sweepKind \in Overwritten /\ ok /\ w.at # "idle" =>
           \A s \in Listed, c \in FactNumbers : There(w, kept, s, c) => There(w, kept', s, c)
      /\ ok /\ w.at # "idle" => Alone
  BY DEF w, ok
<1>6. Good(w, FactNumbers, Tasks, kept', filed', sweepKind, ok)
  BY <1>1, <1>4, <1>5, GoodGrows
<1>7. Good(sweep'[q], FactNumbers', Tasks', kept', filed', sweepKind', Alone')
  BY <1>3, <1>6 DEF w, ok
<1> QED
  BY <1>7 DEF Fine

\* A save stores the answer of its request or fails the task; an older answer counts only when the stored one is later.
LEMMA SaveFactsKeeps ==
  ASSUME SwInv, NEW p \in Sweepers, SaveFacts(p)
  PROVE  SwInv'
<1> DEFINE w == sweep[p]
           older == sweepKind \in Guarded /\ IsOlder(p)
           after == AfterRequest(p)
           failing == [w EXCEPT !.at = "fail"]
           e == IF older THEN failing ELSE after
<1>0. SwTypes /\ FirstIsAlone /\ KnocksFit /\ StatusFits
  BY DEF SwInv
<1>1. /\ TasksOK(Tasks, FactNumbers) /\ w \in SweepEntry(FactNumbers) /\ w.at = "save" /\ w.at \in Working
      /\ Good(w, FactNumbers, Tasks, kept, filed, sweepKind, Alone) /\ Place(w, Tasks, sweepKind)
      /\ w.task \in DOMAIN Tasks /\ SymbolOf(p) = Tasks[w.task].symbol /\ SymbolOf(p) \in Listed
  BY AtWork DEF SaveFacts, Working
<1>2. /\ kept' \in Editions
      /\ sweepKind \notin Overwritten =>
           \A s \in Listed, c \in FactNumbers : kept'[s][c] >= kept[s][c]
      /\ sweepKind \in Overwritten =>
           \A s \in Listed, c \in FactNumbers : There(w, kept, s, c) => There(w, kept', s, c)
      /\ ~ older => \A c \in RequestOf(p) : There(w, kept', SymbolOf(p), c)
  BY SaveGrows
<1>3. Step(p, e) /\ UNCHANGED <<sweepKind, filed, sweepsBegun, sweepFaults, refusals, cut>>
  BY DEF SaveFacts
<1>4. FactNumbers' = FactNumbers /\ Tasks' = Tasks /\ Editions' = Editions /\ Alone' = Alone
  BY <1>3, KindStays DEF Alone
<1>5. /\ after \in SweepEntry(FactNumbers)
      /\ after.only = w.only /\ after.asked = w.asked /\ after.left = w.left /\ after.failed = w.failed
      /\ IF w.request < Len(Tasks[w.task].requests)
         THEN after.at = "fetch" /\ after.task = w.task /\ after.request = w.request + 1 /\ after.skip = w.skip
         ELSE IF sweepKind = "statements" THEN after.at = "mark" /\ after.task = w.task
         ELSE after.task = w.task + 1 /\ after.request = 1 /\ after.at = IF w.task = Len(Tasks) THEN "record" ELSE "take"
  BY <1>1, AfterIs
<1>6. /\ failing \in SweepEntry(FactNumbers) /\ failing.at = "fail"
      /\ failing.task = w.task /\ failing.only = w.only /\ failing.asked = w.asked
      /\ failing.left = w.left /\ failing.failed = w.failed
  <2>1. w \in SweepEntry(FactNumbers)
    BY <1>1
  <2> HIDE DEF w
  <2> QED
    BY <2>1 DEF SweepEntry
<1>7. e = IF older THEN failing ELSE after
  OBVIOUS
<1>8. ~ older => (sweepKind \in DoneWithSave => Marked(p, "SUCCESS"))
                 /\ (sweepKind \notin DoneWithSave => symbolState' = symbolState)
  BY DEF SaveFacts
<1>9. older => kept' = kept /\ symbolState' = symbolState
  BY DEF SaveFacts
<1>10. kept \in Editions /\ filed \in Editions /\ symbolState \in [Listed -> {"none", "RUNNING", "SUCCESS", "FAILED"}]
       /\ sweepKind \in SweepKinds /\ {sweepsBegun, sweepFaults, refusals} \subseteq Nat
  BY <1>0 DEF SwTypes
<1> HIDE DEF e, after, failing, older
<1>11. sweep'[p] = e /\ \A q \in Sweepers : q # p => sweep'[q] = sweep[q]
  BY <1>0, <1>3 DEF Step, SwTypes
<1>12. Good(w, FactNumbers, Tasks, kept', filed, sweepKind, Alone)
  <2>1. {kept, kept', filed} \subseteq [Listed -> [FactNumbers -> Nat]]
    BY <1>2, <1>10 DEF Editions
  <2>2. \A s \in Listed, c \in FactNumbers : filed[s][c] >= filed[s][c]
    BY <2>1
  <2> HIDE DEF w
  <2> QED
    BY <1>1, <1>2, <2>1, <2>2, GoodGrows
<1>13. Good(e, FactNumbers, Tasks, kept', filed, sweepKind, Alone)
  <2>1. CASE older
    <3> HIDE DEF w
    <3> QED
      BY <1>1, <1>6, <1>7, <1>12, <2>1, GoodStays
  <2>2. CASE ~ older
    <3>1. RequestDone(w, Tasks, kept', w.task, w.request)
      BY <1>1, <1>2, <2>2 DEF RequestDone, RequestOf, TaskOf
    <3>2. e = after
      BY <1>7, <2>2
    <3> HIDE DEF w
    <3>3. Good(after, FactNumbers, Tasks, kept', filed, sweepKind, Alone)
      BY <1>1, <1>5, <1>12, <3>1, GoodAfter
    <3> QED
      BY <3>2, <3>3
  <2> QED
    BY <2>1, <2>2
<1>14. \A q \in Sweepers : Fine(q)'
  <2> SUFFICES ASSUME NEW q \in Sweepers PROVE Fine(q)'
    OBVIOUS
  <2>1. CASE q = p
    BY <1>3, <1>4, <1>11, <1>13, <2>1 DEF Fine
  <2>2. CASE q # p
    <3>1. sweepKind \in Overwritten /\ Alone' => sweepsBegun = 1
      BY <1>3 DEF Alone
    <3>2. sweepsBegun = 1 => sweep[q].at = "idle"
      BY <1>0, <1>1, <2>2 DEF FirstIsAlone
    <3>3. filed' \in Editions /\ \A s \in Listed, c \in FactNumbers : filed'[s][c] >= filed[s][c]
      BY <1>3, <1>10 DEF Editions
    <3>4. sweep'[q] = sweep[q] /\ sweepKind' = sweepKind
      BY <1>3, <1>11, <2>2
    <3> QED
      BY <1>2, <1>4, <3>1, <3>2, <3>3, <3>4, OthersGrow
  <2> QED
    BY <2>1, <2>2
<1>15. /\ symbolState' \in [Listed -> {"none", "RUNNING", "SUCCESS", "FAILED"}]
       /\ \A s \in Listed : symbolState'[s] = "RUNNING" => symbolState[s] = "RUNNING"
       /\ ~ older /\ sweepKind \in DoneWithSave => symbolState'[SymbolOf(p)] # "RUNNING"
  <2>1. CASE older
    BY <1>9, <1>10, <2>1
  <2>2. CASE ~ older /\ sweepKind \in DoneWithSave
    BY <1>1, <1>8, <2>2, MarkedIs
  <2>3. CASE ~ older /\ sweepKind \notin DoneWithSave
    BY <1>8, <1>10, <2>3
  <2> QED
    BY <2>1, <2>2, <2>3
<1>16. SwTypes'
  <2>1. e \in SweepEntry(FactNumbers)
    BY <1>13 DEF Good
  <2>2. sweep' \in [Sweepers -> SweepEntry(FactNumbers)]
    BY <1>0, <1>3, <2>1 DEF Step, SwTypes
  <2> QED
    BY <1>2, <1>3, <1>4, <1>10, <1>15, <2>2 DEF SwTypes
<1>17. FirstIsAlone'
  BY <1>0, <1>1, <1>3, <1>11 DEF FirstIsAlone
<1>18. KnocksFit'
  <2>1. p \in Knocking
    BY <1>1 DEF Knocking
  <2>2. {sweepsBegun, sweepFaults, refusals, sweepsBegun', sweepFaults', refusals'} \subseteq Nat
        /\ refusals' = refusals /\ sweepsBegun' + sweepFaults' >= sweepsBegun + sweepFaults
    BY <1>3, <1>10
  <2> QED
    BY <1>0, <1>11, <2>1, <2>2, KnocksMove
<1>19. StatusFits'
  <2>1. \A s \in Listed : symbolState'[s] = "RUNNING" =>
           \/ AtTask(p)' /\ SymbolOf(p)' = s
           \/ symbolState[s] = "RUNNING" /\ (s \in cut => s \in cut') /\ (AtTask(p) /\ SymbolOf(p) = s => s \in cut')
    <3> SUFFICES ASSUME NEW s \in Listed, symbolState'[s] = "RUNNING"
                 PROVE  (AtTask(p)' /\ SymbolOf(p)' = s) \/ s # SymbolOf(p)
      BY <1>3, <1>15
    <3>1. sweepKind \in Announced
      BY <1>0, <1>15 DEF StatusFits
    <3>2. AtTask(p)' <=> e.at \in {"fetch", "save", "mark", "fail", "refused"}
      BY <1>11 DEF AtTask
    <3>3. SymbolOf(p)' = Tasks[e.task].symbol
      BY <1>4, <1>11 DEF SymbolOf, TaskOf
    <3>4. CASE older
      BY <1>1, <1>6, <1>7, <3>2, <3>3, <3>4
    <3>5. CASE ~ older /\ sweepKind \in DoneWithSave
      BY <1>15, <3>5
    <3>6. CASE ~ older /\ sweepKind \notin DoneWithSave
      <4>1. sweepKind = "statements"
        BY <3>1, <3>6 DEF Announced, DoneWithSave
      <4>2. e.at \in {"fetch", "mark"} /\ e.task = w.task
        BY <1>5, <1>7, <3>6, <4>1
      <4> QED
        BY <1>1, <3>2, <3>3, <4>2
    <3> QED
      BY <3>4, <3>5, <3>6
  <2> QED
    BY <1>0, <1>3, <1>11, <1>15, <2>1, StatusMoves
<1> QED
  BY <1>14, <1>16, <1>17, <1>18, <1>19 DEF SwInv

\* A sweep begins with every task before it, asking for what is published now.
LEMMA BeginSweepKeeps ==
  ASSUME SwInv, NEW p \in Sweepers, BeginSweep(p)
  PROVE  SwInv'
<1>0. SwTypes /\ FirstIsAlone /\ KnocksFit /\ StatusFits
  BY DEF SwInv
<1>1. PICK only \in (IF sweepKind = "statements" THEN BOOLEAN ELSE {FALSE}) :
        Step(p, [NoSweep EXCEPT !.at = IF Tasks = <<>> THEN "record" ELSE "take", !.only = only, !.asked = filed])
  BY DEF BeginSweep
<1> DEFINE at == IF Tasks = <<>> THEN "record" ELSE "take"
           a == [NoSweep EXCEPT !.at = at]
           b == [a EXCEPT !.only = only]
           e == [b EXCEPT !.asked = filed]
<1>2. /\ Step(p, e) /\ UNCHANGED <<sweepKind, filed, kept, symbolState, sweepFaults, refusals, cut>>
      /\ sweepsBegun' = sweepsBegun + 1 /\ sweep[p].at \in {"idle", "done"}
  BY <1>1 DEF BeginSweep
<1>3. /\ filed \in [Listed -> [FactNumbers -> Nat]] /\ kept \in Editions /\ only \in BOOLEAN
      /\ symbolState \in [Listed -> {"none", "RUNNING", "SUCCESS", "FAILED"}]
      /\ sweepKind \in SweepKinds /\ {sweepsBegun, sweepFaults, refusals} \subseteq Nat
      /\ TasksOK(Tasks, FactNumbers)
  BY <1>0, TasksFine DEF SwTypes, Editions
<1>4. at \in {"take", "record"}
  OBVIOUS
<1> HIDE DEF at
<1>5. /\ NoSweep \in SweepEntry(FactNumbers) /\ NoSweep.left = {} /\ NoSweep.task = 1 /\ NoSweep.request = 1
  BY <1>3, NothingYet
<1>6. /\ a \in SweepEntry(FactNumbers) /\ a.at = at /\ a.left = {} /\ a.task = 1 /\ a.request = 1
  BY <1>4, <1>5 DEF SweepEntry
<1> HIDE DEF a
<1>7. /\ b \in SweepEntry(FactNumbers) /\ b.at = at /\ b.left = {} /\ b.task = 1 /\ b.request = 1 /\ b.only = only
  BY <1>3, <1>6 DEF SweepEntry
<1> HIDE DEF b
<1>8. /\ e \in SweepEntry(FactNumbers) /\ e.at = at /\ e.left = {} /\ e.task = 1 /\ e.request = 1 /\ e.only = only
      /\ e.asked = filed
  BY <1>3, <1>7 DEF SweepEntry
<1> HIDE DEF e
<1>9. \A q \in Sweepers : q # p => sweep'[q] = sweep[q]
  BY <1>0, <1>2 DEF Step, SwTypes
<1>10. sweep'[p] = e /\ sweep' \in [Sweepers -> SweepEntry(FactNumbers)]
  BY <1>0, <1>2, <1>8 DEF Step, SwTypes
<1>11. FactNumbers' = FactNumbers /\ Tasks' = Tasks /\ Editions' = Editions
  BY <1>2, KindStays
<1>12. Good(e, FactNumbers, Tasks, kept, filed, sweepKind, Alone')
  <2>1. (at = "take" /\ 1 \in DOMAIN Tasks) \/ (at = "record" /\ DOMAIN Tasks = {})
    BY <1>3 DEF at, TasksOK
  <2>2. Place(e, Tasks, sweepKind)
    BY <1>1, <1>8, <2>1 DEF Place, Working
  <2>3. Answers(e, FactNumbers, Tasks) /\ SkipsFit(e, Tasks, kept)
    BY <1>4, <1>8 DEF Answers, SkipsFit
  <2>4. AskedFor(e, FactNumbers, filed)
    BY <1>3, <1>8 DEF AskedFor
  <2>5. SoFar(e, Tasks, kept)
    <3>1. \A i \in DOMAIN Tasks : ~ (i < 1)
      BY <1>3 DEF TasksOK
    <3> QED
      BY <1>8, <2>1, <3>1 DEF SoFar
  <2> QED
    BY <1>8, <2>2, <2>3, <2>4, <2>5 DEF Good
<1>13. \A q \in Sweepers : Fine(q)'
  <2> SUFFICES ASSUME NEW q \in Sweepers PROVE Fine(q)'
    OBVIOUS
  <2>1. CASE q = p
    BY <1>2, <1>10, <1>11, <1>12, <2>1 DEF Fine
  <2>2. CASE q # p
    <3>1. Alone' /\ sweep[q].at # "idle" => Alone
      <4>1. sweep[q].at # "idle" => sweepsBegun # 0
        BY <1>0 DEF FirstIsAlone
      <4>2. sweepsBegun' = sweepsBegun + 1 /\ sweepsBegun \in Nat /\ sweepKind' = sweepKind
        BY <1>2, <1>3
      <4>3. sweepsBegun # 0 => sweepsBegun' # 1
        BY <4>2
      <4> QED
        BY <4>1, <4>2, <4>3, Zenon DEF Alone
    <3>2. filed' \in Editions /\ kept' \in Editions /\ sweepKind' = sweepKind /\ sweep'[q] = sweep[q]
      BY <1>2, <1>3, <1>9, <2>2 DEF Editions
    <3>3. /\ \A s \in Listed, c \in FactNumbers : filed'[s][c] >= filed[s][c]
          /\ \A s \in Listed, c \in FactNumbers : kept'[s][c] >= kept[s][c]
      BY <1>2, <1>3 DEF Editions
    <3>4. \A s \in Listed, c \in FactNumbers : There(sweep[q], kept, s, c) => There(sweep[q], kept', s, c)
      BY <1>2 DEF There
    <3> QED
      BY <3>1, <3>2, <3>3, <3>4, OthersGrow
  <2> QED
    BY <2>1, <2>2
<1>14. SwTypes'
  BY <1>0, <1>2, <1>3, <1>10, <1>11 DEF SwTypes
<1>15. FirstIsAlone'
  <2>1. sweepsBegun' # 0 /\ (sweepsBegun' = 1 => sweepsBegun = 0)
    <3>1. sweepsBegun' = sweepsBegun + 1 /\ sweepsBegun \in Nat
      BY <1>2, <1>3
    <3> QED
      BY <3>1
  <2>2. sweepsBegun' = 1 => \A q \in Sweepers : q # p => sweep'[q].at = "idle"
    BY <1>0, <1>9, <2>1 DEF FirstIsAlone
  <2> QED
    BY <2>1, <2>2 DEF FirstIsAlone
<1>16. KnocksFit'
  <2>1. {sweepsBegun, sweepFaults, refusals, sweepsBegun', sweepFaults', refusals'} \subseteq Nat
        /\ refusals' = refusals /\ sweepsBegun' + sweepFaults' >= sweepsBegun + sweepFaults + 1
    BY <1>2, <1>3
  <2> QED
    BY <1>0, <1>9, <2>1, KnocksMove
<1>17. StatusFits'
  <2>1. ~ AtTask(p)
    BY <1>2 DEF AtTask
  <2>2. /\ symbolState' \in [Listed -> {"none", "RUNNING", "SUCCESS", "FAILED"}]
        /\ symbolState' = symbolState /\ cut' = cut /\ sweepKind' = sweepKind
    BY <1>2, <1>3
  <2> QED
    BY <1>0, <1>9, <2>1, <2>2, StatusMoves
<1> QED
  BY <1>13, <1>14, <1>15, <1>16, <1>17 DEF SwInv

\* What is published later was not asked for by the sweeps that run.
LEMMA PublishKeeps ==
  ASSUME SwInv, Publish
  PROVE  SwInv'
<1>0. SwTypes /\ FirstIsAlone /\ KnocksFit /\ StatusFits
  BY DEF SwInv
<1>1. UNCHANGED <<sweepKind, kept, symbolState, sweep, sweepsBegun, sweepFaults, refusals, cut>>
  BY DEF Publish
<1>2. PICK s \in Listed, c \in FactNumbers : filed' = [filed EXCEPT ![s][c] = @ + 1]
  BY DEF Publish, Listed
<1>3. filed \in [Listed -> [FactNumbers -> Nat]] /\ kept \in Editions
  BY <1>0 DEF SwTypes, Editions
<1>4. filed' \in Editions /\ \A t \in Listed, d \in FactNumbers : filed'[t][d] >= filed[t][d]
  BY <1>2, <1>3 DEF Editions
<1>5. FactNumbers' = FactNumbers /\ Tasks' = Tasks /\ Editions' = Editions
  BY <1>1, KindStays
<1>6. SwTypes'
  BY <1>0, <1>1, <1>4, <1>5 DEF SwTypes
<1>7. \A q \in Sweepers : Fine(q)'
  <2> SUFFICES ASSUME NEW q \in Sweepers PROVE Fine(q)'
    OBVIOUS
  <2>1. kept' \in Editions /\ sweepKind' = sweepKind /\ sweep'[q] = sweep[q] /\ (Alone' => Alone)
    BY <1>1, <1>3 DEF Alone
  <2>2. /\ \A t \in Listed, d \in FactNumbers : kept'[t][d] >= kept[t][d]
        /\ \A t \in Listed, d \in FactNumbers : There(sweep[q], kept, t, d) => There(sweep[q], kept', t, d)
    BY <1>1, <1>3 DEF Editions, There
  <2> QED
    BY <1>4, <2>1, <2>2, OthersGrow
<1>8. FirstIsAlone'
  BY <1>0, <1>1 DEF FirstIsAlone
<1>9. KnocksFit'
  BY <1>0, <1>1 DEF KnocksFit, Knocking
<1>10. StatusFits'
  BY <1>0, <1>1, <1>5 DEF StatusFits, RunningIsExplained, AtTask, SymbolOf, TaskOf
<1> QED
  BY <1>6, <1>7, <1>8, <1>9, <1>10 DEF SwInv

\* The invariant holds at the start.
LEMMA InitSweeps == SweepsInit => SwInv
<1> SUFFICES ASSUME SweepsInit PROVE SwInv
  OBVIOUS
<1>1. sweepKind \in SweepKinds /\ NoSweep \in SweepEntry(FactNumbers) /\ NoSweep.at = "idle"
  BY NothingYet DEF SweepsInit
<1>2. NoEdition \in [FactNumbers -> Nat]
  BY DEF NoEdition
<1>3. SwTypes
  BY <1>1, <1>2 DEF SweepsInit, SwTypes, Editions, Listed
<1>4. \A p \in Sweepers : sweep[p] = NoSweep
  BY DEF SweepsInit
<1>5. \A p \in Sweepers : Fine(p)
  BY <1>3, <1>4, IdleIsGood DEF Fine
<1>6. FirstIsAlone
  BY <1>1, <1>4 DEF FirstIsAlone
<1>7. KnocksFit
  <2>1. Knocking = {}
    BY <1>1, <1>4 DEF Knocking
  <2>2. refusals = 0 /\ sweepsBegun = 0 /\ sweepFaults = 0
    BY DEF SweepsInit
  <2> QED
    BY <2>1, <2>2, FS_EmptySet DEF KnocksFit
<1>8. \A s \in Listed : symbolState[s] # "RUNNING"
  BY DEF SweepsInit, Listed
<1>9. StatusFits
  BY <1>8 DEF StatusFits, RunningIsExplained, Listed
<1> QED
  BY <1>3, <1>5, <1>6, <1>7, <1>9 DEF SwInv

\* Every step keeps the invariant.
LEMMA SweepsInductive == SwInv /\ [SweepsNext]_sweepVars => SwInv'
<1> SUFFICES ASSUME SwInv, [SweepsNext]_sweepVars PROVE SwInv'
  OBVIOUS
<1>1. CASE Publish
  BY <1>1, PublishKeeps
<1>2. ASSUME NEW p \in Sweepers,
             \/ BeginSweep(p) \/ Take(p) \/ SkipRequest(p) \/ FetchFacts(p) \/ RefuseByQuota(p) \/ SaveFacts(p)
             \/ MarkSucceeded(p) \/ MarkFailed(p) \/ StopSweep(p) \/ RecordSweep(p)
             \/ RequestFails(p) \/ CutOff(p) \/ SweepDies(p)
      PROVE  SwInv'
  BY <1>2, BeginSweepKeeps, TakeKeeps, SkipKeeps, FetchFactsKeeps, RefuseKeeps, SaveFactsKeeps,
     MarkSucceededKeeps, MarkFailedKeeps, StopKeeps, RecordKeeps, RequestFailsKeeps, CutOffKeeps, DiesKeeps
<1>3. CASE UNCHANGED sweepVars
  <2>1. FactNumbers' = FactNumbers /\ Tasks' = Tasks /\ Editions' = Editions
    BY <1>3, KindStays DEF sweepVars
  <2>2. SwTypes' /\ FirstIsAlone' /\ KnocksFit'
    BY <1>3, <2>1 DEF SwInv, SwTypes, FirstIsAlone, KnocksFit, Knocking, sweepVars
  <2>3. StatusFits'
    BY <1>3, <2>1 DEF SwInv, StatusFits, RunningIsExplained, AtTask, SymbolOf, TaskOf, sweepVars
  <2>4. \A p \in Sweepers : Fine(p)'
    BY <1>3, <2>1 DEF SwInv, Fine, Alone, sweepVars
  <2> QED
    BY <2>2, <2>3, <2>4 DEF SwInv
<1> QED
  BY <1>1, <1>2, <1>3 DEF SweepsNext

\* What a sweep that has ended did not report is there.
LEMMA NothingIsMissed == SwInv => NothingMissedSilently
<1> SUFFICES ASSUME SwInv, NEW p \in Sweepers, sweep[p].at = "done", sweepKind \in Overwritten => sweepsBegun = 1
             PROVE  LET reported == IF sweepKind \in Names THEN sweep[p].failed \cup sweep[p].left
                                    ELSE IF sweep[p].failed # {} THEN Range(Universe) ELSE {}
                    IN /\ \A s \in Range(Universe) \ reported, c \in FactNumbers : IsThere(p, s, c)
                       /\ sweepKind = "flows" /\ JobSucceeded(p) =>
                            \A s \in Range(Universe), c \in FactNumbers : IsThere(p, s, c)
  BY DEF NothingMissedSilently
<1> DEFINE w == sweep[p]
<1>1. /\ TasksOK(Tasks, FactNumbers) /\ w \in SweepEntry(FactNumbers)
      /\ Place(w, Tasks, sweepKind) /\ SoFar(w, Tasks, kept)
  BY AtWork DEF Good, Alone
<1>2. \A s, c : IsThere(p, s, c) <=> There(w, kept, s, c)
  BY DEF IsThere, There
<1>3. ASSUME NEW s \in Listed, s \notin w.failed \cup w.left, NEW c \in FactNumbers PROVE There(w, kept, s, c)
  <2> HIDE DEF w
  <2>1. PICK i \in DOMAIN Tasks : Tasks[i].symbol = s /\ \E r \in DOMAIN Tasks[i].requests : c \in Tasks[i].requests[r]
    BY <1>1 DEF TasksOK
  <2>2. TaskDone(w, Tasks, kept, i)
    BY <1>1, <1>3, <2>1 DEF SoFar, w
  <2> QED
    BY <1>3, <2>1, <2>2 DEF TaskDone, RequestDone
<1>4. sweepKind \notin {"statements"} => w.left = {}
  BY <1>1 DEF Place
<1>5. sweepKind \notin Names => w.left = {}
  BY <1>4 DEF Names
<1>6. w.failed \subseteq Listed /\ w.left \subseteq Listed
  BY <1>1 DEF SweepEntry
<1>7. JobSucceeded(p) /\ sweepKind = "flows" => w.failed = {}
  BY DEF JobSucceeded
<1> HIDE DEF w
<1>8. sweepKind = "flows" /\ JobSucceeded(p) => \A s \in Listed, c \in FactNumbers : There(w, kept, s, c)
  BY <1>3, <1>4, <1>7
<1>9. sweepKind \in Names => \A s \in Listed \ (w.failed \cup w.left), c \in FactNumbers : There(w, kept, s, c)
  BY <1>3
<1>10. sweepKind \notin Names /\ w.failed = {} => \A s \in Listed, c \in FactNumbers : There(w, kept, s, c)
  BY <1>3, <1>5
<1> QED
  BY <1>2, <1>8, <1>9, <1>10 DEF Listed, w

\* Only a save changes what is stored.
LEMMA StoredGrows == SwInv /\ [SweepsNext]_sweepVars => EditionsNeverGoBack
<1> SUFFICES ASSUME SwInv, [SweepsNext]_sweepVars, sweepKind \notin Overwritten
             PROVE  \A s \in Listed, c \in FactNumbers : kept'[s][c] >= kept[s][c]
  BY DEF EditionsNeverGoBack, Listed
<1>1. kept \in [Listed -> [FactNumbers -> Nat]]
  BY DEF SwInv, SwTypes, Editions
<1>2. kept' = kept \/ \E p \in Sweepers : SaveFacts(p)
  BY DEF SweepsNext, sweepVars, Publish, BeginSweep, Take, SkipRequest, FetchFacts, RefuseByQuota,
         MarkSucceeded, MarkFailed, StopSweep, RecordSweep, RequestFails, CutOff, SweepDies
<1>3. CASE kept' = kept
  BY <1>1, <1>3
<1>4. CASE \E p \in Sweepers : SaveFacts(p)
  BY <1>4, SaveGrows
<1> QED
  BY <1>2, <1>3, <1>4

\* A sweep that has ended leaves no gap unspoken, a symbol that says RUNNING is being
\* collected or was cut off, no sweep goes on after the quota is over, and no edition is
\* replaced by an older one: for any universe, number of processes, windows and faults.
THEOREM SweepsCorrect == SweepsSpec => SweepsContract
<1>1. SwInv => NothingMissedSilently /\ RunningIsExplained /\ RefusedOncePerSweep
  <2> SUFFICES ASSUME SwInv PROVE NothingMissedSilently /\ RunningIsExplained /\ RefusedOncePerSweep
    OBVIOUS
  <2>1. refusals <= sweepsBegun + sweepFaults
    <3>1. {refusals, sweepsBegun, sweepFaults} \subseteq Nat /\ Cardinality(Knocking) \in Nat
          /\ refusals + Cardinality(Knocking) <= sweepsBegun + sweepFaults
      BY FS_CardinalityType DEF SwInv, SwTypes, KnocksFit
    <3> QED
      BY <3>1
  <2> QED
    BY <2>1, NothingIsMissed DEF SwInv, StatusFits, RefusedOncePerSweep
<1>2. SwInv /\ [SweepsNext]_sweepVars =>
        SwInv' /\ [NothingMissedSilently' /\ RunningIsExplained' /\ RefusedOncePerSweep' /\ EditionsNeverGoBack]_sweepVars
  BY <1>1, SweepsInductive, StoredGrows, PTL
<1> QED
  BY <1>2, InitSweeps, PTL DEF SweepsSpec, SweepsContract
=============================================================================
